---------------------------- MODULE TerminalHandoff ----------------------------
(***************************************************************************)
(* Continuing a managed session in an external terminal                    *)
(* (native_runtime.rs and native_runtime/terminal_handoff.rs): the agent   *)
(* process must be gone, or at least frozen, before a terminal resumes the *)
(* same conversation, and a handoff that fails must give the session back. *)
(*                                                                         *)
(* app_termination_lock is held by one operation from its first line to    *)
(* its last, so there is one operation `op' at a time: a direct handoff, a *)
(* managed one (the caller opens the terminal) or the worker that finishes *)
(* a handoff that had to wait for the provider's session id.  reconnect_   *)
(* lock is dropped while the operation waits for the helper: every action  *)
(* below is one stretch under that lock, and the output pump, the helper   *)
(* and its death come in between.  What the operation may rely on after a  *)
(* wait is the reservation it made, checked again by Valid.                *)
(*                                                                         *)
(* `ses' is the session as the manager sees it: record, handle, process    *)
(* and reservation.  The handle's record copy is the record (update_record *)
(* keeps them equal), a retired handle's process is killed with it.        *)
(***************************************************************************)
EXTENDS Naturals, Sequences

CONSTANTS MaxHelpers,   \* bound: helper generations
          MaxHandoffs,  \* bound: handoffs requested
          MaxPrompts,   \* bound: prompts sent
          MaxDeaths     \* bound: helpers that die or report an error

ASSUME HandoffAssumption ==
  /\ MaxHelpers \in Nat \ {0}
  /\ {MaxHandoffs, MaxPrompts, MaxDeaths} \subseteq Nat

VARIABLES ses,        \* the session
          op,         \* the operation that holds app_termination_lock
          workers,    \* claimed preparations whose worker has not started
          terminals,  \* number of terminals open on the conversation
          spent       \* how much of each bound is used
handoffVars == <<ses, op, workers, terminals, spent>>

NoHandle == [gen |-> 0, alive |-> FALSE, up |-> FALSE, prep |-> 0,
             busy |-> FALSE, tasks |-> FALSE, known |-> FALSE,
             acks |-> {}, inbox |-> <<>>, outbox |-> <<>>]

NoReservation == [id |-> 0, gen |-> 0, claimed |-> FALSE]

NoOp == [kind |-> "none", pc |-> "none", id |-> 0, gen |-> 0, round |-> 1,
         force |-> FALSE, was |-> "none", err |-> FALSE]

HandoffStatus == {"handoff_pending", "handoff_finalizing", "handoff_closing"}
Terminated == {"stopped", "error", "handoff", "handoff_closing", "interrupted"}
Rewindable == {"ready", "interrupted"}

\* The session after its first helper has reported ready: with a conversation id
\* to resume, or still without one.
HandoffInit ==
  /\ \E known \in BOOLEAN :
       ses = [status |-> "ready", sid |-> known, pending |-> FALSE, force |-> FALSE,
              doubt |-> FALSE, reservation |-> NoReservation,
              helper |-> [NoHandle EXCEPT !.gen = 1, !.alive = TRUE, !.up = TRUE]]
  /\ op = NoOp /\ workers = {} /\ terminals = 0
  /\ spent = [helpers |-> 1, handoffs |-> 0, prompts |-> 0, deaths |-> 0]

Spend(what, limit) ==
  /\ spent[what] < limit
  /\ spent' = [spent EXCEPT ![what] = @ + 1]

-----------------------------------------------------------------------------
(* The pieces the operations are made of, on the session record.           *)

\* write_to_child: lost if the process has died, which the writer notices.
Send(s, command) ==
  IF s.helper.up
  THEN [s EXCEPT !.helper.inbox = Append(@, command)] ELSE s

PrepareStop(id, force, finalize) ==
  [kind |-> "prepare", id |-> id, force |-> force, finalize |-> finalize]
CancelPrepareStop(id) ==
  [kind |-> "cancel", id |-> id, force |-> FALSE, finalize |-> FALSE]
StopCommand(force) == [kind |-> "stop", id |-> 0, force |-> force, finalize |-> FALSE]
Prompt == [kind |-> "prompt", id |-> 0, force |-> FALSE, finalize |-> FALSE]

\* validate_terminal_handoff: the reservation is still this request's, and the
\* helper it was made for is still there (or, after a shutdown, gone).
Valid(s, id, allowRetired) ==
  /\ id # 0 /\ s.reservation.id = id
  /\ \/ s.helper.gen = s.reservation.gen
     \/ s.helper.gen = 0 /\ allowRetired

\* The reservation outlives the helper only once the record says so.
Invalidated(s) ==
  IF s.status # "handoff_closing" /\ s.reservation.gen = s.helper.gen
  THEN [s EXCEPT !.reservation = NoReservation] ELSE s

\* Mutant: a retirement leaves the reservation to the operation.
RetireKeepingReservation(s, gen) ==
  IF gen = 0 \/ s.helper.gen # gen THEN s
  ELSE [s EXCEPT !.helper = NoHandle, !.doubt = FALSE]

\* retire_handle_if_current for the helper of generation gen.
RetireHandle(s, gen) ==
  IF gen = 0 \/ s.helper.gen # gen THEN s
  ELSE [Invalidated(s) EXCEPT !.helper = NoHandle, !.doubt = FALSE]

\* cancel_terminal_handoff_preparation: only this request's reservation goes, and
\* only the helper it was made for is thawed.
CancelPreparation(s, id) ==
  IF s.reservation.id # id THEN s
  ELSE LET freed == [s EXCEPT !.reservation = NoReservation]
       IN  IF s.helper.gen = 0 \/ s.helper.gen # s.reservation.gen THEN freed
           ELSE [Send(freed, CancelPrepareStop(id)) EXCEPT
                   !.helper.alive = TRUE,
                   !.helper.acks = {a \in @ : a.id # id}]

FailPending(s, id) ==
  LET freed == CancelPreparation(s, id)
  IN  IF ~Valid(s, id, TRUE) THEN freed
      ELSE [freed EXCEPT
              !.status = IF @ \in {"handoff_pending", "handoff_finalizing"}
                         THEN "ready" ELSE @,
              !.pending = FALSE]

\* active_background_tasks, as far as the host has read about them.
TasksForbid(s, force) == s.helper.known /\ ~force

\* request_child_prepare_stop; a failed write is the caller's error.
RequestPrepare(s, id, force, finalize) ==
  Send([s EXCEPT !.helper.acks = {a \in @ : a.id # id}],
       PrepareStop(id, force, finalize))

-----------------------------------------------------------------------------
(* Requests.                                                               *)

NewId == spent.handoffs + 1

\* reserve_terminal_handoff and the checks in front of it.
MayReserve(force) ==
  /\ op = NoOp
  /\ ses.reservation = NoReservation
  /\ ses.status \notin {"stopped", "error", "handoff"} \cup HandoffStatus
  /\ ~TasksForbid(ses, force)

Reserved == [ses EXCEPT !.reservation =
               [id |-> NewId, gen |-> ses.helper.gen, claimed |-> FALSE]]

\* handoff_to_terminal: at once when the conversation has an id, otherwise the
\* session is marked and the lock given back.
RequestDirect(force) ==
  /\ MayReserve(force) /\ ses.status \in Rewindable
  /\ IF ses.sid
     THEN /\ ses' = Reserved
          /\ op' = [NoOp EXCEPT !.kind = "direct", !.pc = "prepare", !.id = NewId,
                                !.force = force, !.was = ses.status]
     ELSE /\ ses' = [Reserved EXCEPT !.status = "handoff_pending",
                                     !.pending = TRUE, !.force = force]
          /\ op' = op
  /\ Spend("handoffs", MaxHandoffs)
  /\ UNCHANGED <<workers, terminals>>

\* run_managed_terminal_handoff: whether a turn runs is left to the helper.
RequestManaged(force) ==
  /\ MayReserve(force) /\ ses.sid
  /\ ses' = Reserved
  /\ op' = [NoOp EXCEPT !.kind = "managed", !.pc = "prepare", !.id = NewId,
                        !.force = force]
  /\ Spend("handoffs", MaxHandoffs)
  /\ UNCHANGED <<workers, terminals>>

-----------------------------------------------------------------------------
(* The steps of the operation.                                             *)

At(pc) == op.pc = pc /\ UNCHANGED <<workers, spent>>
Goto(pc) == op' = [op EXCEPT !.pc = pc]
Raise(pc) == op' = [op EXCEPT !.pc = pc, !.err = TRUE]
Return == op' = NoOp
Managed == op.kind = "managed"
Opened == Managed /\ op.round = 2

\* Where an error leaves the operation: a managed one that has opened its
\* terminal closes it again, the others settle their reservation.
FailTo(early) ==
  IF Opened THEN Raise("cleanup") ELSE IF early THEN Return ELSE Raise("settle")

\* prepare_terminal_handoff_child, up to the wait.
PrepareChild ==
  /\ At("prepare") /\ UNCHANGED terminals
  /\ IF ~Valid(ses, op.id, FALSE) THEN FailTo(TRUE) /\ UNCHANGED ses
     ELSE IF ses.helper.gen = 0
     THEN /\ op' = [op EXCEPT !.pc = "check", !.err = ses.status \notin Rewindable]
          /\ UNCHANGED ses
     ELSE /\ ses' = RequestPrepare(ses, op.id, op.force, ~Managed \/ Opened)
          /\ op' = [op EXCEPT !.pc = IF ses.helper.up THEN "await" ELSE "check",
                              !.err = ~ses.helper.up, !.gen = ses.helper.gen]

AwaitedTo(err) ==
  op' = [op EXCEPT !.pc = IF op.kind # "finish" THEN "check"
                          ELSE IF err THEN "settle" ELSE "complete",
                   !.err = err]

\* await_child_prepare_stop: polled without the lock.
AwaitLosesHelper ==
  /\ At("await") /\ UNCHANGED <<ses, terminals>>
  /\ ses.helper.gen # op.gen \/ TasksForbid(ses, op.force)
  /\ AwaitedTo(TRUE)

AwaitFindsAck ==
  /\ At("await") /\ UNCHANGED terminals
  /\ ses.helper.gen = op.gen /\ ~TasksForbid(ses, op.force)
  /\ \E a \in ses.helper.acks :
       /\ a.id = op.id
       /\ ses' = [ses EXCEPT !.helper.acks = @ \ {a}]
       /\ AwaitedTo(~a.ready)

AwaitExpires ==
  /\ At("await") /\ UNCHANGED <<ses, terminals>>
  /\ AwaitedTo(TRUE)

\* ... and prepare_terminal_handoff_child after it.
CheckPrepared ==
  /\ At("check") /\ UNCHANGED terminals
  /\ IF op.err \/ ~Valid(ses, op.id, FALSE)
     THEN ses' = CancelPreparation(ses, op.id) /\ FailTo(TRUE)
     ELSE /\ UNCHANGED ses
          /\ Goto(IF Managed /\ ~Opened THEN "open" ELSE "complete")

Frozen(s) == [s EXCEPT !.helper.alive = FALSE]

\* The managed caller opens its terminal while the helper is only frozen.
OpenManaged ==
  /\ At("open")
  /\ IF ~Valid(ses, op.id, FALSE) THEN Return /\ UNCHANGED <<ses, terminals>>
     ELSE \/ /\ ses' = CancelPreparation(Frozen(ses), op.id)
             /\ Return /\ UNCHANGED terminals
          \/ /\ ses' = Frozen(ses)
             /\ terminals' = terminals + 1
             /\ op' = [op EXCEPT !.pc = "prepare", !.round = 2,
                                 !.gen = ses.helper.gen]

\* complete_terminal_handoff and complete_managed_terminal_handoff, up to the
\* shutdown.
CompleteHandoff ==
  /\ At("complete") /\ UNCHANGED terminals
  /\ IF ~Valid(ses, op.id, FALSE) THEN FailTo(FALSE) /\ UNCHANGED ses
     ELSE IF TasksForbid(ses, op.force)
     THEN /\ FailTo(FALSE)
          /\ ses' = IF Managed THEN CancelPreparation(ses, op.id) ELSE ses
     ELSE /\ ses' = [Frozen(ses) EXCEPT !.status = "handoff_closing"]
          /\ op' = [op EXCEPT !.pc = "shutdown", !.gen = ses.helper.gen,
                              !.was = IF Managed THEN ses.status ELSE @]

\* shutdown_terminal_handoff_child.
ShutdownChild ==
  /\ At("shutdown") /\ UNCHANGED terminals
  /\ IF ~Valid(ses, op.id, FALSE) \/ TasksForbid(ses, op.force)
     THEN Raise("conclude") /\ UNCHANGED ses
     ELSE IF ses.helper.up
     THEN ses' = Send(Frozen(ses), StopCommand(op.force)) /\ Goto("waitExit")
     ELSE ses' = RetireHandle(ses, ses.reservation.gen) /\ Goto("conclude")

WaitExit ==
  /\ At("waitExit") /\ UNCHANGED <<ses, terminals>>
  /\ \/ ses.helper.gen # op.gen /\ Goto("conclude")
     \/ ses.helper.gen = op.gen /\ TasksForbid(ses, op.force) /\ Raise("conclude")

WaitExitExpires ==
  /\ At("waitExit") /\ UNCHANGED terminals
  /\ IF ~Valid(ses, op.id, TRUE) \/ TasksForbid(ses, op.force)
     THEN Raise("conclude") /\ UNCHANGED ses
     ELSE ses' = RetireHandle(ses, op.gen) /\ Goto("conclude")

\* A shutdown that failed gives the record back the status it had.
ConcludeFailed ==
  /\ At("conclude") /\ UNCHANGED terminals
  /\ op.err \/ ~Valid(ses, op.id, TRUE)
  /\ FailTo(FALSE)
  /\ ses' = IF ~Valid(ses, op.id, TRUE) THEN ses
            ELSE [(IF Managed THEN CancelPreparation(ses, op.id) ELSE ses)
                    EXCEPT !.status = op.was]

HandedOver(s, gen) ==
  RetireHandle([s EXCEPT !.status = "handoff", !.pending = FALSE], gen)

\* launch_terminal_for_native_handoff: from here on nothing is tried again.
LaunchDirect ==
  /\ At("conclude") /\ ~Managed
  /\ ~op.err /\ Valid(ses, op.id, TRUE)
  /\ \/ /\ terminals' = terminals + 1
        /\ ses' = HandedOver(ses, op.gen)
        /\ Goto("settle")
     \/ /\ ses' = RetireHandle([ses EXCEPT !.status = "interrupted",
                                           !.pending = FALSE], op.gen)
        /\ Raise("settle") /\ UNCHANGED terminals

CommitManaged ==
  /\ At("conclude") /\ Managed
  /\ ~op.err /\ Valid(ses, op.id, TRUE)
  /\ ses' = [HandedOver(ses, ses.helper.gen) EXCEPT !.reservation = NoReservation]
  /\ Return /\ UNCHANGED terminals

\* The end of handoff_to_terminal and of finish_pending_terminal_handoff.
SettleHandoff ==
  /\ At("settle") /\ UNCHANGED terminals
  /\ ses' = IF op.err THEN FailPending(ses, op.id)
            ELSE [ses EXCEPT !.reservation = NoReservation]
  /\ Return

CleanupManaged ==
  /\ At("cleanup") /\ UNCHANGED ses
  /\ terminals' = terminals - 1
  /\ Goto("rollback")

RollbackManaged ==
  /\ At("rollback") /\ UNCHANGED terminals
  /\ LET freed == CancelPreparation(ses, op.id)
     IN  ses' = IF op.gen # 0 /\ freed.helper.gen = op.gen
                THEN [freed EXCEPT !.helper.alive = TRUE] ELSE freed
  /\ Return

\* finish_pending_terminal_handoff, up to its wait.
StartFinish ==
  /\ op = NoOp
  /\ \E w \in workers :
       /\ workers' = workers \ {w}
       /\ IF ~Valid(ses, w.id, FALSE)
          THEN ses' = CancelPreparation(ses, w.id) /\ op' = op
          ELSE /\ UNCHANGED ses
               /\ op' = IF ~ses.pending THEN op
                        ELSE [NoOp EXCEPT !.kind = "finish", !.id = w.id, !.gen = w.gen,
                                !.pc = IF w.gen # 0 THEN "await" ELSE "complete",
                                !.force = ses.force, !.was = ses.status]
  /\ UNCHANGED <<terminals, spent>>

-----------------------------------------------------------------------------
(* What else holds app_termination_lock.                                   *)

Reconnected(s) ==
  [RetireHandle(s, s.helper.gen) EXCEPT
     !.status = IF @ = "interrupted" THEN "initializing" ELSE @,
     !.helper = [NoHandle EXCEPT !.gen = spent.helpers + 1, !.alive = TRUE, !.up = TRUE,
                   !.outbox = (IF s.sid THEN <<[kind |-> "meta"]>> ELSE <<>>)
                              \o <<[kind |-> "ready"]>>]]

\* send_user_message: the handle is used, or replaced, and the prompt written;
\* the write may end without telling whether it was read.
SendPrompt ==
  /\ op = NoOp /\ ses.reservation = NoReservation
  /\ ses.status \notin {"stopped", "error", "handoff"} \cup HandoffStatus
  /\ ~ses.doubt
  /\ spent.prompts < MaxPrompts
  /\ ses.helper.alive \/ spent.helpers < MaxHelpers
  /\ spent' = [spent EXCEPT !.prompts = @ + 1,
                            !.helpers = IF ses.helper.alive THEN @ ELSE @ + 1]
  /\ LET s == IF ses.helper.alive THEN ses ELSE Reconnected(ses)
     IN  ses' \in {Send(s, Prompt), [s EXCEPT !.doubt = TRUE],
                   [Send(s, Prompt) EXCEPT !.doubt = TRUE]}
  /\ UNCHANGED <<op, workers, terminals>>

\* stop_session of a command whose delivery is in doubt: the helper is retired
\* and the command released.
StopDoubtful ==
  /\ op = NoOp /\ ses.doubt /\ ~ses.helper.known
  /\ LET s == RetireHandle(ses, ses.helper.gen)
     IN  ses' = [s EXCEPT !.status = IF @ \in Terminated \cup HandoffStatus
                                     THEN @ ELSE "ready"]
  /\ UNCHANGED <<op, workers, terminals, spent>>

-----------------------------------------------------------------------------
(* The output pump: one line of the current helper under reconnect_lock.   *)

\* claim_pending_terminal_handoff, at the end of every line.
ClaimPending(s) ==
  IF /\ s.status = "handoff_finalizing" /\ s.pending
     /\ s.reservation # NoReservation /\ ~s.reservation.claimed
  THEN /\ ses' = [s EXCEPT !.reservation.claimed = TRUE]
       /\ workers' = workers \cup {[id |-> s.reservation.id, gen |-> s.reservation.gen]}
  ELSE ses' = s /\ UNCHANGED workers

\* session_meta: the id a waiting handoff was waiting for.
NoteMeta(s) ==
  LET known == [s EXCEPT !.sid = TRUE]
      id == s.reservation.id
  IN  IF ~(s.pending /\ s.status = "handoff_pending" /\ Valid(s, id, FALSE)) THEN known
      ELSE IF ~s.helper.up THEN FailPending(known, id)
      ELSE [RequestPrepare(known, id, s.force, TRUE) EXCEPT
              !.status = "handoff_finalizing"]

\* A status line: silenced while a handoff owns the record.
NoteStatus(s, status) ==
  IF s.reservation # NoReservation \/ s.status = "error" THEN s
  ELSE [s EXCEPT !.status = status]

\* An error line ends the helper, handoff or not.
NoteError(s, status) ==
  RetireHandle([s EXCEPT !.status = status], s.helper.gen)

PumpLine ==
  /\ ses.helper.gen # 0 /\ ses.helper.outbox # <<>>
  /\ LET line == Head(ses.helper.outbox)
         s == [ses EXCEPT !.helper.outbox = Tail(@)]
     IN  CASE line.kind = "meta" -> ClaimPending(NoteMeta(s))
           [] line.kind = "ack" ->
                ClaimPending([s EXCEPT !.helper.acks =
                                @ \cup {[id |-> line.id, ready |-> line.ready]}])
           [] line.kind \in {"ready", "processing"} ->
                ClaimPending(NoteStatus(s, line.kind))
           [] line.kind = "tasks" -> ClaimPending([s EXCEPT !.helper.known = line.ready])
           [] line.kind = "error" ->
                \E status \in IF s.sid THEN {"interrupted", "error"} ELSE {"error"} :
                  ClaimPending(NoteError(s, status))
  /\ UNCHANGED <<op, terminals, spent>>

\* mark_process_exit, after the last line.
PumpExit ==
  /\ ses.helper.gen # 0 /\ ~ses.helper.up /\ ses.helper.outbox = <<>>
  /\ ses' = RetireHandle(
              IF ses.status \in Terminated THEN ses
              ELSE [ses EXCEPT !.status = IF ses.sid THEN "interrupted" ELSE "error",
                               !.pending = FALSE],
              ses.helper.gen)
  /\ UNCHANGED <<op, workers, terminals, spent>>

-----------------------------------------------------------------------------
(* The helper process (packages/native-runtime-helper).                    *)

Says(s, lines) == [s EXCEPT !.helper.outbox = @ \o lines]
Ack(id, ready) == [kind |-> "ack", id |-> id, ready |-> ready]
Tasks(b) == [kind |-> "tasks", ready |-> b]

\* Mutant: the helper does not look whether a turn is running.
AnswerPrepareBusy(s, c) ==
  Says([s EXCEPT !.helper.prep = c.id], <<Ack(c.id, TRUE)>>)

\* prepareNativeRuntimeStop with require_idle: the helper is bound to the request
\* whatever it answers.
AnswerPrepare(s, c) ==
  LET h == s.helper
      other == h.prep # 0 /\ h.prep # c.id
      ready == ~other /\ ~h.busy /\ (~h.tasks \/ c.force)
      ends == ready /\ h.tasks /\ c.finalize
  IN  Says([s EXCEPT !.helper.prep = IF other THEN @ ELSE c.id,
                     !.helper.tasks = @ /\ ~ends],
           (IF ends THEN <<Tasks(FALSE)>> ELSE <<>>) \o <<Ack(c.id, ready)>>)

AnswerCancel(s, c) ==
  IF s.helper.prep # c.id THEN s
  ELSE Says([s EXCEPT !.helper.prep = 0],
            <<[kind |-> IF s.helper.busy THEN "processing" ELSE "ready"]>>)

\* stop: refused for the sake of background work, otherwise the process ends.
AnswerStop(s, c) ==
  IF s.helper.tasks /\ ~c.force
  THEN Says([s EXCEPT !.helper.prep = 0], <<[kind |-> "ready"]>>)
  ELSE [s EXCEPT !.helper.up = FALSE, !.helper.busy = FALSE, !.helper.tasks = FALSE]

\* A prompt starts a turn, whose first message carries the conversation's id.
AnswerPrompt(s) ==
  IF s.helper.prep # 0 \/ s.helper.busy THEN s
  ELSE Says([s EXCEPT !.helper.busy = TRUE],
            <<[kind |-> "processing"], [kind |-> "meta"]>>)

HelperReads ==
  /\ ses.helper.up /\ ses.helper.inbox # <<>>
  /\ LET c == Head(ses.helper.inbox)
         s == [ses EXCEPT !.helper.inbox = Tail(@)]
     IN  ses' = CASE c.kind = "prepare" -> AnswerPrepare(s, c)
                  [] c.kind = "cancel" -> AnswerCancel(s, c)
                  [] c.kind = "stop" -> AnswerStop(s, c)
                  [] c.kind = "prompt" -> AnswerPrompt(s)
  /\ UNCHANGED <<op, workers, terminals, spent>>

\* A turn may leave background tasks behind, which end on their own.
HelperEndsTurn ==
  /\ ses.helper.up /\ ses.helper.busy
  /\ \E left \in BOOLEAN :
       ses' = Says([ses EXCEPT !.helper.busy = FALSE, !.helper.tasks = left],
                   (IF left THEN <<Tasks(TRUE)>> ELSE <<>>) \o <<[kind |-> "ready"]>>)
  /\ UNCHANGED <<op, workers, terminals, spent>>

HelperEndsTasks ==
  /\ ses.helper.up /\ ses.helper.tasks
  /\ ses' = Says([ses EXCEPT !.helper.tasks = FALSE], <<Tasks(FALSE)>>)
  /\ UNCHANGED <<op, workers, terminals, spent>>

\* The process dies, or reports an error first.
HelperDies ==
  /\ ses.helper.up
  /\ Spend("deaths", MaxDeaths)
  /\ ses' \in {[ses EXCEPT !.helper.up = FALSE, !.helper.busy = FALSE,
                           !.helper.tasks = FALSE],
               Says(ses, <<[kind |-> "error"]>>)}
  /\ UNCHANGED <<op, workers, terminals>>

-----------------------------------------------------------------------------
HandoffStep ==
  \/ PrepareChild \/ AwaitLosesHelper \/ AwaitFindsAck \/ AwaitExpires
  \/ CheckPrepared \/ OpenManaged \/ CompleteHandoff
  \/ ShutdownChild \/ WaitExit \/ WaitExitExpires
  \/ ConcludeFailed \/ LaunchDirect \/ CommitManaged \/ SettleHandoff
  \/ CleanupManaged \/ RollbackManaged \/ StartFinish

HandoffNext ==
  \/ \E force \in BOOLEAN : RequestDirect(force) \/ RequestManaged(force)
  \/ HandoffStep
  \/ SendPrompt \/ StopDoubtful
  \/ PumpLine \/ PumpExit
  \/ HelperReads \/ HelperEndsTurn \/ HelperEndsTasks \/ HelperDies

HandoffSpec == HandoffInit /\ [][HandoffNext]_handoffVars

-----------------------------------------------------------------------------
(* Properties.                                                             *)

\* One conversation has one writer: at most one terminal is open on it, and while
\* one is, no helper works on a prompt or has one waiting in its pipe, although a
\* managed terminal is opened before the helper is stopped (7084-7097) and every
\* wait for the helper lets the pump and the helper go on.
OneWriter ==
  /\ terminals <= 1
  /\ terminals > 0 =>
       ~(ses.helper.up /\ (ses.helper.busy \/ Prompt \in {ses.helper.inbox[i] :
                                             i \in DOMAIN ses.helper.inbox}))

\* A reservation fences the session from prompts and reconnects, so it never
\* outlives whoever will give it up: the running operation, a worker that was
\* started for it, or the helper whose session_meta or exit ends the wait.
ReservationIsOwned ==
  ses.reservation # NoReservation =>
    \/ op.id = ses.reservation.id
    \/ \E w \in workers : w.id = ses.reservation.id
    \/ /\ ~ses.reservation.claimed /\ ses.pending
       /\ ses.status \in {"handoff_pending", "handoff_finalizing"}
       /\ ses.helper.gen = ses.reservation.gen

\* Finding: a handoff that waits for the conversation's id is given up with the
\* helper that could have brought the id, so the session can be used again.  A
\* Stop of a doubtful prompt retires the helper and leaves the status behind.
PendingHandoffCanEnd ==
  ses.status \in {"handoff_pending", "handoff_finalizing"} => ses.helper.gen # 0
=============================================================================
