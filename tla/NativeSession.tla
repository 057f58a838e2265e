---------------------------- MODULE NativeSession ----------------------------
(***************************************************************************)
(* One managed Claude session end to end: prompts enter the FIFO, any      *)
(* number of threads try to dispatch its head, the coordinator arbitrates  *)
(* the foreground, the helper process answers over a pipe, and the user    *)
(* may cancel or stop, while the helper may crash and a deadline may pass. *)
(* (native_runtime.rs, with native_input_queue.rs and                      *)
(* native_session_coordinator.rs as pure functions of their own.)          *)
(*                                                                         *)
(* Each step of a thread is what it does between two lock acquisitions.    *)
(* termLock is app_termination_lock.  reconnect_lock is held by the pump   *)
(* between its two steps and by Stop.  The environment mutation lock is    *)
(* held by the one dispatcher that serves a visible user action.           *)
(*                                                                         *)
(* Messages are the numbers 1..MaxMsgs in the order they are sent.  The    *)
(* session is a resumed one: its provider session id is known from the     *)
(* start, so that a dead helper leaves it "interrupted".  Settings and     *)
(* steering are left to SessionCoordinator.                                *)
(***************************************************************************)
EXTENDS InputQueueOps, SessionCoordination, FiniteSets

H == INSTANCE ClaudeHelper

CONSTANTS Dispatchers,   \* threads of the blocking pool that dispatch prompts
          Free,          \* no thread (a value that is no dispatcher)
          MaxMsgs,       \* messages the user may send
          Scenarios      \* instances: whether the session is created with an
                         \* initial prompt, how many messages are sent, and how
                         \* often each fault happens

ASSUME MsgsAssumption == MaxMsgs \in Nat /\ Msgs = 1..MaxMsgs
\* The thread that stops a session and nobody are no dispatchers.
ASSUME ThreadsAssumption ==
  Free # "stop" /\ Free \notin Dispatchers /\ "stop" \notin Dispatchers
ASSUME ScenariosAssumption ==
  Scenarios \subseteq [initial : BOOLEAN, msgs : 0..MaxMsgs, crash : Nat,
                      stop : Nat, timeout : Nat, unknown : Nat, fail : Nat]

VARIABLES
  queue, lastCmd,                    \* native_input_queue.rs
  coord,                             \* native_session_coordinator.rs
  handle, alive, initFence, status,  \* handles, initializing_runtimes, records
  lastInc,                           \* next_handle_generation
  termLock,
  disp,                              \* dispatchers
  wake,                              \* dispatches scheduled and not yet started
  pump,                              \* the reader of the helper's output
  stopper,                           \* stop_native_session
  armed, expiring,                   \* admission deadlines
  helper,
  sent, delivered, withdrawn,        \* history
  left                               \* the scenario, with the faults left in it

host == <<handle, alive, initFence, status, lastInc>>
fifo == <<queue, lastCmd>>
deadlines == <<armed, expiring>>
history == <<delivered, withdrawn>>
vars == <<queue, lastCmd, coord, handle, alive, initFence, status, lastInc,
          termLock, disp, wake, pump, stopper, armed, expiring, helper,
          sent, delivered, withdrawn, left>>

Trigger == {"InitializationSettled", "AuthoritativeLifecycle",
            "VisibleUserAction"}
Visible == "VisibleUserAction"

IdleDispatcher == [pc |-> "idle", visible |-> TRUE, cmd |-> 0, attempt |-> 0,
                   msgs |-> <<>>, inc |-> 0, retry |-> FALSE, error |-> "none"]
IdlePump == [pc |-> "idle", line |-> H!Line("none", 0, "none"),
             decision |-> "Ignored", active |-> FALSE, full |-> FALSE]
IdleStop == [pc |-> "idle", cmd |-> 0]

InitialCmd == IF left.initial THEN 1 ELSE 0
InitialPrompt == [cmd |-> InitialCmd, msgs |-> <<>>]

Init ==
  /\ left \in Scenarios
  /\ queue = <<>>
  /\ lastCmd = InitialCmd
  /\ coord = LET k == NoteIncarnation(NewCoordination, 1)
             IN  IF left.initial THEN Admit(k, 1, InitialCmd, 0) ELSE k
  /\ handle = 1 /\ alive = TRUE /\ lastInc = 1
  /\ initFence = TRUE /\ status = "initializing"
  /\ termLock = Free
  /\ disp = [d \in Dispatchers |-> IdleDispatcher]
  /\ wake = [t \in Trigger |-> 0]
  /\ pump = IdlePump
  /\ stopper = IdleStop
  /\ armed = IF left.initial
             THEN {[inc |-> 1, cmd |-> InitialCmd, attempt |-> 0]} ELSE {}
  /\ expiring = {}
  /\ helper = H!Launched(1, InitialPrompt)
  /\ sent = 0 /\ delivered = <<>> /\ withdrawn = {}

-----------------------------------------------------------------------------
Spend(fault) ==
  /\ left[fault] > 0
  /\ left' = [left EXCEPT ![fault] = @ - 1]

Scheduled(t) == [wake EXCEPT ![t] = @ + 1]

\* Messages that q no longer holds and the helper never took are withdrawn.
Withdrawn(q) ==
  withdrawn \cup ((Queued(queue) \ Queued(q)) \ ToSet(delivered))

Live == handle # 0 /\ alive
ReconnectLockFree == pump.pc = "idle" /\ stopper.pc # "remove"

\* apply_lifecycle_decision: a release reopens a session that is not terminal.
Reopened(s) == IF s = "interrupted" THEN s ELSE "open"

\* reactivate_record_for_reconnect.
Reactivated(s) == IF s = "interrupted" THEN "initializing" ELSE s

\* Mutant: the retired process is left running.
RetireKeepingHelper(k) ==
  /\ handle' = 0 /\ alive' = FALSE /\ initFence' = FALSE
  /\ coord' = k
  /\ UNCHANGED <<lastInc, helper>>

\* allocate_handle_generation.
NextGeneration == lastInc + 1

\* retire_handle_if_current, with coordinator record k after the retirement.
RetireTo(k) ==
  /\ handle' = 0 /\ alive' = FALSE /\ initFence' = FALSE
  /\ coord' = k
  /\ helper' = H!NoHelper
  /\ UNCHANGED lastInc

-----------------------------------------------------------------------------
(* dispatch_queued_with.                                                   *)

At(d, pc) == disp[d].pc = pc
Go(d, pc) == disp' = [disp EXCEPT ![d].pc = pc]
Return(d) == disp' = [disp EXCEPT ![d] = IdleDispatcher]
Fail(d, error) == disp' = [disp EXCEPT ![d].pc = "judge", ![d].error = error]

NoVisibleDispatch ==
  \A d \in Dispatchers : disp[d].pc = "idle" \/ ~disp[d].visible

\* input_merge_fence: prompts sent behind the same command merge.
MergeFence == coord.active.cmd

\* send_user_message_with_dispatch: enqueue, then dispatch as a visible action.
Send(d) ==
  /\ At(d, "idle") /\ NoVisibleDispatch
  /\ sent < left.msgs
  /\ sent' = sent + 1
  /\ queue' = Enqueued(queue, sent + 1, MergeFence)
  /\ coord' = Bump(coord)
  /\ disp' = [disp EXCEPT ![d] = [IdleDispatcher EXCEPT !.pc = "gate"]]
  /\ UNCHANGED <<lastCmd, host, termLock, wake, pump, stopper, deadlines,
                 helper, history, left>>

GateOpen(t) ==
  /\ t # "InitializationSettled" => ~initFence
  /\ status # "initializing"
  /\ t = "AuthoritativeLifecycle" => coord.adapter = "FullLifecycle"

\* The gate of a prompt just sent.
Gate(d) ==
  /\ At(d, "gate")
  /\ IF GateOpen(Visible) THEN Go(d, "claim") ELSE Return(d)
  /\ UNCHANGED <<fifo, coord, host, termLock, wake, pump, stopper, deadlines,
                 helper, sent, history, left>>

\* schedule_queued_dispatch's task, or the flush of a user command, starts: with
\* the same gate, and after that the trigger no longer matters.
StartDispatch(d, t) ==
  /\ At(d, "idle") /\ wake[t] > 0
  /\ t = Visible => NoVisibleDispatch
  /\ wake' = [wake EXCEPT ![t] = @ - 1]
  /\ disp' = IF GateOpen(t)
             THEN [disp EXCEPT ![d] = [IdleDispatcher EXCEPT
                                         !.pc = "claim",
                                         !.visible = (t = Visible)]]
             ELSE disp
  /\ UNCHANGED <<fifo, coord, host, termLock, pump, stopper, deadlines,
                 helper, sent, history, left>>

ClaimNext(d) ==
  /\ At(d, "claim") /\ Claimable(queue)
  /\ lastCmd' = lastCmd + 1
  /\ queue' = ClaimHead(queue, lastCmd + 1)
  /\ disp' = [disp EXCEPT ![d] =
       [@ EXCEPT !.pc = "claimed", !.cmd = lastCmd + 1,
                 !.attempt = queue[1].attempt + 1, !.msgs = queue[1].msgs,
                 !.retry = FALSE, !.error = "none"]]
  /\ UNCHANGED <<coord, host, termLock, wake, pump, stopper, deadlines,
                 helper, sent, history, left>>

NothingToClaim(d) ==
  /\ At(d, "claim") /\ ~Claimable(queue)
  /\ Return(d)
  /\ UNCHANGED <<fifo, coord, host, termLock, wake, pump, stopper, deadlines,
                 helper, sent, history, left>>

\* before_delivery = projection(): the revision the recheck compares with.
Observe(d) ==
  /\ At(d, "claimed")
  /\ coord' = Project(coord, d)
  /\ Go(d, "locking")
  /\ UNCHANGED <<fifo, host, termLock, wake, pump, stopper, deadlines,
                 helper, sent, history, left>>

-----------------------------------------------------------------------------
(* send_user_message_admitted, all of it under termLock.                   *)

\* The lock is ours to take, or was kept for the one retry.
HoldsOrTakes(d) == IF disp[d].retry THEN termLock = d ELSE termLock = Free

\* ensure_handle and is_current_live_handle hold the lifecycle transaction lock,
\* which process exit holds too.
UseHandle(d) ==
  /\ At(d, "locking") /\ HoldsOrTakes(d)
  /\ Live /\ pump.pc # "exited"
  /\ termLock' = d
  /\ disp' = [disp EXCEPT ![d].pc = "admit", ![d].inc = handle]
  /\ UNCHANGED <<fifo, coord, host, wake, pump, stopper, deadlines,
                 helper, sent, history, left>>

Reconnect(d) ==
  /\ At(d, "locking") /\ HoldsOrTakes(d)
  /\ ~Live /\ ReconnectLockFree
  /\ termLock' = d
  /\ lastInc' = lastInc + 1
  /\ handle' = NextGeneration /\ alive' = TRUE /\ initFence' = TRUE
  /\ coord' = NoteIncarnation(coord, NextGeneration)
  /\ status' = Reactivated(status)
  /\ helper' = H!Launched(NextGeneration, H!NoPrompt)
  /\ disp' = [disp EXCEPT ![d].pc = "admit", ![d].inc = NextGeneration]
  /\ UNCHANGED <<fifo, wake, pump, stopper, deadlines, sent, history, left>>

\* The helper could not be prepared; nothing of the session changed.
ReconnectFails(d) ==
  /\ At(d, "locking") /\ HoldsOrTakes(d)
  /\ ~Live /\ ReconnectLockFree
  /\ Spend("fail")
  /\ termLock' = Free
  /\ Fail(d, IF disp[d].retry THEN "NotStarted" ELSE "Other")
  /\ UNCHANGED <<fifo, coord, host, wake, pump, stopper, deadlines,
                 helper, sent, history>>

AdmitPrompt(d) ==
  LET me == disp[d]
      verdict == AdmissionVerdict(coord, me.inc)
  IN  /\ At(d, "admit")
      /\ coord' = Admit(coord, me.inc, me.cmd, me.attempt)
      /\ IF verdict = "ok"
         THEN Go(d, "write") /\ UNCHANGED termLock
         ELSE /\ Fail(d, IF me.retry THEN "NotStarted" ELSE verdict)
              /\ termLock' = Free
      /\ UNCHANGED <<fifo, host, wake, pump, stopper, deadlines,
                     helper, sent, history, left>>

\* write_to_live_child_outcome looks at alive of the handle it was given.
Writable(d) == handle = disp[d].inc /\ alive

Command(d) == [kind |-> "prompt", cmd |-> disp[d].cmd, msgs |-> disp[d].msgs]

Written(d) ==
  /\ At(d, "write") /\ Writable(d)
  /\ helper' = H!Push(helper, Command(d))
  /\ termLock' = Free
  /\ Go(d, "arm")
  /\ UNCHANGED <<fifo, coord, host, wake, pump, stopper, deadlines,
                 sent, history, left>>

\* StartedUnknown: the pipe broke, before or after the whole line was in it.
WriteUnknown(d) ==
  /\ At(d, "write") /\ Writable(d)
  /\ Spend("unknown")
  /\ helper' \in {helper, H!Push(helper, Command(d))}
  /\ Go(d, "mark")
  /\ UNCHANGED <<fifo, coord, host, termLock, wake, pump, stopper, deadlines,
                 sent, history>>

NotStarted(d) ==
  /\ At(d, "write") /\ ~Writable(d)
  /\ Go(d, "undo")
  /\ UNCHANGED <<fifo, coord, host, termLock, wake, pump, stopper, deadlines,
                 helper, sent, history, left>>

\* mark_delivery_uncertain, then the error returns.
MarkDelivery(d) ==
  /\ At(d, "mark")
  /\ coord' = MarkUncertain(coord, disp[d].inc, disp[d].cmd)
  /\ termLock' = Free
  /\ Fail(d, "DeliveryUncertain")
  /\ UNCHANGED <<fifo, host, wake, pump, stopper, deadlines,
                 helper, sent, history, left>>

\* The write never began.  The admission is withdrawn; if the helper retired
\* meanwhile, the same claim is tried once more on a new helper.
Undo(d) ==
  LET me == disp[d]
      abandoned == CanAbandonAdmission(coord, me.inc, me.cmd)
      retired == CanAbandonNotStarted(coord, me.inc, me.cmd)
  IN  /\ At(d, "undo")
      /\ coord' = CASE abandoned -> ReleaseActive(coord)
                    [] ~abandoned /\ retired -> AbandonNotStarted(coord)
                    [] OTHER -> coord
      /\ IF ~abandoned /\ retired /\ ~me.retry
         THEN /\ disp' = [disp EXCEPT ![d].pc = "locking", ![d].retry = TRUE]
              /\ UNCHANGED termLock
         ELSE /\ Fail(d, IF me.retry THEN "NotStarted" ELSE "Other")
              /\ termLock' = Free
      /\ UNCHANGED <<fifo, host, wake, pump, stopper, deadlines,
                     helper, sent, history, left>>

-----------------------------------------------------------------------------
(* dispatch_queued_with, after the delivery returned.                      *)

\* schedule_command_admission_deadline for whatever incarnation is active now.
\* A deadline for a command that owns nothing can never do anything.
ArmDeadline(d) ==
  LET mine == [inc |-> coord.active.inc, cmd |-> disp[d].cmd,
               attempt |-> disp[d].attempt]
  IN  /\ At(d, "arm")
      /\ armed' = {x \in armed \cup {mine} : x.cmd = coord.active.cmd}
      /\ Go(d, "peek")
      /\ UNCHANGED <<fifo, coord, host, termLock, wake, pump, stopper, expiring,
                     helper, sent, history, left>>

\* A rejection that is already in ends the attempt: no hot retry.
HeadReturned(q, m, attempt) ==
  /\ Claimable(q)
  /\ q[1].msgs[1] = m
  /\ q[1].attempt = attempt

Peek(d) ==
  /\ At(d, "peek")
  /\ IF HeadReturned(queue, disp[d].msgs[1], disp[d].attempt)
     THEN Return(d) ELSE Go(d, "after")
  /\ UNCHANGED <<fifo, coord, host, termLock, wake, pump, stopper, deadlines,
                 helper, sent, history, left>>

\* A terminal may have overtaken the write's return: go on with the next item.
AfterWrite(d) ==
  /\ At(d, "after")
  /\ IF HasActive(coord) THEN Return(d) ELSE Go(d, "claim")
  /\ UNCHANGED <<fifo, coord, host, termLock, wake, pump, stopper, deadlines,
                 helper, sent, history, left>>

\* PROMPT_NOT_STARTED_AFTER_HELPER_RETIREMENT keeps the wire id for a Stop.
GiveBack(d) ==
  /\ At(d, "judge") /\ disp[d].error = "NotStarted"
  /\ queue' = ReleaseNotStarted(queue, disp[d].msgs[1], disp[d].cmd,
                                disp[d].attempt)
  /\ coord' = Bump(coord)
  /\ Return(d)
  /\ UNCHANGED <<lastCmd, host, termLock, wake, pump, stopper, deadlines,
                 helper, sent, history, left>>

\* Is it this very batch that may have been delivered?
Judge(d) ==
  /\ At(d, "judge") /\ disp[d].error # "NotStarted"
  /\ Go(d, IF /\ disp[d].error = "DeliveryUncertain"
              /\ coord.active.cmd = disp[d].cmd
           THEN "park" ELSE "release")
  /\ UNCHANGED <<fifo, coord, host, termLock, wake, pump, stopper, deadlines,
                 helper, sent, history, left>>

Park(d) ==
  /\ At(d, "park")
  /\ queue' = MarkClaimUncertain(queue, disp[d].msgs[1], disp[d].attempt)
  /\ coord' = Bump(coord)
  /\ Return(d)
  /\ UNCHANGED <<lastCmd, host, termLock, wake, pump, stopper, deadlines,
                 helper, sent, history, left>>

Release(d) ==
  /\ At(d, "release")
  /\ queue' = ReleaseDispatch(queue, disp[d].msgs[1], disp[d].attempt)
  /\ Go(d, "recheck")
  /\ UNCHANGED <<lastCmd, coord, host, termLock, wake, pump, stopper, deadlines,
                 helper, sent, history, left>>

BlockerCleared(d) ==
  /\ disp[d].error \in {"Busy", "SettingsPending"}
  /\ d \notin coord.quiet
  /\ coord.adapter = "FullLifecycle"
  /\ ~HasActive(coord) /\ ~SettingsPending(coord)

\* Mutant: the wakeup that came while the head was claimed is lost.
RecheckNothing(d) ==
  /\ At(d, "recheck")
  /\ coord' = Bump(coord)
  /\ Return(d)
  /\ UNCHANGED <<fifo, host, termLock, wake, pump, stopper, deadlines,
                 helper, sent, history, left>>

Recheck(d) ==
  /\ At(d, "recheck")
  /\ coord' = Bump(coord)
  /\ IF BlockerCleared(d) THEN Go(d, "claim") ELSE Return(d)
  /\ UNCHANGED <<fifo, host, termLock, wake, pump, stopper, deadlines,
                 helper, sent, history, left>>

-----------------------------------------------------------------------------
(* The helper's output: one line is processed under reconnect_lock.        *)

QueryGeneration == 1     \* one SDK query per helper

LineEffect(k, l, inc) ==
  CASE l.kind = "meta" -> NoteSessionMeta(k, inc, 1, "none", QueryGeneration)
    [] l.kind = "metaFull" -> NoteSessionMeta(k, inc, 1, "full", QueryGeneration)
    [] l.kind = "admitted" -> NoteAdmitted(k, l.cmd, inc, QueryGeneration)
    [] l.kind = "rejected" -> NoteRejected(k, l.cmd, inc, QueryGeneration)
    [] l.kind = "abandoned" -> NoteAbandoned(k, l.cmd, inc, QueryGeneration)
    [] l.kind = "mismatch" -> NoteMismatch(k, l.cmd, inc, QueryGeneration)
    [] l.kind = "terminal" -> NoteSdkTerminal(k, l.cmd, inc, QueryGeneration)
    [] l.kind \in {"ready", "settled"} -> Ignored(k)

\* ingest_lifecycle_for_coordination, second half.
QueueEffect(q, l, decision) ==
  CASE l.kind \in {"admitted", "terminal"} /\ decision \in {"Updated", "Released"}
         -> ConfirmAdmitted(q, l.cmd)
    [] l.kind = "rejected" /\ decision = "Released" -> ConfirmRejected(q, l.cmd)
    [] l.kind = "abandoned" /\ decision \in {"Updated", "Released"}
         -> RemoveDispatch(q, l.cmd)
    [] OTHER -> q

PumpTake ==
  LET l == Head(helper.outbox)
      effect == LineEffect(coord, l, helper.inc)
  IN  /\ ReconnectLockFree
      /\ handle # 0 /\ handle = helper.inc
      /\ helper.outbox # <<>>
      /\ helper' = [helper EXCEPT !.outbox = Tail(@)]
      /\ coord' = effect.c
      /\ pump' = [pc |-> "line", line |-> l, decision |-> effect.decision,
                  active |-> HasActive(coord),
                  full |-> coord.adapter = "FullLifecycle"]
      /\ UNCHANGED <<fifo, host, termLock, disp, wake, stopper, deadlines,
                     sent, history, left>>

\* apply_lifecycle_decision, then the status line that follows: a ready says
\* nothing while a command owns the foreground.
StatusAfter ==
  LET decided == IF pump.decision = "Released" THEN Reopened(status) ELSE status
      text == pump.line.status
  IN  IF text = "none" \/ (text = "ready" /\ HasActive(coord)) THEN decided
      ELSE IF text = "initializing" THEN "initializing" ELSE "open"

\* lifecycle_transition_unblocked_queue.
Unblocked ==
  /\ ~HasActive(coord)
  /\ pump.active \/ (~pump.full /\ coord.adapter = "FullLifecycle")

\* Mutant: a terminal wakes nobody.
PumpFinishQuietly ==
  /\ pump.pc = "line"
  /\ queue' = QueueEffect(queue, pump.line, pump.decision)
  /\ withdrawn' = IF pump.line.kind = "abandoned" THEN Withdrawn(queue')
                  ELSE withdrawn
  /\ status' = StatusAfter
  /\ initFence' = (initFence /\ pump.line.kind # "settled")
  /\ wake' = IF pump.line.kind = "settled"
             THEN Scheduled("InitializationSettled") ELSE wake
  /\ pump' = IdlePump
  /\ UNCHANGED <<lastCmd, coord, handle, alive, lastInc, termLock, disp,
                 stopper, deadlines, helper, sent, delivered, left>>

PumpFinish ==
  /\ pump.pc = "line"
  /\ queue' = QueueEffect(queue, pump.line, pump.decision)
  /\ coord' = IF queue' # queue THEN Bump(coord) ELSE coord
  /\ withdrawn' = IF pump.line.kind = "abandoned" THEN Withdrawn(queue')
                  ELSE withdrawn
  /\ status' = StatusAfter
  /\ initFence' = (initFence /\ pump.line.kind # "settled")
  /\ wake' = CASE pump.line.kind = "settled" ->
                    Scheduled("InitializationSettled")
               [] pump.line.kind \notin {"settled", "rejected"} /\ Unblocked ->
                    Scheduled("AuthoritativeLifecycle")
               [] OTHER -> wake
  /\ pump' = IdlePump
  /\ UNCHANGED <<lastCmd, handle, alive, lastInc, termLock, disp, stopper,
                 deadlines, helper, sent, delivered, left>>

\* mark_process_exit: everything the helper wrote was read first.
ExitBegin ==
  /\ ReconnectLockFree
  /\ handle # 0 /\ handle = helper.inc
  /\ ~helper.up /\ helper.outbox = <<>>
  /\ alive' = FALSE
  /\ status' = "interrupted"
  /\ pump' = [IdlePump EXCEPT !.pc = "exited"]
  /\ UNCHANGED <<fifo, coord, handle, initFence, lastInc, termLock, disp, wake,
                 stopper, deadlines, helper, sent, history, left>>

ExitEnd ==
  /\ pump.pc = "exited"
  /\ RetireTo(NoteRetired(coord, handle))
  /\ pump' = IdlePump
  /\ UNCHANGED <<fifo, status, termLock, disp, wake, stopper, deadlines,
                 sent, history, left>>

-----------------------------------------------------------------------------
(* The user: cancel and stop.                                              *)

Cancel(m) ==
  /\ Cancellable(queue, m)
  /\ queue' = CancelPending(queue, m)
  /\ withdrawn' = withdrawn \cup {m}
  /\ coord' = Bump(coord)
  /\ UNCHANGED <<lastCmd, host, termLock, disp, wake, pump, stopper, deadlines,
                 helper, sent, delivered, left>>

\* The user clicks Stop: the command shown as active is the one to be stopped.
StopClick ==
  /\ stopper.pc = "idle" /\ HasActive(coord)
  /\ Spend("stop")
  /\ stopper' = [pc |-> "clicked", cmd |-> coord.active.cmd]
  /\ UNCHANGED <<fifo, coord, host, termLock, disp, wake, pump, deadlines,
                 helper, sent, history>>

\* stop_session_from_with_grace takes termLock and reconnect_lock.
StopRuns == stopper.pc = "clicked" /\ termLock = Free /\ pump.pc = "idle"
Targeted == coord.active.cmd = stopper.cmd

\* Nothing is active, but the queue holds the command as never started.
StopQueued ==
  /\ StopRuns /\ ~HasActive(coord)
  /\ HeadOwnedBy(queue, stopper.cmd, DeliveryState)
  /\ queue' = RemoveDispatch(queue, stopper.cmd)
  /\ withdrawn' = Withdrawn(queue')
  /\ coord' = Bump(coord)
  /\ wake' = Scheduled(Visible)
  /\ stopper' = IdleStop
  /\ UNCHANGED <<lastCmd, host, termLock, disp, pump, deadlines,
                 helper, sent, delivered, left>>

\* STALE_INTERRUPT_TARGET: the error return skips the flush.
StopStale ==
  /\ StopRuns /\ ~Targeted
  /\ HasActive(coord) \/ ~HeadOwnedBy(queue, stopper.cmd, DeliveryState)
  /\ stopper' = IdleStop
  /\ UNCHANGED <<fifo, coord, host, termLock, disp, wake, pump, deadlines,
                 helper, sent, history, left>>

\* The command is in doubt: its helper is retired, then the command abandoned.
Doubtful == Targeted /\ coord.active.phase \in Unsettled
AfterRetirement == IF handle # 0 THEN NoteRetired(coord, handle) ELSE coord

StopAbandon ==
  /\ StopRuns /\ Doubtful
  /\ CanAbandonRetired(AfterRetirement, stopper.cmd)
  /\ RetireTo(AbandonRetired(AfterRetirement, stopper.cmd).c)
  /\ termLock' = "stop"
  /\ stopper' = [stopper EXCEPT !.pc = "remove"]
  /\ UNCHANGED <<fifo, status, disp, wake, pump, deadlines, sent, history, left>>

\* There is no helper to retire or to interrupt: "helper is not connected".
StopRefused ==
  /\ StopRuns /\ Doubtful
  /\ ~CanAbandonRetired(AfterRetirement, stopper.cmd)
  /\ RetireTo(AfterRetirement)
  /\ stopper' = IdleStop
  /\ UNCHANGED <<fifo, status, termLock, disp, wake, pump, deadlines,
                 sent, history, left>>

StopRemove ==
  /\ stopper.pc = "remove"
  /\ queue' = RemoveDispatch(queue, stopper.cmd)
  /\ withdrawn' = Withdrawn(queue')
  /\ coord' = Bump(coord)
  /\ status' = Reopened(status)
  /\ termLock' = Free
  /\ stopper' = IdleStop
  /\ wake' = Scheduled(Visible)
  /\ UNCHANGED <<lastCmd, handle, alive, initFence, lastInc, disp, pump,
                 deadlines, helper, sent, delivered, left>>

\* A healthy command: the helper is asked to interrupt exactly that one.
StopInterrupt ==
  /\ StopRuns /\ Targeted /\ ~Doubtful
  /\ IF Live
     THEN /\ helper' = H!Push(helper, [kind |-> "interrupt", cmd |-> stopper.cmd,
                                       msgs |-> <<>>])
          /\ wake' = Scheduled(Visible)
     ELSE UNCHANGED <<helper, wake>>
  /\ stopper' = IdleStop
  /\ UNCHANGED <<fifo, coord, host, termLock, disp, pump, deadlines,
                 sent, history, left>>

-----------------------------------------------------------------------------
(* Admission deadlines.                                                    *)

Expire(x) ==
  /\ x \in armed
  /\ CanExpire(coord, x.inc, x.cmd, x.attempt)
  /\ Spend("timeout")
  /\ armed' = armed \ {x}
  /\ expiring' = expiring \cup {x}
  /\ coord' = MarkUncertain(coord, x.inc, x.cmd)
  /\ UNCHANGED <<fifo, host, termLock, disp, wake, pump, stopper, helper,
                 sent, history>>

ExpireQueued(x) ==
  /\ x \in expiring
  /\ expiring' = expiring \ {x}
  /\ queue' = MarkDispatchUncertain(queue, x.cmd, x.attempt)
  /\ coord' = Bump(coord)
  /\ UNCHANGED <<lastCmd, host, termLock, disp, wake, pump, stopper, armed,
                 helper, sent, history, left>>

-----------------------------------------------------------------------------
(* The helper process.                                                     *)

HelperTakes(h) ==
  /\ helper.up
  /\ helper' = h
  /\ UNCHANGED <<fifo, coord, host, termLock, disp, wake, pump, stopper,
                 deadlines, sent, withdrawn, left>>

HelperInit ==
  /\ ~helper.init
  /\ HelperTakes(H!InitSettled(helper, IF helper.inc = 1 THEN InitialCmd ELSE 0))
  /\ UNCHANGED delivered

HelperReads ==
  LET c == Head(helper.inbox)
      h == [helper EXCEPT !.inbox = Tail(@)]
  IN  /\ helper.inbox # <<>>
      /\ HelperTakes(IF c.kind = "prompt"
                     THEN H!Reserve(h, [cmd |-> c.cmd, msgs |-> c.msgs])
                     ELSE H!Interrupt(h, c.cmd))
      /\ UNCHANGED delivered

HelperAdmits ==
  /\ H!CanConsume(helper)
  /\ HelperTakes(H!Consume(helper))
  /\ delivered' = delivered \o helper.pend.msgs

HelperNegotiates ==
  /\ H!CanNegotiate(helper)
  /\ HelperTakes(H!Negotiate(helper))
  /\ UNCHANGED delivered

HelperFinishes ==
  /\ H!CanFinish(helper)
  /\ HelperTakes(H!Finish(helper))
  /\ UNCHANGED delivered

HelperCrashes ==
  /\ helper.up
  /\ Spend("crash")
  /\ helper' = H!Died(helper)
  /\ UNCHANGED <<fifo, coord, host, termLock, disp, wake, pump, stopper,
                 deadlines, sent, history>>

-----------------------------------------------------------------------------
DispatcherStep(d) ==
  \/ \E t \in Trigger : StartDispatch(d, t)
  \/ Gate(d) \/ ClaimNext(d) \/ NothingToClaim(d) \/ Observe(d)
  \/ UseHandle(d) \/ Reconnect(d) \/ AdmitPrompt(d) \/ Written(d) \/ NotStarted(d)
  \/ MarkDelivery(d) \/ Undo(d) \/ ArmDeadline(d) \/ Peek(d) \/ AfterWrite(d)
  \/ GiveBack(d) \/ Judge(d) \/ Park(d) \/ Release(d) \/ Recheck(d)

PumpStep == PumpTake \/ PumpFinish \/ ExitBegin \/ ExitEnd

StopStep ==
  \/ StopQueued \/ StopStale \/ StopAbandon \/ StopRefused \/ StopRemove
  \/ StopInterrupt

HelperStep ==
  \/ HelperInit \/ HelperReads \/ HelperAdmits \/ HelperNegotiates
  \/ HelperFinishes

Deadline ==
  \/ \E x \in armed : Expire(x)
  \/ \E x \in expiring : ExpireQueued(x)

Fault ==
  \/ \E d \in Dispatchers : WriteUnknown(d) \/ ReconnectFails(d)
  \/ HelperCrashes

User ==
  \/ \E d \in Dispatchers : Send(d)
  \/ \E m \in Queued(queue) : Cancel(m)
  \/ StopClick

Next ==
  \/ \E d \in Dispatchers : DispatcherStep(d)
  \/ PumpStep \/ StopStep \/ HelperStep \/ Deadline \/ Fault \/ User

Spec == Init /\ [][Next]_vars

\* Threads run, lines are read, and the helper and the SDK answer.  Nobody has
\* to send, to stop, to cancel or to fail; a deadline that passed is completed.
Fairness ==
  /\ \A d \in Dispatchers : WF_vars(DispatcherStep(d))
  /\ WF_vars(PumpStep) /\ WF_vars(StopStep)
  /\ WF_vars(HelperInit) /\ WF_vars(HelperReads) /\ WF_vars(HelperAdmits)
  /\ WF_vars(HelperNegotiates) /\ WF_vars(HelperFinishes)
  /\ WF_vars(\E x \in expiring : ExpireQueued(x))

FairSpec == Spec /\ Fairness

-----------------------------------------------------------------------------
(* Properties.                                                             *)

\* A claimed head always has somebody who will resolve it: a dispatcher between
\* its claim and its verdict, the foreground command itself, the pump between
\* its two steps, or a Stop about to remove it.  A head that nobody owns could
\* neither be sent, nor cancelled, nor stopped.
ClaimIsOwned ==
  queue # <<>> /\ queue[1].state \in Claimed =>
    \/ coord.active.cmd = queue[1].cmd
    \/ \E d \in Dispatchers : /\ disp[d].cmd = queue[1].cmd
                              /\ disp[d].pc \notin {"idle", "gate", "claim",
                                                    "recheck"}
    \/ pump.pc = "line" /\ pump.line.cmd = queue[1].cmd
    \/ stopper.pc = "remove" /\ stopper.cmd = queue[1].cmd

\* The host never takes a working helper for idle: the command that owns the
\* foreground of a live, current helper, or that waits for it in the pipe, is
\* the active command of the coordinator.
ForegroundAgrees ==
  helper.up /\ handle = helper.inc =>
    /\ helper.fg # 0 => coord.active.cmd = helper.fg
    /\ helper.pend.cmd # 0 => coord.active.cmd = helper.pend.cmd
    /\ \A i \in DOMAIN helper.inbox :
         helper.inbox[i].kind = "prompt" =>
           coord.active.cmd = helper.inbox[i].cmd

\* A prompt that the helper reads finds it free: the busy rejection of the
\* helper is never needed to keep two turns apart.
PromptFindsHelperFree ==
  \A i \in DOMAIN helper.outbox : helper.outbox[i].kind # "rejected"

\* What the user gets: the messages go to the model in the order they were sent,
\* each at most once, and one leaves the queue only by being delivered or by the
\* user's own cancel or stop.
Delivery == INSTANCE PromptDelivery WITH submitted <- sent

ImplementsDelivery == Delivery!Spec

\* A message withdrawn from the queue has left it, one not yet delivered and not
\* withdrawn is still in it.
NothingLost ==
  \A m \in 1..sent :
    \/ m \in withdrawn /\ m \notin Queued(queue)
    \/ m \in ToSet(delivered)
    \/ m \in Queued(queue)

ThreadsIdle ==
  /\ \A d \in Dispatchers : disp[d].pc = "idle"
  /\ wake = [t \in Trigger |-> 0]
  /\ pump.pc = "idle" /\ stopper.pc = "idle" /\ expiring = {}

HelperIdle ==
  /\ helper.up /\ handle = helper.inc /\ alive
  /\ helper.init /\ helper.mode = "full" /\ helper.sdk = <<>>
  /\ ~H!Busy(helper) /\ helper.inbox = <<>> /\ helper.outbox = <<>>

\* No wakeup is lost: when every thread is done and the helper is ready and has
\* nothing to do, no prompt is left waiting at the head of the queue.
NoStrandedHead ==
  ThreadsIdle /\ HelperIdle /\ ~HasActive(coord) => ~Claimable(queue)

\* "An explicit stop may safely abandon an uncertain command after its old helper
\* generation retired" (lib.rs): with no helper left, the command in doubt can be
\* abandoned, so that a Stop of it is never refused.
RetiredIsAbandonable ==
  handle = 0 /\ HasActive(coord) /\ coord.active.phase \in Unsettled =>
    CanAbandonRetired(coord, coord.active.cmd)

\* "uncertain writes must never spin/replay" (dispatch_queued_with): no message
\* is given to the SDK twice.
NeverReplayed == IsInjective(delivered)

\* "Recheck after releasing it ... to consume that wakeup" (dispatch_queued_with):
\* the same promise as NoStrandedHead, for the run that lets a write fail with an
\* unknown outcome.
WakeupIsConsumed == NoStrandedHead

\* Every prompt is eventually delivered or withdrawn.
EveryPromptIsAnswered ==
  \A m \in Msgs :
    (sent >= m) ~> (m \in ToSet(delivered) \cup withdrawn)
=============================================================================
