--------------------------- MODULE SessionCoordinator ---------------------------
(***************************************************************************)
(* NativeSessionCoordinator under every caller that                        *)
(* native_runtime.rs has: the output pump of the live helper hands in its  *)
(* receipts, in any order and any number of times; dispatchers, deadline   *)
(* timers and Stop come with whatever incarnation and command they once    *)
(* saw, however stale.                                                     *)
(*                                                                         *)
(* The one thing the callers do guarantee is kept: a receipt is taken only *)
(* from the helper whose handle is installed (process_helper_stdout_if_    *)
(* current holds reconnect_lock), which `live' names, 0 being no handle.   *)
(***************************************************************************)
EXTENDS SessionCoordination, FiniteSets

CONSTANTS Scopes  \* the instances to consider: each names who takes part
                  \*   cmds       wire ids of prompts
                  \*   settings   request ids of the general settings lane
                  \*   perms      request ids of the permission lane
                  \*   replies    request ids of interactive answers
                  \*   steers     wire ids of steered prompts
                  \*   convs      provider conversation ids
                  \*   observers  threads that remember a state_revision
                  \*   caps       capability sets a session_meta may announce
                  \* and bounds incarnations, query generations and epochs

CapabilitySet == {"none", "legacy", "full", "full+steer"}

ASSUME ScopesAssumption ==
  \A s \in Scopes :
    /\ s.cmds \cup s.settings \cup s.perms \cup s.replies \cup s.steers \cup s.convs
         \subseteq Nat \ {0}
    /\ s.settings \cap s.perms = {}
    /\ s.caps \subseteq CapabilitySet
    /\ s.incs \in Nat /\ s.gens \in Nat /\ s.epochs \in Nat

VARIABLES coord,    \* the coordination record
          live,     \* incarnation of the installed helper handle, or 0
          lastInc,  \* the newest incarnation handed out
          asked,    \* request ids already used
          written,  \* settings requests whose command was written
          scope     \* the instance
vars == <<coord, live, lastInc, asked, written, scope>>

Cmds == scope.cmds
SettingsReqs == scope.settings
PermReqs == scope.perms
Replies == scope.replies
SteerCmds == scope.steers
Convs == scope.convs
Observers == scope.observers
MaxInc == scope.incs
MaxGen == scope.gens
MaxEpoch == scope.epochs

Incs == 1..lastInc
Gens == 1..MaxGen
Reqs == SettingsReqs \cup PermReqs

Init ==
  /\ coord = NewCoordination
  /\ live = 0 /\ lastInc = 0
  /\ asked = {} /\ written = {}
  /\ scope \in Scopes

\* Most steps only replace the record.
Becomes(k) ==
  /\ k.epoch <= MaxEpoch
  /\ coord' = k
  /\ UNCHANGED <<live, lastInc, asked, written, scope>>

-----------------------------------------------------------------------------
(* Helpers come and go.                                                    *)

\* insert_handle: a new helper, a new incarnation.
Start ==
  /\ live = 0 /\ lastInc < MaxInc
  /\ live' = lastInc + 1 /\ lastInc' = lastInc + 1
  /\ coord' = NoteIncarnation(coord, lastInc + 1)
  /\ UNCHANGED <<asked, written, scope>>

\* retire_handle_if_current and mark_process_exit.
Retire ==
  /\ live # 0
  /\ live' = 0
  /\ coord' = NoteRetired(coord, live)
  /\ UNCHANGED <<lastInc, asked, written, scope>>

-----------------------------------------------------------------------------
(* Dispatchers, deadlines and Stop: any command, any incarnation so far.   *)

AdmitPrompt(inc, cmd) == Becomes(Admit(coord, inc, cmd, cmd))

AbandonAdmission(inc, cmd) ==
  /\ CanAbandonAdmission(coord, inc, cmd)
  /\ Becomes(ReleaseActive(coord))

NeverStarted(inc, cmd) ==
  /\ CanAbandonNotStarted(coord, inc, cmd)
  /\ Becomes(AbandonNotStarted(coord))

WriteUnknown(inc, cmd) == Becomes(MarkUncertain(coord, inc, cmd))

Expire(inc, cmd) ==
  /\ CanExpire(coord, inc, cmd, cmd)
  /\ Becomes(MarkUncertain(coord, inc, cmd))

GiveUpRetired(cmd) == Becomes(AbandonRetired(coord, cmd).c)

Observe(o) == Becomes(Project(coord, o))

-----------------------------------------------------------------------------
(* Receipts of the live helper.                                            *)

Receipt(k) == live # 0 /\ Becomes(k)

Admitted(cmd, gen)  == Receipt(NoteAdmitted(coord, cmd, live, gen).c)
Rejected(cmd, gen)  == Receipt(NoteRejected(coord, cmd, live, gen).c)
Abandoned(cmd, gen) == Receipt(NoteAbandoned(coord, cmd, live, gen).c)
Mismatch(cmd, gen)  == Receipt(NoteMismatch(coord, cmd, live, gen).c)
Result(cmd, gen)    == Receipt(NoteResult(coord, cmd, live, gen).c)
LegacyTerminal(cmd, gen) == Receipt(NoteLegacyTerminal(coord, cmd, live, gen).c)
SdkQueued(cmd, gen)  ==
  Receipt(NoteSdkProgress(coord, cmd, live, gen, "SdkQueued").c)
SdkStarted(cmd, gen) ==
  Receipt(NoteSdkProgress(coord, cmd, live, gen, "SdkStarted").c)
SdkTerminal(cmd, gen) == Receipt(NoteSdkTerminal(coord, cmd, live, gen).c)
SdkUnknown(cmd)      == Receipt(NoteSdkUnknown(coord, cmd, live).c)
Reset(cmd, gen)      == Receipt(NoteReset(coord, cmd, live, gen).c)
ProtocolError(cmd)   == Receipt(NoteProtocolError(coord, cmd, live).c)
QueryDied(cmd)       == Receipt(ReleaseFailed(coord, live, cmd).c)
ErrorStatus          == Receipt(ConsumeAdjudicated(coord))
Meta(conv, caps, gen) == Receipt(NoteSessionMeta(coord, live, conv, caps, gen).c)

-----------------------------------------------------------------------------
(* Settings, permission and interactive requests.  A request id is fresh;  *)
(* ids of one kind are drawn in increasing order.                          *)

Fresh(id, ids) == id \notin asked /\ \A earlier \in ids : earlier < id => earlier \in asked

Ask(k, id) ==
  /\ coord' = k
  /\ asked' = asked \cup {id}
  /\ UNCHANGED <<live, lastInc, written, scope>>

AskSettings(inc, id) ==
  Fresh(id, SettingsReqs) /\ Ask(BeginSettings(coord, id, inc), id)
AskPermission(inc, id) ==
  Fresh(id, PermReqs) /\ Ask(BeginPermission(coord, id, inc), id)
AskReply(inc, id) ==
  Fresh(id, Replies) /\ Ask(BeginInteractive(coord, id, inc), id)

\* The command goes out; only what went out can be acknowledged.
WriteSettings(id) ==
  /\ id \in asked \ written
  /\ LaneOf(coord, id).id = id
  /\ written' = written \cup {id}
  /\ UNCHANGED <<coord, live, lastInc, asked, scope>>

\* Staging or writing failed before anything reached the helper.
SettingsNotSent(inc, id) ==
  /\ id \in asked \ written
  /\ LaneOf(coord, id).state = "Pending"
  /\ Becomes(NoteSettings(coord, id, inc, "Failed"))

SettingsUnknown(inc, id) == Becomes(NoteSettings(coord, id, inc, "ReconcileRequired"))

\* preserve_unchanged_permission_rejection: the host itself lifts the barrier,
\* after the exact receipt that says nothing was changed.
PermissionUnchanged(id) ==
  /\ live # 0 /\ coord.inc = live
  /\ coord.perm.id = id /\ coord.perm.inc = live
  /\ coord.perm.state = "ReconcileRequired" /\ coord.perm.failAck
  /\ Becomes(NoteSettings(coord, id, live, "Failed"))

SettingsAck(id, wire, gen) ==
  /\ id \in written
  /\ Receipt(NoteSettingsAck(coord, id, live, wire, gen).c)

GiveUpWaiting(id) == Becomes(SettingsTimeout(coord, id))

ReplyFailed(inc, id)     == Becomes(InteractiveFailed(coord, id, inc))
ReplyAck(id, wire, gen) ==
  /\ id \in asked
  /\ Receipt(NoteInteractiveAck(coord, id, live, wire, gen).c)

-----------------------------------------------------------------------------
(* Steering.  Each steered prompt has one waiting thread.                  *)

Steer(inc, cmd) ==
  /\ Fresh(cmd, SteerCmds)
  /\ SteerVerdict(coord, inc, coord.active.cmd) = "ok"
  /\ coord' = ReserveSteer(coord, inc, coord.active.cmd, cmd)
  /\ asked' = asked \cup {cmd}
  /\ UNCHANGED <<live, lastInc, written, scope>>

SteerReceipt(cmd, gen, accepted) ==
  Receipt(NoteSteerReceipt(coord, live, cmd, gen, accepted).c)

\* wait_for_steer returns, with the receipt or timed out.
SteerReturns(cmd) ==
  /\ coord.steer.cmd = cmd /\ ~coord.steer.waiterFinished
  /\ Becomes(SteerWaited(coord, cmd))

-----------------------------------------------------------------------------
Helpers == Start \/ Retire

Local ==
  \/ \E inc \in Incs, cmd \in Cmds :
       \/ AdmitPrompt(inc, cmd)
       \/ AbandonAdmission(inc, cmd)
       \/ NeverStarted(inc, cmd)
       \/ WriteUnknown(inc, cmd)
       \/ Expire(inc, cmd)
  \/ \E cmd \in Cmds : GiveUpRetired(cmd)
  \/ \E o \in Observers : Observe(o)

Receipts ==
  \/ \E cmd \in Cmds, gen \in Gens :
       \/ Admitted(cmd, gen)
       \/ Rejected(cmd, gen)
       \/ Abandoned(cmd, gen)
       \/ Mismatch(cmd, gen)
       \/ Result(cmd, gen)
       \/ LegacyTerminal(cmd, gen)
       \/ SdkQueued(cmd, gen)
       \/ SdkStarted(cmd, gen)
       \/ SdkTerminal(cmd, gen)
       \/ Reset(cmd, gen)
  \/ \E cmd \in Cmds : SdkUnknown(cmd) \/ QueryDied(cmd)
  \/ \E cmd \in Cmds \cup {0} : ProtocolError(cmd)
  \/ ErrorStatus
  \/ \E conv \in Convs \cup {0}, caps \in scope.caps, gen \in 0..MaxGen :
       Meta(conv, caps, gen)

Lanes ==
  \/ \E inc \in Incs, id \in SettingsReqs : AskSettings(inc, id)
  \/ \E inc \in Incs, id \in PermReqs : AskPermission(inc, id)
  \/ \E inc \in Incs, id \in Reqs :
       SettingsNotSent(inc, id) \/ SettingsUnknown(inc, id)
  \/ \E id \in Reqs : WriteSettings(id) \/ GiveUpWaiting(id)
  \/ \E id \in PermReqs : PermissionUnchanged(id)
  \/ \E id \in Reqs, wire \in {"Applied", "Deferred", "Failed", "?"},
        gen \in 0..MaxGen : SettingsAck(id, wire, gen)
  \/ \E inc \in Incs, id \in Replies :
       AskReply(inc, id) \/ ReplyFailed(inc, id)
  \/ \E id \in Replies, wire \in {"Applied", "Rejected", "?"}, gen \in Gens :
       ReplyAck(id, wire, gen)

Steering ==
  \/ \E inc \in Incs, cmd \in SteerCmds : Steer(inc, cmd)
  \/ \E cmd \in SteerCmds, gen \in Gens, accepted \in BOOLEAN :
       SteerReceipt(cmd, gen, accepted)
  \/ \E cmd \in SteerCmds : SteerReturns(cmd)

Next == Helpers \/ Local \/ Receipts \/ Lanes \/ Steering

Spec == Init /\ [][Next]_vars

-----------------------------------------------------------------------------
\* A command whose helper is no longer the current one is in doubt: nobody takes
\* it for running, and nobody may start the next prompt over it.  It is what
\* note_incarnation and note_generation_retired leave behind, and what makes
\* abandon_retired_command the only way out.
DoubtOnRetirement ==
  HasActive(coord) /\ coord.active.inc # coord.inc =>
    coord.active.phase \in Unsettled

\* One prompt owns the foreground until it is released: no admission, receipt or
\* restart, however stale, puts another command in its place in one step.
OwnershipIsExclusive ==
  [][HasActive(coord) /\ HasActive(coord)' =>
       /\ coord'.active.cmd = coord.active.cmd
       /\ coord'.active.inc = coord.active.inc]_vars

\* The FIFO may be drained: maybe_dispatch_queued and the recheck at the end of
\* dispatch_queued_with look for exactly this.
Drainable(k) == /\ k.adapter = "FullLifecycle"
                /\ ~HasActive(k)
                /\ ~SettingsPending(k)

\* Whatever makes the FIFO drainable also advances state_revision.  A dispatcher
\* that was refused compares revisions to learn that it must try again; a step
\* that opened the way without a bump would strand the head of the queue.
ClearedBlockerIsAnnounced ==
  [][~Drainable(coord) /\ Drainable(coord') => coord'.quiet = {}]_vars

\* Late receipts of an older query are inert: under one helper the query
\* generation never goes back, a command bound to a generation is never rebound,
\* and only another helper or a newer generation lets a poisoned adapter negotiate
\* afresh.
OldQueryIsInert ==
  [][/\ coord.inc # 0 /\ coord'.inc = coord.inc =>
          /\ coord'.gen >= coord.gen
          /\ coord.adapter = "Poisoned" /\ coord'.adapter # "Poisoned" =>
               coord'.gen > coord.gen
     /\ coord.active.cmd # 0 /\ coord.active.gen # 0 /\ coord'.active.cmd # 0 =>
          coord'.active.gen = coord.active.gen]_vars

\* At most one settings request waits for its first answer, whichever lane it is
\* in; a deferred environment change does not count, a permission change may
\* overtake it (begin_permission_settings_op).
OneRequestOnTheWire ==
  ~(coord.settings.state = "Pending" /\ coord.settings.id # 0 /\
    coord.perm.state = "Pending" /\ coord.perm.id # 0)

\* No request waits for an answer of a helper that is gone: when a helper retires
\* its requests turn to be reconciled, and its unanswered reply fails.
NoWaitForRetiredHelper ==
  /\ \A op \in {coord.settings, coord.perm} :
       op.id # 0 /\ op.state \in {"Pending", "Deferred"} => op.inc = coord.inc
  /\ coord.interactive.id # 0 /\ coord.interactive.state = "Pending" =>
       coord.interactive.inc = coord.inc

\* A request that has to be reconciled is not settled by a late "applied": only a
\* definite failure does that, or another request in its place.
DoubtSurvivesLateAck ==
  [][\A lane \in {"settings", "perm"} :
       /\ coord[lane].state = "ReconcileRequired"
       /\ coord'[lane].id = coord[lane].id
       => coord'[lane].state \in {"ReconcileRequired", "Failed"}]_vars

\* Once written, a permission change stops blocking prompts only when it was
\* applied or after a correlated failure receipt: a bare failure, a timeout or a
\* restart never lifts the barrier.
PermissionBarrier ==
  [][/\ coord.perm.id \in written /\ coord'.perm.id = coord.perm.id
     /\ BlocksDispatch(coord.perm) /\ ~BlocksDispatch(coord'.perm)
     => coord'.perm.state = "Applied" \/ coord.perm.failAck]_vars

\* The steer lane is not taken from a thread that still waits on it, and a steer
\* that was accepted or rejected stays so: the waiting thread returns, and drops
\* or restores its prompt, by the one receipt that was meant for it.
SteerIsDecidedOnce ==
  [][/\ coord.steer.cmd # 0 /\ ~coord.steer.waiterFinished =>
          coord'.steer.cmd = coord.steer.cmd
     /\ coord.steer.cmd # 0 /\ coord'.steer.cmd = coord.steer.cmd
        /\ coord.steer.state \in {"Accepted", "Rejected"} =>
          coord'.steer.state = coord.steer.state]_vars
=============================================================================
