-------------------------- MODULE SessionCoordination --------------------------
(***************************************************************************)
(* SessionCoordination of apps/desktop/src-tauri/src/                      *)
(* native_session_coordinator.rs: who owns the foreground of one managed   *)
(* Claude session, as functions from the coordination record to the new    *)
(* record.  Each method of NativeSessionCoordinator holds the mutex        *)
(* `inner' throughout, so one call is one function.                        *)
(*                                                                         *)
(* Incarnations (helper generations), query generations, command ids and   *)
(* request ids are numbers, 0 standing for None.  state_revision is an     *)
(* unbounded counter that callers only compare with a value they read      *)
(* earlier; `quiet' holds the observers whose reading is still the newest, *)
(* so "the revision advanced since o read it" is o \notin quiet.           *)
(* protocol_error and failed_foreground_adjudicated keep one bit each: is  *)
(* it set.  started_at only feeds a minimum age that the deadline's own    *)
(* sleep already guarantees, except after a command_admitted receipt, and  *)
(* that receipt also leaves the one phase the deadline looks for.          *)
(***************************************************************************)
EXTENDS Naturals

AdapterKind == {"Negotiating", "FullLifecycle", "LegacySerial", "Poisoned"}

CommandPhase == {"Dispatching", "Uncertain", "HelperAdmitted", "SdkQueued",
                 "SdkStarted", "ResultObserved", "ResetObserved",
                 "ProtocolError"}

\* Phases in which nobody knows what the helper did with the command.
Unsettled == {"Uncertain", "ProtocolError"}

NoActive == [cmd |-> 0, attempt |-> 0, phase |-> "Dispatching",
             inc |-> 0, gen |-> 0]
NoFenceYet == [cmd |-> 0, inc |-> 0, gen |-> 0]
NoOp == [id |-> 0, state |-> "Applied", inc |-> 0, gen |-> 0, failAck |-> FALSE]
NoReply == [id |-> 0, state |-> "Applied", inc |-> 0, gen |-> 0]
NoSteer == [cmd |-> 0, parent |-> 0, inc |-> 0, gen |-> 0,
            state |-> "Rejected", waiterFinished |-> TRUE]

NewCoordination ==
  [inc |-> 0, gen |-> 0, epoch |-> 0, conv |-> 0, adapter |-> "Negotiating",
   canSteer |-> FALSE, active |-> NoActive, steer |-> NoSteer,
   lastTerminal |-> NoFenceYet, lastReset |-> NoFenceYet,
   settings |-> NoOp, perm |-> NoOp, interactive |-> NoReply,
   protocolError |-> FALSE, adjudicated |-> FALSE, quiet |-> {}]

\* What a receipt did: the new record and the LifecycleDecision.
Ignored(k)  == [c |-> k, decision |-> "Ignored"]
Updated(k)  == [c |-> k, decision |-> "Updated"]
Released(k) == [c |-> k, decision |-> "Released"]

-----------------------------------------------------------------------------
Bump(k) == [k EXCEPT !.quiet = {}]

\* projection(): observer o has now read the newest revision.
Project(k, o) == [k EXCEPT !.quiet = @ \cup {o}]

HasActive(k) == k.active.cmd # 0

OwnedBy(k, cmd, inc) == /\ HasActive(k)
                        /\ k.active.cmd = cmd
                        /\ k.active.inc = inc

FenceOf(a) == [cmd |-> a.cmd, inc |-> a.inc, gen |-> a.gen]

\* Mutant: the foreground is freed in silence.
ReleaseActiveSilently(k) == [k EXCEPT !.active = NoActive]

\* release_active: only a command bound to a generation leaves a fence behind.
ReleaseActive(k) ==
  IF ~HasActive(k) THEN k
  ELSE Bump([k EXCEPT !.active = NoActive,
                      !.lastTerminal = IF k.active.gen = 0 THEN @
                                       ELSE FenceOf(k.active)])

SetPhase(k, phase) ==
  IF HasActive(k) THEN [k EXCEPT !.active.phase = phase] ELSE k

Poison(k) ==
  [c |-> Bump(SetPhase([k EXCEPT !.adapter = "Poisoned",
                                 !.protocolError = TRUE], "ProtocolError")),
   decision |-> "ProtocolError"]

-----------------------------------------------------------------------------
(* Settings and interactive lanes.                                         *)

BlocksDispatch(op) ==
  /\ op.id # 0
  /\ op.state \in {"Pending", "Deferred", "ReconcileRequired"}

SettingsPending(k) == BlocksDispatch(k.settings) \/ BlocksDispatch(k.perm)

\* Mutant: a deferred request outlives its helper.
ReconcilePending(op) ==
  IF op.state = "Pending" THEN [op EXCEPT !.state = "ReconcileRequired"] ELSE op

Reconcile(op) ==
  IF BlocksDispatch(op) THEN [op EXCEPT !.state = "ReconcileRequired"] ELSE op

FailReply(r) ==
  IF r.id # 0 /\ r.state = "Pending" THEN [r EXCEPT !.state = "Failed"] ELSE r

\* The stale-incarnation test every begin_* and admit_* starts with.  Seen from
\* a coordination without an incarnation, the caller's one is taken over.
StaleFor(k, inc) == k.inc # 0 /\ k.inc # inc
Adopt(k, inc) == IF k.inc = 0 THEN [k EXCEPT !.inc = inc] ELSE k

NewOp(k, id, inc) ==
  [id |-> id, state |-> "Pending", inc |-> inc, gen |-> k.gen,
   failAck |-> FALSE]

\* A refused begin_settings_op still adopts the incarnation of its caller.
SettingsRefused(k) ==
  \/ k.settings.id # 0 /\ k.settings.state \in {"Pending", "Deferred"}
  \/ BlocksDispatch(k.perm)

BeginSettings(k, id, inc) ==
  IF StaleFor(k, inc) THEN k
  ELSE LET a == Adopt(k, inc)
       IN  IF SettingsRefused(k) THEN a
           ELSE Bump([a EXCEPT !.settings = NewOp(k, id, inc)])

\* Mutant: a permission change overtakes any environment change.
PermissionRefusedByOwnLane(k) ==
  k.perm.id # 0 /\ k.perm.state \in {"Pending", "Deferred"}

PermissionRefused(k) ==
  \/ k.settings.id # 0 /\ k.settings.state \in {"Pending", "ReconcileRequired"}
  \/ k.perm.id # 0 /\ k.perm.state \in {"Pending", "Deferred"}

BeginPermission(k, id, inc) ==
  IF StaleFor(k, inc) THEN k
  ELSE LET a == Adopt(k, inc)
       IN  IF PermissionRefused(k) THEN a
           ELSE Bump([a EXCEPT !.perm = NewOp(k, id, inc)])

\* The lane that holds request id, the general lane first.
InLane(k, id, F(_)) ==
  IF k.settings.id = id THEN [k EXCEPT !.settings = F(@)]
  ELSE IF k.perm.id = id THEN [k EXCEPT !.perm = F(@)]
  ELSE k

LaneOf(k, id) == IF k.settings.id = id THEN k.settings ELSE k.perm

\* note_settings_failed and note_settings_uncertain: the write failed before it
\* started, or nobody knows whether it reached the helper.
NoteSettings(k, id, inc, state) ==
  IF LaneOf(k, id).id # id \/ LaneOf(k, id).inc # inc THEN k
  ELSE LET To(op) == [op EXCEPT !.state = state]
       IN  Bump(InLane(k, id, To))

\* Mutant: whatever the helper says last is taken.
NoteSettingsAckTrusting(k, id, inc, wire, gen) ==
  LET Set(o) == [o EXCEPT !.state = wire]
  IN  IF LaneOf(k, id).id # id \/ k.inc # inc
         \/ wire \notin {"Applied", "Deferred", "Failed"}
      THEN Ignored(k)
      ELSE Updated(Bump(InLane(k, id, Set)))

\* note_settings_ack.  An ACK may advance the generation of its request, never
\* take it back.  Only a definite failure resolves a request to be reconciled,
\* and a failed permission request stays to be reconciled by the host.
NoteSettingsAck(k, id, inc, wire, gen) ==
  LET op == LaneOf(k, id)
      permission == k.perm.id = id
      Bind(o) == [o EXCEPT !.gen = IF gen = 0 THEN @ ELSE gen]
      bound == InLane(k, id, Bind)
      FailedPermission(o) == [o EXCEPT !.failAck = TRUE,
                                       !.state = "ReconcileRequired"]
      Set(o) == [o EXCEPT !.state = wire]
  IN  IF wire \notin {"Applied", "Deferred", "Failed"} THEN Poison(k)
      ELSE IF k.inc # inc \/ inc = 0 \/ op.id # id \/ op.inc # inc THEN Ignored(k)
      ELSE IF op.gen # 0 /\ gen < op.gen THEN Ignored(k)
      ELSE IF permission /\ wire = "Failed"
           THEN IF op.failAck /\ op.state = "Failed" THEN Ignored(bound)
                ELSE Updated(Bump(InLane(bound, id, FailedPermission)))
      ELSE IF op.state = "ReconcileRequired" /\ wire # "Failed"
           THEN Ignored(bound)
      ELSE Updated(Bump(InLane(bound, id, Set)))

\* A waiter of wait_for_settings_ack gives up: the request is to be reconciled.
SettingsTimeout(k, id) ==
  IF LaneOf(k, id).id = id /\ LaneOf(k, id).state = "Pending"
  THEN Bump(InLane(k, id, Reconcile))
  ELSE k

BeginInteractive(k, id, inc) ==
  IF StaleFor(k, inc) THEN k
  ELSE IF k.interactive.id # 0 /\ k.interactive.state = "Pending"
       THEN Adopt(k, inc)
  ELSE Bump([Adopt(k, inc) EXCEPT
         !.interactive = [id |-> id, state |-> "Pending", inc |-> inc,
                          gen |-> k.gen]])

\* note_interactive_failed and the timeout of wait_for_interactive_ack.
InteractiveFailed(k, id, inc) ==
  IF k.interactive.id = id /\ k.interactive.inc = inc
  THEN Bump([k EXCEPT !.interactive.state = "Failed"])
  ELSE k

\* note_interactive_ack: an answer counts as applied only by the generation that
\* asked; a rejection is believed whatever generation it names.
NoteInteractiveAck(k, id, inc, wire, gen) ==
  LET r == k.interactive
  IN  IF wire \notin {"Applied", "Rejected"} THEN Poison(k)
      ELSE IF k.inc # inc \/ inc = 0 \/ r.id # id \/ r.inc # inc THEN Ignored(k)
      ELSE IF wire = "Applied" /\ r.gen # 0 /\ gen # r.gen THEN Ignored(k)
      ELSE Updated(Bump([k EXCEPT
             !.interactive.state = wire,
             !.interactive.gen = IF wire = "Applied" /\ @ = 0 THEN gen ELSE @]))

-----------------------------------------------------------------------------
(* Admission: admit_with_id and the ways back from it.                     *)

\* Mutant: only a command in doubt holds back the next one.
VerdictWhileBusy(k, inc) ==
  CASE StaleFor(k, inc)                                     -> "StaleIncarnation"
    [] ~StaleFor(k, inc) /\ k.adapter = "Poisoned"          -> "ProtocolPoisoned"
    [] ~StaleFor(k, inc) /\ k.adapter # "Poisoned"
       /\ HasActive(k) /\ k.active.phase \in Unsettled      -> "DeliveryUncertain"
    [] OTHER                                                -> "ok"

\* The error that refuses an admission, "ok" when none does.
AdmissionVerdict(k, inc) ==
  CASE StaleFor(k, inc)                               -> "StaleIncarnation"
    [] ~StaleFor(k, inc) /\ k.adapter = "Poisoned"    -> "ProtocolPoisoned"
    [] ~StaleFor(k, inc) /\ k.adapter # "Poisoned"
       /\ HasActive(k) /\ k.active.phase \in Unsettled -> "DeliveryUncertain"
    [] ~StaleFor(k, inc) /\ k.adapter # "Poisoned"
       /\ HasActive(k) /\ k.active.phase \notin Unsettled -> "Busy"
    [] ~StaleFor(k, inc) /\ k.adapter # "Poisoned"
       /\ ~HasActive(k) /\ SettingsPending(k)         -> "SettingsPending"
    [] OTHER                                          -> "ok"

\* Mutant: doubt about the old command does not hold back the new one.
AdmitOverDoubt(k, inc, cmd, attempt) ==
  IF AdmissionVerdict(k, inc) \in {"ok", "DeliveryUncertain"}
  THEN Bump([Adopt(k, inc) EXCEPT
         !.active = [cmd |-> cmd, attempt |-> attempt,
                     phase |-> "Dispatching", inc |-> inc, gen |-> 0]])
  ELSE k

Admit(k, inc, cmd, attempt) ==
  CASE AdmissionVerdict(k, inc) = "StaleIncarnation" -> k
    [] AdmissionVerdict(k, inc) = "ok" ->
         Bump([Adopt(k, inc) EXCEPT
           !.active = [cmd |-> cmd, attempt |-> attempt,
                       phase |-> "Dispatching", inc |-> inc, gen |-> 0],
           !.adjudicated = FALSE])
    [] OTHER -> Adopt(k, inc)

\* abandon_admission: the prompt was not written.
CanAbandonAdmission(k, inc, cmd) ==
  OwnedBy(k, cmd, inc) /\ k.active.gen = 0 /\ k.active.phase = "Dispatching"

\* abandon_not_started_after_retirement: the helper retired before the write
\* began, so the doubt its retirement cast on the command can be lifted.
CanAbandonNotStarted(k, inc, cmd) ==
  /\ OwnedBy(k, cmd, inc)
  /\ k.active.gen = 0
  /\ k.active.phase = "Uncertain"
  /\ k.inc # inc

AbandonNotStarted(k) == [ReleaseActive(k) EXCEPT !.protocolError = FALSE]

MarkUncertain(k, inc, cmd) ==
  IF OwnedBy(k, cmd, inc)
  THEN Bump([k EXCEPT !.active.phase = "Uncertain", !.protocolError = TRUE])
  ELSE k

\* expire_dispatching_admission: the admission receipt did not come in time.
CanExpire(k, inc, cmd, attempt) ==
  /\ OwnedBy(k, cmd, inc)
  /\ k.active.attempt = attempt
  /\ k.active.phase = "Dispatching"

\* release_failed_delivery_uncertain: the query died, no receipt can follow.
ReleaseFailed(k, inc, cmd) ==
  IF ~OwnedBy(k, cmd, inc) THEN Ignored(k)
  ELSE Released([ReleaseActive(k) EXCEPT !.protocolError = FALSE,
                                         !.adjudicated = TRUE])

\* consume_adjudicated_failure: the error line that follows was accounted for.
ConsumeAdjudicated(k) == [k EXCEPT !.adjudicated = FALSE]

\* abandon_retired_command: the user gives up a command of a retired helper.
CanAbandonRetired(k, cmd) ==
  /\ HasActive(k)
  /\ k.active.cmd = cmd
  /\ k.active.phase \in Unsettled
  /\ k.inc # k.active.inc

AbandonRetired(k, cmd) ==
  IF ~CanAbandonRetired(k, cmd) THEN Ignored(k)
  ELSE Released([ReleaseActive(k) EXCEPT !.protocolError = FALSE])

-----------------------------------------------------------------------------
(* Receipts of the helper.                                                 *)

\* bind_active_generation: may a receipt that names (cmd, inc, gen) speak for the
\* active command?  "foreign": no; "conflict": it contradicts the generation.
Binding(k, cmd, inc, gen) ==
  LET a == k.active
      expected == IF a.gen # 0 THEN a.gen ELSE k.gen
  IN  IF ~OwnedBy(k, cmd, inc) THEN "foreign"
      ELSE IF expected = 0 \/ gen = expected THEN "bound"
      ELSE IF gen < expected THEN "foreign"
      ELSE "conflict"

Bound(k, gen) ==
  [k EXCEPT !.active.gen = IF @ = 0 THEN gen ELSE @,
            !.gen = IF k.active.gen = 0 /\ @ = 0 THEN gen ELSE @]

Correlated(k, cmd, inc, gen, Then(_)) ==
  CASE Binding(k, cmd, inc, gen) = "foreign"  -> Ignored(k)
    [] Binding(k, cmd, inc, gen) = "conflict" -> Poison(k)
    [] OTHER                                  -> Then(Bound(k, gen))

NoteAdmitted(k, cmd, inc, gen) ==
  LET Then(b) == Updated(Bump(SetPhase(b, "HelperAdmitted")))
  IN  Correlated(k, cmd, inc, gen, Then)

NoteRejected(k, cmd, inc, gen) ==
  LET Then(b) == Released(ReleaseActive(b))
  IN  Correlated(k, cmd, inc, gen, Then)

NoteAbandoned(k, cmd, inc, gen) ==
  LET Then(b) ==
        Released(IF b.active.phase = "ProtocolError" /\ b.adapter # "Poisoned"
                 THEN [ReleaseActive(b) EXCEPT !.protocolError = FALSE]
                 ELSE ReleaseActive(b))
  IN  Correlated(k, cmd, inc, gen, Then)

\* note_interrupt_target_mismatch: keep the owner, block new work, no poison.
NoteMismatch(k, cmd, inc, gen) ==
  LET Then(b) ==
        IF b.adapter = "Poisoned" THEN [c |-> b, decision |-> "ProtocolError"]
        ELSE Updated(Bump([SetPhase(b, "ProtocolError") EXCEPT
                             !.protocolError = TRUE]))
  IN  Correlated(k, cmd, inc, gen, Then)

NoteResult(k, cmd, inc, gen) ==
  LET Then(b) == Updated(Bump(IF b.active.phase \in Unsettled THEN b
                              ELSE SetPhase(b, "ResultObserved")))
  IN  Correlated(k, cmd, inc, gen, Then)

NoteLegacyTerminal(k, cmd, inc, gen) ==
  LET Then(b) == IF b.adapter # "LegacySerial" THEN Poison(b)
                 ELSE Released(ReleaseActive(b))
  IN  Correlated(k, cmd, inc, gen, Then)

\* note_sdk_command_state for queued/started and for the four terminal states.
NoteSdkProgress(k, cmd, inc, gen, phase) ==
  LET Then(b) == Updated(Bump(SetPhase(b, phase)))
  IN  Correlated(k, cmd, inc, gen, Then)

NoteSdkTerminal(k, cmd, inc, gen) ==
  LET Then(b) == IF b.adapter # "FullLifecycle" THEN Poison(b)
                 ELSE Released(ReleaseActive(b))
  IN  Correlated(k, cmd, inc, gen, Then)

NoteSdkUnknown(k, cmd, inc) ==
  IF OwnedBy(k, cmd, inc) THEN Poison(k) ELSE Ignored(k)

\* conversation_reset: counted once per fence, by the owner or the last terminal.
NoteReset(k, cmd, inc, gen) ==
  LET fence == [cmd |-> cmd, inc |-> inc, gen |-> gen]
      mine  == OwnedBy(k, cmd, inc) /\ k.active.gen \in {0, gen}
      counted == [k EXCEPT !.lastReset = fence, !.epoch = @ + 1]
  IN  IF ~mine /\ k.lastTerminal # fence THEN Ignored(k)
      ELSE IF k.lastReset = fence THEN Updated(k)
      ELSE IF mine
           THEN Updated(Bump([counted EXCEPT !.active.gen = gen,
                                             !.active.phase = "ResetObserved"]))
      ELSE Updated(Bump(counted))

\* note_protocol_error: cmd = 0 is a report that names no command.
NoteProtocolError(k, cmd, inc) ==
  IF k.inc # inc \/ inc = 0 \/ (cmd # 0 /\ k.active.cmd # cmd) THEN Ignored(k)
  ELSE Poison(k)

-----------------------------------------------------------------------------
(* Generations and incarnations (projection_ops.rs).                       *)

\* Mutant: the metadata line is believed, however old it is.
NoteSessionMetaUnchecked(k, inc, conv, caps, gen) ==
  IF k.inc # inc \/ inc = 0 \/ caps = "none" THEN Ignored(k)
  ELSE Updated(Bump([k EXCEPT !.gen = IF gen = 0 THEN @ ELSE gen,
                              !.adapter = "FullLifecycle"]))

\* note_session_meta.  caps is "none", "legacy", "full" or "full+steer".
NoteSessionMeta(k, inc, conv, caps, gen) ==
  LET advance == gen # 0 /\ k.gen # 0 /\ gen > k.gen
      conflict == advance /\ HasActive(k) /\ k.active.gen \notin {0, gen}
      g == [k EXCEPT !.gen = IF gen = 0 THEN @ ELSE gen,
                     !.adapter = IF advance THEN "Negotiating" ELSE @,
                     !.canSteer = IF advance THEN FALSE ELSE @]
      kind == IF caps = "legacy" THEN "LegacySerial" ELSE "FullLifecycle"
      n == IF caps = "none" \/ g.adapter = "Poisoned" THEN g
           ELSE [g EXCEPT !.adapter = kind, !.canSteer = caps = "full+steer"]
  IN  IF k.inc # inc \/ inc = 0 THEN Ignored(k)
      ELSE IF gen # 0 /\ k.gen # 0 /\ gen < k.gen THEN Ignored(k)
      ELSE IF conflict THEN Poison(k)
      ELSE IF caps # "none" /\ g.adapter \notin {"Negotiating", "Poisoned", kind}
           THEN Poison(g)
      ELSE IF conv # 0 /\ conv # n.conv
           THEN Updated(Bump([n EXCEPT !.conv = conv, !.epoch = @ + 1]))
      ELSE Updated(Bump(n))

Doubt(k) ==
  IF HasActive(k)
  THEN [k EXCEPT !.active.phase = "Uncertain", !.protocolError = TRUE]
  ELSE k

NoteIncarnation(k, inc) ==
  IF k.inc = inc THEN k
  ELSE Bump([Doubt(k) EXCEPT
         !.settings = Reconcile(@), !.perm = Reconcile(@),
         !.interactive = FailReply(@),
         !.inc = inc, !.gen = 0, !.adapter = "Negotiating",
         !.canSteer = FALSE, !.adjudicated = FALSE])

\* Mutant: the command of the retired helper is left as it was.
NoteRetiredQuietly(k, inc) ==
  IF k.inc # inc \/ inc = 0 THEN k
  ELSE Bump([k EXCEPT !.inc = 0, !.gen = 0, !.adapter = "Negotiating"])

\* Mutant: the command of the retired helper is forgotten.
NoteRetiredForgetting(k, inc) ==
  IF k.inc # inc \/ inc = 0 THEN k
  ELSE Bump([k EXCEPT !.inc = 0, !.gen = 0, !.adapter = "Negotiating",
                      !.active = NoActive])

NoteRetired(k, inc) ==
  IF k.inc # inc \/ inc = 0 THEN k
  ELSE Bump([(IF k.active.inc = inc THEN Doubt(k) ELSE k) EXCEPT
         !.settings = IF @.inc = inc THEN Reconcile(@) ELSE @,
         !.perm = IF @.inc = inc THEN Reconcile(@) ELSE @,
         !.interactive = IF @.inc = inc THEN FailReply(@) ELSE @,
         !.inc = 0, !.gen = 0, !.adapter = "Negotiating",
         !.canSteer = FALSE, !.adjudicated = FALSE])

-----------------------------------------------------------------------------
(* Steering (steer_ops.rs): an input attached to the foreground.           *)

\* Mutant: the lane is free as soon as the receipt is in.
SteerUndecided(k, inc) ==
  /\ k.steer.cmd # 0
  /\ k.steer.inc = inc /\ k.steer.state \in {"Pending", "Uncertain"}

SteerLaneTaken(k, inc) ==
  /\ k.steer.cmd # 0
  /\ \/ ~k.steer.waiterFinished
     \/ k.steer.inc = inc /\ k.steer.state \in {"Pending", "Uncertain"}

\* "ok", "unchanged" (leave the queue alone) or "fallback" (interrupt instead).
SteerVerdict(k, inc, parent) ==
  IF \/ SteerLaneTaken(k, inc)
     \/ ~HasActive(k)
     \/ k.active.cmd # parent
     \/ k.inc # inc
  THEN "unchanged"
  ELSE IF \/ k.adapter # "FullLifecycle"
          \/ ~k.canSteer
          \/ k.active.phase \notin {"SdkQueued", "SdkStarted"}
          \/ SettingsPending(k)
          \/ k.active.gen = 0
       THEN "fallback"
  ELSE "ok"

ReserveSteer(k, inc, parent, cmd) ==
  Bump([k EXCEPT !.steer = [cmd |-> cmd, parent |-> parent, inc |-> inc,
                            gen |-> k.active.gen, state |-> "Pending",
                            waiterFinished |-> FALSE]])

NoteSteerReceipt(k, inc, cmd, gen, accepted) ==
  IF \/ k.inc # inc
     \/ k.steer.cmd # cmd \/ cmd = 0
     \/ k.steer.inc # inc \/ k.steer.gen # gen
     \/ k.steer.state \notin {"Pending", "Uncertain"}
  THEN Ignored(k)
  ELSE Updated(Bump([k EXCEPT
         !.steer.state = IF accepted THEN "Accepted" ELSE "Rejected"]))

\* wait_for_steer returns: with the receipt, or, timed out, with doubt.
SteerOutcome(k, cmd) ==
  IF k.steer.cmd # cmd \/ k.steer.state = "Pending" THEN "Uncertain"
  ELSE k.steer.state

SteerWaited(k, cmd) ==
  IF k.steer.cmd # cmd THEN k
  ELSE [k EXCEPT !.steer.state = IF @ = "Pending" THEN "Uncertain" ELSE @,
                 !.steer.waiterFinished = TRUE]

SteerParentActive(k) == OwnedBy(k, k.steer.parent, k.steer.inc)
=============================================================================
