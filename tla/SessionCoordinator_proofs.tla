---------------------- MODULE SessionCoordinator_proofs ----------------------
(***************************************************************************)
(* Proofs about SessionCoordinator, for any instances: whatever callers    *)
(* come with, however late.  The methods of the coordinator are functions  *)
(* from record to record, so the reasoning is about one record: what each  *)
(* method may do to the foreground (ForegroundStep), what it may do to the *)
(* request lanes (LaneStep), and which facts about the record it keeps.    *)
(* What the actions add is little: a receipt comes from the helper that is *)
(* installed, and a request id is fresh.                                   *)
(***************************************************************************)
EXTENDS SessionCoordinator, TLAPS

-----------------------------------------------------------------------------
(* The types of a coordination record.                                     *)

OpState == {"Pending", "Applied", "Deferred", "Failed", "ReconcileRequired"}
ReplyState == {"Pending", "Applied", "Rejected", "Failed"}
SteerState == {"Pending", "Uncertain", "Accepted", "Rejected"}

FenceType == [cmd : Nat, inc : Nat, gen : Nat]
ActiveType ==
  [cmd : Nat, attempt : Nat, phase : CommandPhase, inc : Nat, gen : Nat]
OpType == [id : Nat, state : OpState, inc : Nat, gen : Nat, failAck : BOOLEAN]
ReplyType == [id : Nat, state : ReplyState, inc : Nat, gen : Nat]
SteerType == [cmd : Nat, parent : Nat, inc : Nat, gen : Nat,
              state : SteerState, waiterFinished : BOOLEAN]

CoordType(Obs) ==
  [inc : Nat, gen : Nat, epoch : Nat, conv : Nat, adapter : AdapterKind,
   canSteer : BOOLEAN, active : ActiveType, steer : SteerType,
   lastTerminal : FenceType, lastReset : FenceType,
   settings : OpType, perm : OpType, interactive : ReplyType,
   protocolError : BOOLEAN, adjudicated : BOOLEAN, quiet : SUBSET Obs]

-----------------------------------------------------------------------------
(* What the record always satisfies.                                       *)

\* An active command names its helper, and is in doubt if that is not current.
OwnerOK(k) ==
  /\ HasActive(k) => k.active.inc # 0
  /\ HasActive(k) /\ k.active.inc # k.inc => k.active.phase \in Unsettled

\* A request names its helper, and waits only for the current one.
WaitsFor(op, inc, waiting) ==
  op.id # 0 => op.inc # 0 /\ (op.state \in waiting => op.inc = inc)

LanesOK(k) ==
  /\ WaitsFor(k.settings, k.inc, {"Pending", "Deferred"})
  /\ WaitsFor(k.perm, k.inc, {"Pending", "Deferred"})
  /\ WaitsFor(k.interactive, k.inc, {"Pending"})
  /\ ~(/\ k.settings.state = "Pending" /\ k.settings.id # 0
       /\ k.perm.state = "Pending" /\ k.perm.id # 0)

RecordOK(k, Obs) == k \in CoordType(Obs) /\ OwnerOK(k) /\ LanesOK(k)

-----------------------------------------------------------------------------
(* What a method may do.                                                   *)

\* The foreground is handed over only by being empty in between; what opens the
\* way bumps the revision; an older query cannot take anything back.
ForegroundStep(k, r) ==
  /\ HasActive(k) /\ HasActive(r) =>
       r.active.cmd = k.active.cmd /\ r.active.inc = k.active.inc
  /\ ~Drainable(k) /\ Drainable(r) => r.quiet = {}
  /\ k.inc # 0 /\ r.inc = k.inc =>
       /\ r.gen >= k.gen
       /\ k.adapter = "Poisoned" /\ r.adapter # "Poisoned" => r.gen > k.gen
  /\ HasActive(k) /\ k.active.gen # 0 /\ HasActive(r) =>
       r.active.gen = k.active.gen

SameLanes(k, r) ==
  /\ r.inc = k.inc
  /\ r.settings = k.settings
  /\ r.perm = k.perm
  /\ r.interactive = k.interactive
  /\ r.steer = k.steer

SameIds(k, r) ==
  /\ r.settings.id = k.settings.id
  /\ r.perm.id = k.perm.id
  /\ r.steer.cmd = k.steer.cmd

\* A lane in doubt is settled by a definite failure only; a steer is decided once.
DoubtKept(op, op2) ==
  op.state = "ReconcileRequired" /\ op2.id = op.id =>
    op2.state \in {"ReconcileRequired", "Failed"}

SteerKept(s, s2) ==
  /\ s.cmd # 0 /\ ~s.waiterFinished => s2.cmd = s.cmd
  /\ s.cmd # 0 /\ s2.cmd = s.cmd /\ s.state \in {"Accepted", "Rejected"} =>
       s2.state = s.state

LaneStep(k, r) ==
  /\ DoubtKept(k.settings, r.settings)
  /\ DoubtKept(k.perm, r.perm)
  /\ SteerKept(k.steer, r.steer)

\* The permission barrier is lifted by an application or after a failure receipt.
BarrierKept(op, op2) ==
  op2.id = op.id /\ BlocksDispatch(op) /\ ~BlocksDispatch(op2) =>
    op2.state = "Applied" \/ op.failAck

\* A method that leaves the lanes alone keeps what is known of them.
LEMMA SameLanesSuffice ==
  ASSUME NEW k, NEW r, SameLanes(k, r), LanesOK(k)
  PROVE  /\ LanesOK(r) /\ LaneStep(k, r) /\ SameIds(k, r)
         /\ BarrierKept(k.perm, r.perm)
BY DEF SameLanes, LanesOK, LaneStep, DoubtKept, SteerKept, SameIds, BarrierKept

-----------------------------------------------------------------------------
(* Building blocks.                                                        *)

\* Advancing the revision keeps the type.
LEMMA Bumped ==
  ASSUME NEW Obs, NEW k \in CoordType(Obs)
  PROVE  Bump(k) \in CoordType(Obs)
BY DEF Bump, CoordType

\* So does a change of phase.
LEMMA PhaseSet ==
  ASSUME NEW Obs, NEW k \in CoordType(Obs), NEW p \in CommandPhase
  PROVE  SetPhase(k, p) \in CoordType(Obs)
BY DEF CoordType, SetPhase, ActiveType

\* So does learning the generation of a query (bind_active_generation).
LEMMA GenerationBound ==
  ASSUME NEW Obs, NEW k \in CoordType(Obs), NEW gen \in Nat
  PROVE  Bound(k, gen) \in CoordType(Obs)
BY DEF CoordType, ActiveType, Bound

\* So does release_active, with or without a fence.
LEMMA ActiveReleased ==
  ASSUME NEW Obs, NEW k \in CoordType(Obs)
  PROVE  ReleaseActive(k) \in CoordType(Obs)
BY DEF CoordType, ActiveType, ReleaseActive, Bump, NoActive, FenceOf, FenceType,
       CommandPhase

\* So does setting the two error flags.
LEMMA FlagsSet ==
  ASSUME NEW Obs, NEW k \in CoordType(Obs), NEW b \in BOOLEAN, NEW c \in BOOLEAN
  PROVE  /\ [k EXCEPT !.protocolError = b] \in CoordType(Obs)
         /\ [k EXCEPT !.adjudicated = c] \in CoordType(Obs)
         /\ [k EXCEPT !.protocolError = b, !.adjudicated = c] \in CoordType(Obs)
BY DEF CoordType

\* So does taking over the incarnation of a caller.
LEMMA Adopted ==
  ASSUME NEW Obs, NEW k \in CoordType(Obs), NEW inc \in Nat
  PROVE  Adopt(k, inc) \in CoordType(Obs)
BY DEF CoordType, Adopt

-----------------------------------------------------------------------------
(* Methods that are about the foreground.                                  *)

\* The command keeps the foreground: its phase may change, the generation may be
\* learned, the adapter may be poisoned.
Keeps(k, r) ==
  /\ r.active.cmd = k.active.cmd
  /\ r.active.inc = k.active.inc
  /\ k.active.gen # 0 => r.active.gen = k.active.gen
  /\ r.gen = k.gen \/ k.gen = 0
  /\ r.adapter = k.adapter \/ r.adapter = "Poisoned"
  /\ SameLanes(k, r)

\* The command leaves the foreground, and the revision says so.
Drops(k, r) ==
  /\ r.active.cmd = 0
  /\ r.quiet = {}
  /\ r.gen = k.gen \/ k.gen = 0
  /\ r.adapter = k.adapter
  /\ SameLanes(k, r)

\* Nobody takes a command for running whose helper is not current.
JudgedByOwner(k, r) ==
  \/ k.active.inc = k.inc
  \/ r.active.phase = k.active.phase
  \/ r.active.phase \in Unsettled

\* Every such method keeps the type, the owner's facts and the lanes.
ForegroundMethod(k, r, Obs) ==
  /\ r \in CoordType(Obs)
  /\ OwnerOK(r)
  /\ SameLanes(k, r)
  /\ ForegroundStep(k, r)

\* A method under which the command keeps the foreground is an allowed one.
LEMMA KeepingIsAllowed ==
  ASSUME NEW Obs, NEW k \in CoordType(Obs), NEW r \in CoordType(Obs), OwnerOK(k),
         Keeps(k, r), JudgedByOwner(k, r)
  PROVE  ForegroundMethod(k, r, Obs)
<1>1. /\ k.gen \in Nat /\ r.gen \in Nat
  BY DEF CoordType
<1>2. OwnerOK(r)
  BY DEF OwnerOK, HasActive, Keeps, SameLanes, JudgedByOwner
<1>3. Drainable(r) => Drainable(k)
  BY DEF Drainable, SettingsPending, HasActive, Keeps, SameLanes
<1>4. ForegroundStep(k, r)
  BY <1>1, <1>3 DEF ForegroundStep, HasActive, Keeps, SameLanes
<1>. QED  BY <1>2, <1>4 DEF ForegroundMethod, Keeps

\* So is one by which the command leaves it.
LEMMA DroppingIsAllowed ==
  ASSUME NEW Obs, NEW k \in CoordType(Obs), NEW r \in CoordType(Obs), OwnerOK(k),
         Drops(k, r)
  PROVE  ForegroundMethod(k, r, Obs)
<1>1. /\ k.gen \in Nat /\ r.gen \in Nat
  BY DEF CoordType
<1>2. OwnerOK(r)
  BY DEF OwnerOK, HasActive, Drops
<1>3. ForegroundStep(k, r)
  BY <1>1 DEF ForegroundStep, HasActive, Drops, SameLanes
<1>. QED  BY <1>2, <1>3 DEF ForegroundMethod, Drops

\* Poisoning keeps the owner and casts doubt on it.
LEMMA Poisoned ==
  ASSUME NEW Obs, NEW k \in CoordType(Obs), NEW r, r = Poison(k).c
  PROVE  /\ r \in CoordType(Obs)
         /\ Keeps(k, r)
         /\ HasActive(k) => r.active.phase \in Unsettled
         /\ ~HasActive(k) => r.active = k.active
         /\ r.adapter = "Poisoned"
<1>1. [k EXCEPT !.adapter = "Poisoned", !.protocolError = TRUE] \in CoordType(Obs)
  BY DEF CoordType, AdapterKind
<1>2. "ProtocolError" \in CommandPhase
  BY DEF CommandPhase
<1>3. r \in CoordType(Obs)
  BY <1>1, <1>2, PhaseSet, Bumped DEF Poison
<1>. QED  BY <1>3 DEF Poison, Bump, SetPhase, HasActive, CoordType, ActiveType,
                   Keeps, SameLanes, Unsettled

\* mark_poisoned is such a method.
LEMMA PoisoningIsAllowed ==
  ASSUME NEW Obs, NEW k \in CoordType(Obs), OwnerOK(k), NEW r, r = Poison(k).c
  PROVE  ForegroundMethod(k, r, Obs)
BY Poisoned, KeepingIsAllowed DEF JudgedByOwner

\* release_active.
LEMMA Releasing ==
  ASSUME NEW Obs, NEW k \in CoordType(Obs), HasActive(k)
  PROVE  Drops(k, ReleaseActive(k))
BY DEF ReleaseActive, Bump, HasActive, NoActive, CoordType, ActiveType, Drops,
       SameLanes

\* command_admitted, command_rejected and the other receipts that name the
\* command, the helper and the query.
LEMMA CorrelatedReceipts ==
  ASSUME NEW Obs, NEW k \in CoordType(Obs), OwnerOK(k),
         NEW cmd \in Nat, NEW gen \in Nat, NEW r,
         \/ r = NoteAdmitted(k, cmd, k.inc, gen).c
         \/ r = NoteRejected(k, cmd, k.inc, gen).c
         \/ r = NoteAbandoned(k, cmd, k.inc, gen).c
         \/ r = NoteMismatch(k, cmd, k.inc, gen).c
         \/ r = NoteResult(k, cmd, k.inc, gen).c
         \/ r = NoteLegacyTerminal(k, cmd, k.inc, gen).c
         \/ r = NoteSdkTerminal(k, cmd, k.inc, gen).c
         \/ r = NoteSdkProgress(k, cmd, k.inc, gen, "SdkQueued").c
         \/ r = NoteSdkProgress(k, cmd, k.inc, gen, "SdkStarted").c
  PROVE  ForegroundMethod(k, r, Obs)
<1>. DEFINE b == Bound(k, gen)
<1>1. CASE Binding(k, cmd, k.inc, gen) = "foreign"
  <2>1. r = k
    BY <1>1 DEF Correlated, Ignored, NoteAdmitted, NoteRejected, NoteAbandoned,
       NoteMismatch, NoteResult, NoteLegacyTerminal, NoteSdkTerminal, NoteSdkProgress
  <2>. QED  BY <2>1, KeepingIsAllowed DEF Keeps, SameLanes, JudgedByOwner
<1>2. CASE Binding(k, cmd, k.inc, gen) = "conflict"
  <2>1. r = Poison(k).c
    BY <1>2 DEF Correlated, NoteAdmitted, NoteRejected, NoteAbandoned,
       NoteMismatch, NoteResult, NoteLegacyTerminal, NoteSdkTerminal, NoteSdkProgress
  <2>. QED  BY <2>1, PoisoningIsAllowed
<1>3. CASE Binding(k, cmd, k.inc, gen) \notin {"foreign", "conflict"}
  <2>1. HasActive(k) /\ k.active.inc = k.inc
    BY <1>3 DEF Binding, OwnedBy
  <2>2. b \in CoordType(Obs)
    BY GenerationBound
  <2>3. Keeps(k, b) /\ HasActive(b)
    BY <2>1 DEF Bound, CoordType, ActiveType, HasActive, Keeps, SameLanes
  <2>4. \/ \E p \in CommandPhase : r = Bump(SetPhase(b, p))
        \/ r \in {b, Bump(b), Poison(b).c, ReleaseActive(b)}
        \/ r = [ReleaseActive(b) EXCEPT !.protocolError = FALSE]
        \/ r = Bump([SetPhase(b, "ProtocolError") EXCEPT !.protocolError = TRUE])
    <3>. HIDE DEF b
    <3>. QED
      BY <1>3 DEF b, Correlated, Released, Updated, NoteAdmitted, NoteRejected,
         NoteAbandoned, NoteMismatch, NoteResult, NoteLegacyTerminal, NoteSdkTerminal,
         NoteSdkProgress, CommandPhase
  <2>. HIDE DEF b
  <2>5. ASSUME NEW s \in CoordType(Obs), Keeps(b, s)
        PROVE  ForegroundMethod(k, s, Obs)
    <3>1. Keeps(k, s)
      BY <2>3, <2>5 DEF Keeps, SameLanes
    <3>. QED  BY <2>1, <2>5, <3>1, KeepingIsAllowed DEF JudgedByOwner
  <2>6. ASSUME NEW s \in CoordType(Obs), Drops(b, s), s.adapter = k.adapter
        PROVE  ForegroundMethod(k, s, Obs)
    <3>1. Drops(k, s)
      BY <2>3, <2>6 DEF Keeps, Drops, SameLanes
    <3>. QED  BY <2>6, <3>1, DroppingIsAllowed
  <2>7. b.adapter = k.adapter
    BY DEF b, Bound, CoordType
  <2>8. ASSUME NEW p \in CommandPhase
        PROVE  ForegroundMethod(k, Bump(SetPhase(b, p)), Obs)
    <3>1. Bump(SetPhase(b, p)) \in CoordType(Obs)
      BY <2>2, PhaseSet, Bumped
    <3>2. Keeps(b, Bump(SetPhase(b, p)))
      BY <2>2 DEF Keeps, SameLanes, Bump, SetPhase, CoordType, ActiveType
    <3>. QED  BY <2>5, <3>1, <3>2
  <2>9. ForegroundMethod(k, b, Obs) /\ ForegroundMethod(k, Bump(b), Obs)
    <3>1. Keeps(b, b) /\ Keeps(b, Bump(b))
      BY <2>2 DEF Keeps, SameLanes, Bump, CoordType
    <3>. QED  BY <2>2, <2>5, <3>1, Bumped
  <2>10. ForegroundMethod(k, Poison(b).c, Obs)
    BY <2>2, <2>5, Poisoned
  <2>11. /\ ForegroundMethod(k, ReleaseActive(b), Obs)
         /\ ForegroundMethod(k, [ReleaseActive(b) EXCEPT !.protocolError = FALSE], Obs)
    <3>. DEFINE s == ReleaseActive(b)
                t == [s EXCEPT !.protocolError = FALSE]
    <3>1. s \in CoordType(Obs) /\ Drops(b, s)
      BY <2>2, <2>3, ActiveReleased, Releasing
    <3>. HIDE DEF s
    <3>2. t \in CoordType(Obs)
      BY <3>1, FlagsSet
    <3>3. Drops(b, t)
      BY <3>1 DEF Drops, SameLanes, CoordType
    <3>4. s.adapter = k.adapter /\ t.adapter = k.adapter
      BY <2>7, <3>1, <3>3 DEF Drops
    <3>. HIDE DEF t
    <3>5. ForegroundMethod(k, s, Obs) /\ ForegroundMethod(k, t, Obs)
      BY <2>6, <3>1, <3>2, <3>3, <3>4
    <3>. QED  BY <3>5 DEF s, t
  <2>12. ForegroundMethod(k, Bump([SetPhase(b, "ProtocolError") EXCEPT
                                    !.protocolError = TRUE]), Obs)
    <3>. DEFINE s == SetPhase(b, "ProtocolError")
                t == [s EXCEPT !.protocolError = TRUE]
    <3>1. s \in CoordType(Obs)
      BY <2>2, PhaseSet DEF CommandPhase
    <3>0. Keeps(b, s)
      BY <2>2 DEF Keeps, SameLanes, SetPhase, CoordType, ActiveType
    <3>. HIDE DEF s
    <3>2. Bump(t) \in CoordType(Obs)
      BY <3>1, FlagsSet, Bumped
    <3>3. Keeps(b, Bump(t))
      BY <3>0, <3>1 DEF Keeps, SameLanes, Bump, CoordType
    <3>4. ForegroundMethod(k, Bump(t), Obs)
      BY <2>5, <3>2, <3>3
    <3>. QED  BY <3>4 DEF s, t
  <2>. QED  BY <2>4, <2>8, <2>9, <2>10, <2>11, <2>12
<1>. QED  BY <1>1, <1>2, <1>3

\* The other receipts and the local verdicts about the active command.
LEMMA UncorrelatedReceipts ==
  ASSUME NEW Obs, NEW k \in CoordType(Obs), OwnerOK(k), NEW cmd \in Nat, NEW r,
         \/ r = NoteSdkUnknown(k, cmd, k.inc).c
         \/ r = NoteProtocolError(k, cmd, k.inc).c
         \/ r = ReleaseFailed(k, k.inc, cmd).c
         \/ r = ConsumeAdjudicated(k)
  PROVE  ForegroundMethod(k, r, Obs)
<1>1. ASSUME r = k PROVE ForegroundMethod(k, r, Obs)
  BY <1>1, KeepingIsAllowed DEF Keeps, SameLanes, JudgedByOwner
<1>2. ASSUME r = Poison(k).c PROVE ForegroundMethod(k, r, Obs)
  BY <1>2, PoisoningIsAllowed
<1>3. ASSUME r = [k EXCEPT !.adjudicated = FALSE]
      PROVE  ForegroundMethod(k, r, Obs)
  <2>1. r \in CoordType(Obs)
    BY <1>3, FlagsSet
  <2>2. Keeps(k, r) /\ JudgedByOwner(k, r)
    BY <1>3 DEF Keeps, SameLanes, JudgedByOwner, CoordType
  <2>. QED  BY <2>1, <2>2, KeepingIsAllowed
<1>4. ASSUME HasActive(k), r = [ReleaseActive(k) EXCEPT !.protocolError = FALSE,
                                                        !.adjudicated = TRUE]
      PROVE  ForegroundMethod(k, r, Obs)
  <2>. DEFINE s == ReleaseActive(k)
  <2>1. s \in CoordType(Obs) /\ Drops(k, s)
    BY <1>4, ActiveReleased, Releasing
  <2>2. r = [s EXCEPT !.protocolError = FALSE, !.adjudicated = TRUE]
    BY <1>4
  <2>. HIDE DEF s
  <2>3. r \in CoordType(Obs)
    BY <2>1, <2>2, FlagsSet
  <2>4. Drops(k, r)
    BY <2>1, <2>2 DEF Drops, SameLanes, CoordType
  <2>. QED  BY <2>3, <2>4, DroppingIsAllowed
<1>5. CASE r = NoteSdkUnknown(k, cmd, k.inc).c
  BY <1>1, <1>2, <1>5 DEF NoteSdkUnknown, Ignored
<1>6. CASE r = NoteProtocolError(k, cmd, k.inc).c
  BY <1>1, <1>2, <1>6 DEF NoteProtocolError, Ignored
<1>7. CASE r = ReleaseFailed(k, k.inc, cmd).c
  BY <1>1, <1>4, <1>7 DEF ReleaseFailed, Ignored, Released, OwnedBy
<1>8. CASE r = ConsumeAdjudicated(k)
  BY <1>3, <1>8 DEF ConsumeAdjudicated
<1>. QED  BY <1>5, <1>6, <1>7, <1>8

\* What dispatchers, deadlines, Stop and the user decide about the active command.
LEMMA LocalVerdicts ==
  ASSUME NEW Obs, NEW k \in CoordType(Obs), OwnerOK(k),
         NEW cmd \in Nat, NEW inc \in Nat, NEW o, NEW r,
         \/ CanAbandonAdmission(k, inc, cmd) /\ r = ReleaseActive(k)
         \/ CanAbandonNotStarted(k, inc, cmd) /\ r = AbandonNotStarted(k)
         \/ r = MarkUncertain(k, inc, cmd)
         \/ r = AbandonRetired(k, cmd).c
         \/ o \in Obs /\ r = Project(k, o)
  PROVE  ForegroundMethod(k, r, Obs)
<1>1. ASSUME r = k PROVE ForegroundMethod(k, r, Obs)
  BY <1>1, KeepingIsAllowed DEF Keeps, SameLanes, JudgedByOwner
<1>2. ASSUME HasActive(k),
             \/ r = ReleaseActive(k)
             \/ r = [ReleaseActive(k) EXCEPT !.protocolError = FALSE]
      PROVE  ForegroundMethod(k, r, Obs)
  <2>. DEFINE s == ReleaseActive(k)
  <2>1. s \in CoordType(Obs) /\ Drops(k, s)
    BY <1>2, ActiveReleased, Releasing
  <2>. DEFINE t == [s EXCEPT !.protocolError = FALSE]
  <2>2. r = s \/ r = t
    BY <1>2
  <2>. HIDE DEF s
  <2>4. t \in CoordType(Obs)
    BY <2>1, FlagsSet
  <2>5. Drops(k, t)
    BY <2>1 DEF Drops, SameLanes, CoordType
  <2>3. r \in CoordType(Obs) /\ Drops(k, r)
    BY <2>1, <2>2, <2>4, <2>5
  <2>. QED  BY <2>3, DroppingIsAllowed
<1>3. CASE CanAbandonAdmission(k, inc, cmd) /\ r = ReleaseActive(k)
  BY <1>2, <1>3 DEF CanAbandonAdmission, OwnedBy
<1>4. CASE CanAbandonNotStarted(k, inc, cmd) /\ r = AbandonNotStarted(k)
  BY <1>2, <1>4 DEF CanAbandonNotStarted, AbandonNotStarted, OwnedBy
<1>5. CASE r = AbandonRetired(k, cmd).c
  BY <1>1, <1>2, <1>5
  DEF AbandonRetired, CanAbandonRetired, Ignored, Released
<1>6. CASE r = MarkUncertain(k, inc, cmd)
  <2>1. CASE ~OwnedBy(k, cmd, inc)
    BY <1>1, <1>6, <2>1 DEF MarkUncertain
  <2>2. CASE OwnedBy(k, cmd, inc)
    <3>1. r = Bump([k EXCEPT !.active.phase = "Uncertain", !.protocolError = TRUE])
      BY <1>6, <2>2 DEF MarkUncertain
    <3>2. r \in CoordType(Obs)
      BY <3>1 DEF Bump, CoordType, ActiveType, CommandPhase
    <3>3. Keeps(k, r) /\ JudgedByOwner(k, r)
      BY <3>1 DEF Bump, Keeps, SameLanes, JudgedByOwner, Unsettled, CoordType,
                  ActiveType
    <3>. QED  BY <3>2, <3>3, KeepingIsAllowed
  <2>. QED  BY <2>1, <2>2
<1>7. CASE o \in Obs /\ r = Project(k, o)
  <2>1. r \in CoordType(Obs)
    BY <1>7 DEF Project, CoordType
  <2>2. Keeps(k, r) /\ JudgedByOwner(k, r)
    BY <1>7 DEF Project, Keeps, SameLanes, JudgedByOwner, CoordType
  <2>. QED  BY <2>1, <2>2, KeepingIsAllowed
<1>. QED  BY <1>3, <1>4, <1>5, <1>6, <1>7

\* conversation_reset.
LEMMA ResetReceipt ==
  ASSUME NEW Obs, NEW k \in CoordType(Obs), OwnerOK(k),
         NEW cmd \in Nat, NEW gen \in Nat, NEW r,
         r = NoteReset(k, cmd, k.inc, gen).c
  PROVE  ForegroundMethod(k, r, Obs)
<1>. DEFINE fence == [cmd |-> cmd, inc |-> k.inc, gen |-> gen]
            mine == OwnedBy(k, cmd, k.inc) /\ k.active.gen \in {0, gen}
            counted == [k EXCEPT !.lastReset = fence, !.epoch = @ + 1]
            taken == [counted EXCEPT !.active.gen = gen,
                                     !.active.phase = "ResetObserved"]
<1>1. \/ r = k
      \/ mine /\ r = Bump(taken)
      \/ r = Bump(counted)
  BY DEF NoteReset, Ignored, Updated
<1>2. counted \in CoordType(Obs) /\ Keeps(k, counted)
  <2>1. fence \in FenceType /\ k.epoch + 1 \in Nat
    BY DEF CoordType, FenceType
  <2>. HIDE DEF fence
  <2>2. counted \in CoordType(Obs)
    BY <2>1 DEF CoordType
  <2>3. Keeps(k, counted)
    BY DEF CoordType, Keeps, SameLanes
  <2>. QED  BY <2>2, <2>3
<1>3. counted.active = k.active
  BY DEF CoordType
<1>. HIDE DEF counted
<1>4. taken \in CoordType(Obs)
  BY <1>2 DEF CoordType, ActiveType, CommandPhase
<1>5. mine => Keeps(k, taken)
  BY <1>2, <1>3 DEF Keeps, SameLanes, CoordType, ActiveType
<1>6. mine => k.active.inc = k.inc
  BY DEF OwnedBy
<1>. HIDE DEF taken, mine
<1>7. ASSUME NEW x \in CoordType(Obs), Keeps(k, x)
      PROVE  Bump(x) \in CoordType(Obs) /\ Keeps(k, Bump(x))
             /\ Bump(x).active = x.active
  BY <1>7, Bumped DEF Keeps, SameLanes, Bump, CoordType
<1>8. CASE r = k
  BY <1>8, KeepingIsAllowed DEF Keeps, SameLanes, JudgedByOwner
<1>9. CASE mine /\ r = Bump(taken)
  BY <1>4, <1>5, <1>6, <1>7, <1>9, KeepingIsAllowed DEF JudgedByOwner
<1>10. CASE r = Bump(counted)
  BY <1>2, <1>3, <1>7, <1>10, KeepingIsAllowed DEF JudgedByOwner
<1>. QED  BY <1>1, <1>8, <1>9, <1>10

\* session_meta: it may advance the query generation and settle the adapter.
LEMMA MetaReceipt ==
  ASSUME NEW Obs, NEW k \in CoordType(Obs), OwnerOK(k),
         NEW conv \in Nat, NEW caps, NEW gen \in Nat, NEW r,
         r = NoteSessionMeta(k, k.inc, conv, caps, gen).c
  PROVE  ForegroundMethod(k, r, Obs)
<1>. DEFINE advance == gen # 0 /\ k.gen # 0 /\ gen > k.gen
            g == [k EXCEPT !.gen = IF gen = 0 THEN @ ELSE gen,
                           !.adapter = IF advance THEN "Negotiating" ELSE @,
                           !.canSteer = IF advance THEN FALSE ELSE @]
            kind == IF caps = "legacy" THEN "LegacySerial" ELSE "FullLifecycle"
            n == IF caps = "none" \/ g.adapter = "Poisoned" THEN g
                 ELSE [g EXCEPT !.adapter = kind, !.canSteer = caps = "full+steer"]
            m == [n EXCEPT !.conv = conv, !.epoch = @ + 1]
<1>1. \/ r = k
      \/ r = Poison(k).c
      \/ ~(gen # 0 /\ k.gen # 0 /\ gen < k.gen) /\ r \in {Poison(g).c, Bump(m), Bump(n)}
  BY DEF NoteSessionMeta, Ignored, Updated
<1>2. CASE r = k
  BY <1>2, KeepingIsAllowed DEF Keeps, SameLanes, JudgedByOwner
<1>3. CASE r = Poison(k).c
  BY <1>3, PoisoningIsAllowed
<1>4. CASE /\ ~(gen # 0 /\ k.gen # 0 /\ gen < k.gen)
           /\ r \in {Poison(g).c, Bump(m), Bump(n)}
  <2>1. g \in CoordType(Obs)
    BY DEF CoordType, AdapterKind
  <2>2. /\ g.active = k.active /\ SameLanes(k, g)
        /\ g.gen \in Nat /\ k.gen \in Nat /\ g.gen >= k.gen
        /\ k.adapter = "Poisoned" => g.adapter = "Poisoned" \/ g.gen > k.gen
    BY <1>4 DEF CoordType, SameLanes
  <2>. HIDE DEF g
  <2>3. n \in CoordType(Obs)
    BY <2>1 DEF CoordType, AdapterKind
  <2>4. /\ n.active = k.active /\ SameLanes(k, n) /\ n.gen = g.gen
        /\ g.adapter = "Poisoned" => n.adapter = "Poisoned"
    BY <2>1, <2>2 DEF CoordType, SameLanes
  <2>. HIDE DEF n
  <2>5. m \in CoordType(Obs) /\ m.active = n.active /\ SameLanes(n, m)
        /\ m.gen = n.gen /\ m.adapter = n.adapter
    <3>1. m \in CoordType(Obs)
      <4>1. n.epoch + 1 \in Nat
        BY <2>3 DEF CoordType
      <4>. QED  BY <2>3, <4>1 DEF CoordType
    <3>2. m.active = n.active /\ m.gen = n.gen /\ m.adapter = n.adapter
      BY <2>3 DEF CoordType
    <3>3. SameLanes(n, m)
      BY <2>3 DEF CoordType, SameLanes
    <3>. QED  BY <3>1, <3>2, <3>3
  <2>. HIDE DEF m
  <2>6. ASSUME NEW x \in CoordType(Obs), x.active = k.active, SameLanes(k, x),
               x.gen = g.gen, g.adapter = "Poisoned" => x.adapter = "Poisoned"
        PROVE  ForegroundMethod(k, Bump(x), Obs)
    <3>1. /\ Bump(x) \in CoordType(Obs) /\ Bump(x).active = k.active
          /\ SameLanes(k, Bump(x)) /\ Bump(x).gen = g.gen
          /\ Bump(x).adapter = x.adapter /\ Bump(x).quiet = {}
      BY <2>6, Bumped DEF Bump, CoordType, SameLanes
    <3>2. OwnerOK(Bump(x))
      BY <3>1 DEF OwnerOK, HasActive, SameLanes
    <3>3. ForegroundStep(k, Bump(x))
      BY <2>2, <2>6, <3>1 DEF ForegroundStep, HasActive
    <3>. QED  BY <3>1, <3>2, <3>3 DEF ForegroundMethod
  <2>7. CASE r = Bump(m)
    BY <2>2, <2>4, <2>5, <2>6, <2>7 DEF SameLanes
  <2>8. CASE r = Bump(n)
    BY <2>3, <2>4, <2>6, <2>8
  <2>9. CASE r = Poison(g).c
    <3>1. /\ r \in CoordType(Obs) /\ Keeps(g, r)
          /\ HasActive(g) => r.active.phase \in Unsettled
          /\ r.adapter = "Poisoned"
      BY <2>1, <2>9, Poisoned
    <3>2. r.gen = g.gen
      <4>1. Poison(g).c.gen = g.gen
        BY <2>1 DEF Poison, Bump, SetPhase, CoordType
      <4>. QED  BY <2>9, <4>1
    <3>3. SameLanes(k, r) /\ OwnerOK(r)
      BY <2>2, <3>1 DEF Keeps, SameLanes, OwnerOK, HasActive
    <3>4. ForegroundStep(k, r)
      BY <2>2, <3>1, <3>2 DEF ForegroundStep, Keeps, HasActive, Drainable
    <3>. QED  BY <3>1, <3>3, <3>4 DEF ForegroundMethod
  <2>. QED  BY <1>4, <2>7, <2>8, <2>9
<1>. QED  BY <1>1, <1>2, <1>3, <1>4

-----------------------------------------------------------------------------
(* Methods that take over the incarnation of their caller.                 *)

\* What every method does: it keeps the facts about the record and takes an
\* allowed step.
Method(k, r, Obs) ==
  /\ RecordOK(r, Obs)
  /\ ForegroundStep(k, r)
  /\ LaneStep(k, r)

\* A method about the foreground alone says nothing of the lanes.
LEMMA ForegroundIsMethod ==
  ASSUME NEW Obs, NEW k, RecordOK(k, Obs), NEW r, ForegroundMethod(k, r, Obs)
  PROVE  Method(k, r, Obs) /\ SameIds(k, r) /\ BarrierKept(k.perm, r.perm)
BY SameLanesSuffice DEF ForegroundMethod, Method, RecordOK

\* Without an incarnation nothing is awaited and the owner is in doubt, so any
\* incarnation may be taken over.
LEMMA AdoptionIsAllowed ==
  ASSUME NEW Obs, NEW k, RecordOK(k, Obs), NEW inc \in Nat \ {0},
         ~StaleFor(k, inc), NEW a, a = Adopt(k, inc)
  PROVE  /\ RecordOK(a, Obs)
         /\ a.inc = inc
         /\ a.active = k.active /\ a.gen = k.gen /\ a.adapter = k.adapter
         /\ a.settings = k.settings /\ a.perm = k.perm
         /\ a.interactive = k.interactive /\ a.steer = k.steer
         /\ a.quiet = k.quiet
<1>1. a \in CoordType(Obs)
  BY Adopted DEF RecordOK
<1>2. /\ a.inc = inc
      /\ a.active = k.active /\ a.gen = k.gen /\ a.adapter = k.adapter
      /\ a.settings = k.settings /\ a.perm = k.perm
      /\ a.interactive = k.interactive /\ a.steer = k.steer
      /\ a.quiet = k.quiet
  BY DEF Adopt, StaleFor, RecordOK, CoordType
<1>3. k.inc = 0 \/ k.inc = inc
  BY DEF StaleFor
<1>4. OwnerOK(a)
  BY <1>2, <1>3 DEF RecordOK, OwnerOK, HasActive
<1>5. LanesOK(a)
  BY <1>2, <1>3 DEF RecordOK, LanesOK, WaitsFor
<1>. QED  BY <1>1, <1>2, <1>4, <1>5 DEF RecordOK

\* With the foreground, the helper and what blocks it unchanged, the step is an
\* allowed one.
LEMMA SameForegroundSuffices ==
  ASSUME NEW Obs, NEW k \in CoordType(Obs), NEW r,
         r.active = k.active, r.gen = k.gen, r.adapter = k.adapter,
         SettingsPending(r) = SettingsPending(k) \/ r.quiet = {}
  PROVE  ForegroundStep(k, r)
<1>1. k.gen \in Nat
  BY DEF CoordType
<1>. QED  BY <1>1 DEF ForegroundStep, Drainable, HasActive

\* admit_with_id: a free foreground is taken, in one step with the incarnation.
LEMMA Admitting ==
  ASSUME NEW Obs, NEW k, RecordOK(k, Obs), NEW inc \in Nat \ {0},
         NEW cmd \in Nat, NEW attempt \in Nat, NEW r,
         r = Admit(k, inc, cmd, attempt)
  PROVE  Method(k, r, Obs) /\ SameIds(k, r) /\ BarrierKept(k.perm, r.perm)
<1>. DEFINE a == Adopt(k, inc)
            c == [cmd |-> cmd, attempt |-> attempt, phase |-> "Dispatching",
                  inc |-> inc, gen |-> 0]
            t == [a EXCEPT !.active = c, !.adjudicated = FALSE]
<1>1. CASE StaleFor(k, inc)
  <2>1. r = k
    BY <1>1 DEF Admit, AdmissionVerdict
  <2>2. SameLanes(k, k) /\ k \in CoordType(Obs) /\ LanesOK(k)
    BY DEF SameLanes, RecordOK
  <2>. QED  BY <2>1, <2>2, SameLanesSuffice, SameForegroundSuffices
            DEF RecordOK, Method
<1>2. CASE ~StaleFor(k, inc)
  <2>1. /\ RecordOK(a, Obs) /\ a.inc = inc
        /\ a.active = k.active /\ a.gen = k.gen /\ a.adapter = k.adapter
        /\ a.settings = k.settings /\ a.perm = k.perm
        /\ a.interactive = k.interactive /\ a.steer = k.steer
        /\ a.quiet = k.quiet
    BY <1>2, AdoptionIsAllowed
  <2>2. \/ r = a
        \/ ~HasActive(k) /\ r = Bump(t)
    BY <1>2 DEF Admit, AdmissionVerdict
  <2>. HIDE DEF a
  <2>3. k \in CoordType(Obs) /\ LanesOK(k)
    BY DEF RecordOK
  <2>4. /\ LaneStep(k, a) /\ SameIds(k, a) /\ BarrierKept(k.perm, a.perm)
    BY <2>1 DEF LaneStep, DoubtKept, SteerKept, SameIds, BarrierKept
  <2>5. CASE r = a
    <3>1. ForegroundStep(k, a)
      BY <2>1, <2>3, SameForegroundSuffices DEF SettingsPending
    <3>. QED  BY <2>1, <2>4, <2>5, <3>1 DEF Method
  <2>6. CASE ~HasActive(k) /\ r = Bump(t)
    <3>1. c \in ActiveType /\ c.inc = inc
      BY DEF ActiveType, CommandPhase
    <3>. HIDE DEF c
    <3>2. r \in CoordType(Obs)
      <4>1. a \in CoordType(Obs)
        BY <2>1 DEF RecordOK
      <4>. QED  BY <2>6, <3>1, <4>1 DEF Bump, CoordType
    <3>3. /\ r.inc = inc /\ r.active = c /\ r.gen = k.gen /\ r.adapter = k.adapter
          /\ r.quiet = {}
          /\ r.settings = k.settings /\ r.perm = k.perm
          /\ r.interactive = k.interactive /\ r.steer = k.steer
      BY <2>1, <2>6 DEF Bump, RecordOK, CoordType
    <3>4. OwnerOK(r)
      BY <3>1, <3>3 DEF OwnerOK
    <3>5. LanesOK(r)
      BY <2>1, <3>3 DEF RecordOK, LanesOK
    <3>6. LaneStep(k, r) /\ SameIds(k, r) /\ BarrierKept(k.perm, r.perm)
      BY <3>3 DEF LaneStep, DoubtKept, SteerKept, SameIds, BarrierKept
    <3>7. ForegroundStep(k, r)
      <4>1. k.gen \in Nat
        BY <2>3 DEF CoordType
      <4>. QED  BY <2>6, <3>3, <4>1 DEF ForegroundStep, HasActive
    <3>. QED  BY <3>2, <3>4, <3>5, <3>6, <3>7 DEF Method, RecordOK
  <2>. QED  BY <2>2, <2>5, <2>6
<1>. QED  BY <1>1, <1>2

\* begin_settings_op, begin_permission_settings_op, begin_interactive_op: the
\* request waits in its lane unless something else does.  known are the ids that
\* were asked before.
LEMMA Beginning ==
  ASSUME NEW Obs, NEW k, RecordOK(k, Obs), NEW inc \in Nat \ {0}, NEW id \in Nat,
         id \notin {k.settings.id, k.perm.id}, NEW r,
         \/ r = BeginSettings(k, id, inc)
         \/ r = BeginPermission(k, id, inc)
         \/ r = BeginInteractive(k, id, inc)
  PROVE  /\ Method(k, r, Obs)
         /\ r.settings.id \in {k.settings.id, id}
         /\ r.perm.id \in {k.perm.id, id}
         /\ r.steer = k.steer
         /\ BarrierKept(k.perm, r.perm)
<1>. DEFINE a == Adopt(k, inc)
            op == NewOp(k, id, inc)
            reply == [id |-> id, state |-> "Pending", inc |-> inc, gen |-> k.gen]
<1>0. k \in CoordType(Obs) /\ LanesOK(k)
  BY DEF RecordOK
<1>1. CASE StaleFor(k, inc)
  <2>1. r = k
    BY <1>1 DEF BeginSettings, BeginPermission, BeginInteractive
  <2>2. SameLanes(k, k)
    BY DEF SameLanes
  <2>. QED  BY <1>0, <2>1, <2>2, SameLanesSuffice, SameForegroundSuffices
            DEF RecordOK, Method
<1>2. CASE ~StaleFor(k, inc)
  <2>1. /\ RecordOK(a, Obs) /\ a.inc = inc
        /\ a.active = k.active /\ a.gen = k.gen /\ a.adapter = k.adapter
        /\ a.settings = k.settings /\ a.perm = k.perm
        /\ a.interactive = k.interactive /\ a.steer = k.steer
        /\ a.quiet = k.quiet
    BY <1>2, AdoptionIsAllowed
  <2>2. \/ r = a
        \/ ~SettingsRefused(k) /\ r = Bump([a EXCEPT !.settings = op])
        \/ ~PermissionRefused(k) /\ r = Bump([a EXCEPT !.perm = op])
        \/ r = Bump([a EXCEPT !.interactive = reply])
    BY <1>2 DEF BeginSettings, BeginPermission, BeginInteractive
  <2>. HIDE DEF a
  <2>3. a \in CoordType(Obs) /\ LanesOK(a) /\ OwnerOK(a)
    BY <2>1 DEF RecordOK
  <2>4. op \in OpType /\ op.id = id /\ op.inc = inc /\ op.state = "Pending"
    BY <1>0 DEF NewOp, OpType, OpState, CoordType
  <2>5. reply \in ReplyType /\ reply.id = id /\ reply.inc = inc
    BY <1>0 DEF ReplyType, ReplyState, CoordType
  <2>. HIDE DEF op, reply
  <2>6. CASE r = a
    <3>1. ForegroundStep(k, a)
      BY <1>0, <2>1, SameForegroundSuffices DEF SettingsPending
    <3>2. LaneStep(k, a) /\ BarrierKept(k.perm, a.perm)
      BY <2>1 DEF LaneStep, DoubtKept, SteerKept, BarrierKept
    <3>. QED  BY <2>1, <2>6, <3>1, <3>2 DEF Method
  <2>7. ASSUME r \in CoordType(Obs),
               r.inc = inc, r.active = k.active, r.gen = k.gen,
               r.adapter = k.adapter, r.quiet = {}, r.steer = k.steer,
               \/ r.settings = k.settings /\ r.perm = k.perm
               \/ r.settings = op /\ r.perm = k.perm
               \/ r.settings = k.settings /\ r.perm = op,
               LanesOK(r)
        PROVE  /\ Method(k, r, Obs)
               /\ r.settings.id \in {k.settings.id, id}
               /\ r.perm.id \in {k.perm.id, id}
               /\ BarrierKept(k.perm, r.perm)
    <3>1. OwnerOK(r)
      BY <2>1, <2>3, <2>7 DEF OwnerOK, HasActive
    <3>2. ForegroundStep(k, r)
      BY <1>0, <2>7, SameForegroundSuffices
    <3>3. LaneStep(k, r)
      BY <2>4, <2>7 DEF LaneStep, DoubtKept, SteerKept
    <3>4. BarrierKept(k.perm, r.perm)
      BY <2>4, <2>7 DEF BarrierKept
    <3>. QED  BY <2>4, <2>7, <3>1, <3>2, <3>3, <3>4 DEF Method, RecordOK
  <2>8. CASE ~SettingsRefused(k) /\ r = Bump([a EXCEPT !.settings = op])
    <3>1. r \in CoordType(Obs)
      BY <2>3, <2>4, <2>8 DEF Bump, CoordType
    <3>2. /\ r.inc = inc /\ r.active = k.active /\ r.gen = k.gen
          /\ r.adapter = k.adapter /\ r.quiet = {} /\ r.steer = k.steer
          /\ r.settings = op /\ r.perm = k.perm /\ r.interactive = a.interactive
      BY <2>1, <2>3, <2>8 DEF Bump, CoordType
    <3>3. LanesOK(r)
      BY <2>1, <2>3, <2>4, <2>8, <3>2
      DEF LanesOK, WaitsFor, SettingsRefused, BlocksDispatch
    <3>. QED  BY <2>7, <3>1, <3>2, <3>3
  <2>9. CASE ~PermissionRefused(k) /\ r = Bump([a EXCEPT !.perm = op])
    <3>1. r \in CoordType(Obs)
      BY <2>3, <2>4, <2>9 DEF Bump, CoordType
    <3>2. /\ r.inc = inc /\ r.active = k.active /\ r.gen = k.gen
          /\ r.adapter = k.adapter /\ r.quiet = {} /\ r.steer = k.steer
          /\ r.settings = k.settings /\ r.perm = op /\ r.interactive = a.interactive
      BY <2>1, <2>3, <2>9 DEF Bump, CoordType
    <3>3. LanesOK(r)
      BY <2>1, <2>3, <2>4, <2>9, <3>2 DEF LanesOK, WaitsFor, PermissionRefused
    <3>. QED  BY <2>7, <3>1, <3>2, <3>3
  <2>10. CASE r = Bump([a EXCEPT !.interactive = reply])
    <3>1. r \in CoordType(Obs)
      BY <2>3, <2>5, <2>10 DEF Bump, CoordType
    <3>2. /\ r.inc = inc /\ r.active = k.active /\ r.gen = k.gen
          /\ r.adapter = k.adapter /\ r.quiet = {} /\ r.steer = k.steer
          /\ r.settings = k.settings /\ r.perm = k.perm /\ r.interactive = reply
      BY <2>1, <2>3, <2>10 DEF Bump, CoordType
    <3>3. LanesOK(r)
      BY <2>1, <2>3, <2>5, <3>2 DEF LanesOK, WaitsFor
    <3>. QED  BY <2>7, <3>1, <3>2, <3>3
  <2>. QED  BY <2>1, <2>2, <2>6, <2>8, <2>9, <2>10
<1>. QED  BY <1>1, <1>2

-----------------------------------------------------------------------------
(* The request lanes.                                                      *)

\* Request op becomes op2: it keeps its id and its helper, it does not wait
\* again, and doubt about it stays unless it failed.
Rewrites(op, op2, inc) ==
  /\ op2 \in OpType
  /\ op2.id = op.id
  /\ op2.inc = op.inc
  /\ op2.state \in {"Pending", "Deferred"} => op.inc = inc \/ op.id = 0
  /\ op2.state = "Pending" => op.state = "Pending"
  /\ DoubtKept(op, op2)

\* The lane of request id with op in it.
Put(k, id, op) ==
  IF k.settings.id = id THEN [k EXCEPT !.settings = op]
                        ELSE [k EXCEPT !.perm = op]

\* Rewriting one lane so is an allowed step.
LEMMA Putting ==
  ASSUME NEW Obs, NEW k, RecordOK(k, Obs), NEW id, LaneOf(k, id).id = id,
         NEW op2, Rewrites(LaneOf(k, id), op2, k.inc),
         NEW r,
         \/ r = Bump(Put(k, id, op2))
         \/ /\ r = Put(k, id, op2)
            /\ BlocksDispatch(op2) = BlocksDispatch(LaneOf(k, id))
  PROVE  /\ Method(k, r, Obs) /\ SameIds(k, r)
         /\ BarrierKept(LaneOf(k, id), op2) => BarrierKept(k.perm, r.perm)
         /\ r.perm # k.perm => r.perm = op2 /\ k.perm = LaneOf(k, id)
<1>0. k \in CoordType(Obs) /\ LanesOK(k) /\ OwnerOK(k) /\ op2 \in OpType
  BY DEF RecordOK, Rewrites
<1>1. r \in CoordType(Obs)
  BY <1>0 DEF Put, Bump, CoordType
<1>2. /\ r.inc = k.inc /\ r.active = k.active /\ r.gen = k.gen
      /\ r.adapter = k.adapter /\ r.interactive = k.interactive
      /\ r.steer = k.steer
  BY <1>0 DEF Put, Bump, CoordType
<1>3. \/ LaneOf(k, id) = k.settings /\ r.settings = op2 /\ r.perm = k.perm
      \/ LaneOf(k, id) = k.perm /\ r.perm = op2 /\ r.settings = k.settings
  BY <1>0 DEF Put, Bump, CoordType, LaneOf
<1>4. \/ r.quiet = {}
      \/ BlocksDispatch(op2) = BlocksDispatch(LaneOf(k, id))
  BY <1>0 DEF Put, Bump, CoordType
<1>5. OwnerOK(r)
  BY <1>0, <1>2 DEF OwnerOK, HasActive
<1>6. LanesOK(r)
  BY <1>0, <1>2, <1>3 DEF LanesOK, WaitsFor, Rewrites
<1>7. ForegroundStep(k, r)
  <2>1. SettingsPending(r) = SettingsPending(k) \/ r.quiet = {}
    BY <1>3, <1>4 DEF SettingsPending
  <2>. QED  BY <1>0, <1>2, <2>1, SameForegroundSuffices
<1>8. LaneStep(k, r)
  BY <1>2, <1>3 DEF LaneStep, DoubtKept, SteerKept, Rewrites
<1>9. SameIds(k, r)
  BY <1>2, <1>3 DEF SameIds, Rewrites
<1>10. BarrierKept(LaneOf(k, id), op2) => BarrierKept(k.perm, r.perm)
  BY <1>3 DEF BarrierKept
<1>11. r.perm # k.perm => r.perm = op2 /\ k.perm = LaneOf(k, id)
  BY <1>3
<1>. QED  BY <1>1, <1>5, <1>6, <1>7, <1>8, <1>9, <1>10, <1>11
          DEF Method, RecordOK

\* A method that does nothing is an allowed one.
LEMMA Idling ==
  ASSUME NEW Obs, NEW k, RecordOK(k, Obs)
  PROVE  Method(k, k, Obs) /\ SameIds(k, k) /\ BarrierKept(k.perm, k.perm)
<1>1. SameLanes(k, k) /\ k \in CoordType(Obs) /\ LanesOK(k)
  BY DEF SameLanes, RecordOK
<1>. QED  BY <1>1, SameLanesSuffice, SameForegroundSuffices DEF Method, RecordOK

\* The request of either lane is typed and waits for the current helper only.
LEMMA LaneTyped ==
  ASSUME NEW Obs, NEW k, RecordOK(k, Obs), NEW id
  PROVE  /\ LaneOf(k, id) \in OpType
         /\ LaneOf(k, id).id # 0 /\ LaneOf(k, id).state \in {"Pending", "Deferred"} =>
              LaneOf(k, id).inc = k.inc
BY DEF LaneOf, RecordOK, LanesOK, WaitsFor, CoordType

\* note_settings_failed, note_settings_uncertain, and the waiter that gives up.
LEMMA SettingsNoted ==
  ASSUME NEW Obs, NEW k, RecordOK(k, Obs), NEW id, id # 0, NEW inc,
         NEW state \in {"Failed", "ReconcileRequired"}, NEW r,
         r = NoteSettings(k, id, inc, state)
  PROVE  /\ Method(k, r, Obs) /\ SameIds(k, r)
         /\ \/ state = "ReconcileRequired"
            \/ k.perm.id # id
            \/ k.perm.failAck
            => BarrierKept(k.perm, r.perm)
<1>. DEFINE op == LaneOf(k, id)
            op2 == [op EXCEPT !.state = state]
<1>1. op \in OpType
  BY LaneTyped
<1>2. CASE r = k
  BY <1>2, Idling
<1>3. CASE op.id = id /\ r = Bump(Put(k, id, op2))
  <2>. HIDE DEF op
  <2>1. op2 \in OpType /\ op2.id = op.id /\ op2.inc = op.inc /\ op2.state = state
    BY <1>1 DEF OpType, OpState
  <2>2. Rewrites(op, op2, k.inc)
    BY <2>1 DEF Rewrites, DoubtKept
  <2>3. state = "ReconcileRequired" => BarrierKept(op, op2)
    BY <1>1, <2>1 DEF BarrierKept, BlocksDispatch, OpType
  <2>. HIDE DEF op2
  <2>4. /\ Method(k, r, Obs) /\ SameIds(k, r)
        /\ BarrierKept(op, op2) => BarrierKept(k.perm, r.perm)
        /\ r.perm # k.perm => r.perm = op2 /\ k.perm = op
    BY <1>3, <2>2, Putting DEF op
  <2>5. k.perm.id # id \/ k.perm.failAck => BarrierKept(k.perm, r.perm)
    BY <1>3, <2>4 DEF BarrierKept
  <2>. QED  BY <2>3, <2>4, <2>5
<1>4. r = k \/ (op.id = id /\ r = Bump(Put(k, id, op2)))
  BY DEF NoteSettings, InLane, Put, LaneOf
<1>. QED  BY <1>2, <1>3, <1>4

\* wait_for_settings_ack gives up: the request is to be reconciled.
LEMMA SettingsTimedOut ==
  ASSUME NEW Obs, NEW k, RecordOK(k, Obs), NEW id, id # 0, NEW r,
         r = SettingsTimeout(k, id)
  PROVE  /\ Method(k, r, Obs) /\ SameIds(k, r) /\ BarrierKept(k.perm, r.perm)
<1>. DEFINE op == LaneOf(k, id)
            op2 == [op EXCEPT !.state = "ReconcileRequired"]
<1>1. op \in OpType
  BY LaneTyped
<1>2. CASE r = k
  BY <1>2, Idling
<1>3. CASE op.id = id /\ r = Bump(Put(k, id, op2))
  <2>. HIDE DEF op
  <2>1. /\ op2 \in OpType /\ op2.id = op.id /\ op2.inc = op.inc
        /\ op2.state = "ReconcileRequired"
    BY <1>1 DEF OpType, OpState
  <2>2. Rewrites(op, op2, k.inc) /\ BarrierKept(op, op2)
    BY <1>1, <2>1 DEF Rewrites, DoubtKept, BarrierKept, BlocksDispatch
  <2>. HIDE DEF op2
  <2>. QED  BY <1>3, <2>2, Putting DEF op
<1>4. r = k \/ (op.id = id /\ r = Bump(Put(k, id, op2)))
  BY DEF SettingsTimeout, InLane, Put, LaneOf, Reconcile, BlocksDispatch
<1>. QED  BY <1>2, <1>3, <1>4

\* note_settings_ack: the answer of the helper.
LEMMA SettingsAnswered ==
  ASSUME NEW Obs, NEW k, RecordOK(k, Obs), NEW id, id # 0,
         NEW wire, NEW gen \in Nat, NEW r,
         r = NoteSettingsAck(k, id, k.inc, wire, gen).c
  PROVE  Method(k, r, Obs) /\ SameIds(k, r) /\ BarrierKept(k.perm, r.perm)
<1>. DEFINE op == LaneOf(k, id)
            bound == [op EXCEPT !.gen = IF gen = 0 THEN @ ELSE gen]
            failed == [bound EXCEPT !.failAck = TRUE, !.state = "ReconcileRequired"]
            set == [bound EXCEPT !.state = wire]
            permission == k.perm.id = id
<1>1. op \in OpType /\ (op.id # 0 /\ op.state \in {"Pending", "Deferred"} => op.inc = k.inc)
  BY LaneTyped
<1>. DEFINE Answers ==
              \/ r = k
              \/ r = Poison(k).c
              \/ /\ op.id = id /\ op.inc = k.inc
                 /\ \/ r = Put(k, id, bound)
                    \/ r = Bump(Put(k, id, failed))
                    \/ /\ wire \in {"Applied", "Deferred", "Failed"}
                       /\ ~(permission /\ wire = "Failed")
                       /\ ~(op.state = "ReconcileRequired" /\ wire # "Failed")
                       /\ r = Bump(Put(k, id, set))
<1>2. k \in CoordType(Obs)
  BY DEF RecordOK
<1>3. ASSUME k.settings.id = id PROVE Answers
  <2>. DEFINE kb == [k EXCEPT !.settings = bound]
  <2>1. op = k.settings /\ bound.id = id
    BY <1>1, <1>3 DEF LaneOf, OpType
  <2>2. kb.settings = bound
    BY <1>2 DEF CoordType
  <2>3. \A x : [kb EXCEPT !.settings = x] = Put(k, id, x)
    BY <1>2, <1>3 DEF CoordType, Put
  <2>4. \/ r = k
        \/ r = Poison(k).c
        \/ /\ op.id = id /\ op.inc = k.inc
           /\ \/ r = kb
              \/ r = Bump([kb EXCEPT !.settings = failed])
              \/ /\ wire \in {"Applied", "Deferred", "Failed"}
                 /\ ~(permission /\ wire = "Failed")
                 /\ ~(op.state = "ReconcileRequired" /\ wire # "Failed")
                 /\ r = Bump([kb EXCEPT !.settings = set])
    BY <1>3, <2>1, <2>2
    DEF NoteSettingsAck, InLane, LaneOf, Ignored, Updated
  <2>5. kb = Put(k, id, bound)
    BY <1>3 DEF Put
  <2>. QED  BY <2>3, <2>4, <2>5
<1>4. ASSUME k.settings.id # id, k.perm.id = id PROVE Answers
  <2>. DEFINE kb == [k EXCEPT !.perm = bound]
  <2>1. op = k.perm /\ bound.id = id
    BY <1>1, <1>4 DEF LaneOf, OpType
  <2>2. kb.perm = bound /\ kb.settings = k.settings
    BY <1>2 DEF CoordType
  <2>3. \A x : [kb EXCEPT !.perm = x] = Put(k, id, x)
    BY <1>2, <1>4 DEF CoordType, Put
  <2>4. \/ r = k
        \/ r = Poison(k).c
        \/ /\ op.id = id /\ op.inc = k.inc
           /\ \/ r = kb
              \/ r = Bump([kb EXCEPT !.perm = failed])
              \/ /\ wire \in {"Applied", "Deferred", "Failed"}
                 /\ ~(permission /\ wire = "Failed")
                 /\ ~(op.state = "ReconcileRequired" /\ wire # "Failed")
                 /\ r = Bump([kb EXCEPT !.perm = set])
    BY <1>4, <2>1, <2>2
    DEF NoteSettingsAck, InLane, LaneOf, Ignored, Updated
  <2>5. kb = Put(k, id, bound)
    BY <1>4 DEF Put
  <2>. QED  BY <2>3, <2>4, <2>5
<1>5. ASSUME op.id # id PROVE Answers
  BY <1>5 DEF NoteSettingsAck, Ignored
<1>6. Answers
  BY <1>3, <1>4, <1>5 DEF LaneOf
<1>7. CASE r = k
  BY <1>7, Idling
<1>8. CASE r = Poison(k).c
  BY <1>2, <1>8, PoisoningIsAllowed, ForegroundIsMethod DEF RecordOK
<1>. HIDE DEF op
<1>9. /\ bound \in OpType /\ bound.id = op.id /\ bound.inc = op.inc
      /\ bound.state = op.state
  BY <1>1 DEF OpType
<1>10. CASE op.id = id /\ op.inc = k.inc /\ r = Put(k, id, bound)
  <2>1. Rewrites(op, bound, k.inc)
    BY <1>9, <1>10 DEF Rewrites, DoubtKept
  <2>2. BlocksDispatch(bound) = BlocksDispatch(op) /\ BarrierKept(op, bound)
    BY <1>9 DEF BlocksDispatch, BarrierKept
  <2>. HIDE DEF bound
  <2>. QED  BY <1>10, <2>1, <2>2, Putting DEF op
<1>. HIDE DEF bound
<1>11. CASE op.id = id /\ op.inc = k.inc /\ r = Bump(Put(k, id, failed))
  <2>1. /\ failed \in OpType /\ failed.id = op.id /\ failed.inc = op.inc
        /\ failed.state = "ReconcileRequired"
    BY <1>9 DEF OpType, OpState
  <2>2. Rewrites(op, failed, k.inc) /\ BarrierKept(op, failed)
    BY <1>1, <2>1 DEF Rewrites, DoubtKept, BarrierKept, BlocksDispatch
  <2>. HIDE DEF failed
  <2>. QED  BY <1>11, <2>2, Putting DEF op
<1>12. CASE /\ op.id = id /\ op.inc = k.inc
            /\ wire \in {"Applied", "Deferred", "Failed"}
            /\ ~(permission /\ wire = "Failed")
            /\ ~(op.state = "ReconcileRequired" /\ wire # "Failed")
            /\ r = Bump(Put(k, id, set))
  <2>1. set \in OpType /\ set.id = op.id /\ set.inc = op.inc /\ set.state = wire
    BY <1>9, <1>12 DEF OpType, OpState
  <2>2. Rewrites(op, set, k.inc)
    BY <1>12, <2>1 DEF Rewrites, DoubtKept
  <2>3. permission => BarrierKept(op, set)
    BY <1>12, <2>1 DEF BarrierKept, BlocksDispatch
  <2>. HIDE DEF set
  <2>4. /\ Method(k, r, Obs) /\ SameIds(k, r)
        /\ BarrierKept(op, set) => BarrierKept(k.perm, r.perm)
        /\ r.perm # k.perm => r.perm = set /\ k.perm = op
    BY <1>12, <2>2, Putting DEF op
  <2>5. BarrierKept(k.perm, r.perm)
    BY <1>12, <2>3, <2>4 DEF BarrierKept
  <2>. QED  BY <2>4, <2>5
<1>. QED  BY <1>6, <1>7, <1>8, <1>10, <1>11, <1>12

\* The answers to an interactive request, and its failure.
LEMMA ReplyNoted ==
  ASSUME NEW Obs, NEW k, RecordOK(k, Obs), NEW id, NEW inc,
         NEW wire, NEW gen \in Nat, NEW r,
         \/ r = InteractiveFailed(k, id, inc)
         \/ r = NoteInteractiveAck(k, id, k.inc, wire, gen).c
  PROVE  Method(k, r, Obs) /\ SameIds(k, r) /\ BarrierKept(k.perm, r.perm)
<1>1. k \in CoordType(Obs) /\ OwnerOK(k) /\ LanesOK(k)
  BY DEF RecordOK
<1>2. CASE r = k
  BY <1>2, Idling
<1>3. CASE r = Poison(k).c
  BY <1>1, <1>3, PoisoningIsAllowed, ForegroundIsMethod DEF RecordOK
<1>4. ASSUME NEW state \in {"Applied", "Rejected", "Failed"}, NEW g \in Nat,
             r = Bump([k EXCEPT !.interactive.state = state,
                                !.interactive.gen = g])
      PROVE  Method(k, r, Obs) /\ SameIds(k, r) /\ BarrierKept(k.perm, r.perm)
  <2>1. r \in CoordType(Obs)
    BY <1>1, <1>4 DEF Bump, CoordType, ReplyType, ReplyState
  <2>2. /\ r.inc = k.inc /\ r.active = k.active /\ r.gen = k.gen
        /\ r.adapter = k.adapter /\ r.quiet = {} /\ r.steer = k.steer
        /\ r.settings = k.settings /\ r.perm = k.perm
        /\ r.interactive.id = k.interactive.id
        /\ r.interactive.inc = k.interactive.inc
        /\ r.interactive.state = state
    BY <1>1, <1>4 DEF Bump, CoordType, ReplyType
  <2>3. OwnerOK(r) /\ LanesOK(r)
    BY <1>1, <2>2 DEF OwnerOK, HasActive, LanesOK, WaitsFor
  <2>4. ForegroundStep(k, r)
    BY <1>1, <2>2, SameForegroundSuffices
  <2>5. LaneStep(k, r) /\ SameIds(k, r) /\ BarrierKept(k.perm, r.perm)
    BY <2>2 DEF LaneStep, DoubtKept, SteerKept, SameIds, BarrierKept
  <2>. QED  BY <2>1, <2>3, <2>4, <2>5 DEF Method, RecordOK
<1>5. CASE r = InteractiveFailed(k, id, inc)
  <2>1. k.interactive.gen \in Nat
    BY <1>1 DEF CoordType, ReplyType
  <2>2. \/ r = k
        \/ r = Bump([k EXCEPT !.interactive.state = "Failed",
                              !.interactive.gen = k.interactive.gen])
    <3>1. [k EXCEPT !.interactive.state = "Failed"]
            = [k EXCEPT !.interactive.state = "Failed",
                        !.interactive.gen = k.interactive.gen]
      BY <1>1 DEF CoordType, ReplyType
    <3>. QED  BY <1>5, <3>1 DEF InteractiveFailed
  <2>. QED  BY <1>2, <1>4, <2>1, <2>2
<1>6. CASE r = NoteInteractiveAck(k, id, k.inc, wire, gen).c
  <2>. DEFINE g == IF wire = "Applied" /\ k.interactive.gen = 0 THEN gen
                   ELSE k.interactive.gen
  <2>1. g \in Nat
    BY <1>1 DEF CoordType, ReplyType
  <2>2. \/ r = k
        \/ r = Poison(k).c
        \/ /\ wire \in {"Applied", "Rejected"}
           /\ r = Bump([k EXCEPT !.interactive.state = wire, !.interactive.gen = g])
    BY <1>1, <1>6 DEF NoteInteractiveAck, Ignored, Updated, CoordType, ReplyType
  <2>. HIDE DEF g
  <2>. QED  BY <1>2, <1>3, <1>4, <2>1, <2>2
<1>. QED  BY <1>5, <1>6

-----------------------------------------------------------------------------
(* Steering.                                                               *)

\* Only the steer lane changes.
LEMMA SteerRewritten ==
  ASSUME NEW Obs, NEW k, RecordOK(k, Obs), NEW s \in SteerType,
         SteerKept(k.steer, s), NEW r,
         r = [k EXCEPT !.steer = s] \/ r = Bump([k EXCEPT !.steer = s])
  PROVE  /\ Method(k, r, Obs) /\ BarrierKept(k.perm, r.perm)
         /\ r.settings = k.settings /\ r.perm = k.perm /\ r.steer = s
<1>1. k \in CoordType(Obs) /\ OwnerOK(k) /\ LanesOK(k)
  BY DEF RecordOK
<1>2. r \in CoordType(Obs)
  BY <1>1 DEF Bump, CoordType
<1>3. /\ r.inc = k.inc /\ r.active = k.active /\ r.gen = k.gen
      /\ r.adapter = k.adapter /\ r.interactive = k.interactive
      /\ r.settings = k.settings /\ r.perm = k.perm /\ r.steer = s
  BY <1>1 DEF Bump, CoordType
<1>4. OwnerOK(r) /\ LanesOK(r)
  BY <1>1, <1>3 DEF OwnerOK, HasActive, LanesOK
<1>5. ForegroundStep(k, r)
  BY <1>1, <1>3, SameForegroundSuffices DEF SettingsPending
<1>6. LaneStep(k, r) /\ BarrierKept(k.perm, r.perm)
  BY <1>3 DEF LaneStep, DoubtKept, BarrierKept
<1>. QED  BY <1>2, <1>3, <1>4, <1>5, <1>6 DEF Method, RecordOK

\* reserve_steer: the lane is only taken when nobody waits on it.
LEMMA Reserving ==
  ASSUME NEW Obs, NEW k, RecordOK(k, Obs), NEW inc \in Nat, NEW cmd \in Nat,
         cmd # k.steer.cmd, SteerVerdict(k, inc, k.active.cmd) = "ok", NEW r,
         r = ReserveSteer(k, inc, k.active.cmd, cmd)
  PROVE  /\ Method(k, r, Obs) /\ BarrierKept(k.perm, r.perm)
         /\ r.settings = k.settings /\ r.perm = k.perm /\ r.steer.cmd = cmd
<1>. DEFINE s == [cmd |-> cmd, parent |-> k.active.cmd, inc |-> inc,
                  gen |-> k.active.gen, state |-> "Pending",
                  waiterFinished |-> FALSE]
<1>1. s \in SteerType /\ s.cmd = cmd
  BY DEF SteerType, SteerState, RecordOK, CoordType, ActiveType
<1>2. ~SteerLaneTaken(k, inc)
  BY DEF SteerVerdict
<1>3. SteerKept(k.steer, s)
  BY <1>1, <1>2 DEF SteerKept, SteerLaneTaken
<1>4. r = Bump([k EXCEPT !.steer = s])
  BY DEF ReserveSteer
<1>. HIDE DEF s
<1>. QED  BY <1>1, <1>3, <1>4, SteerRewritten

\* The receipt of a steer, and the return of the thread that waits for it.
LEMMA SteerNoted ==
  ASSUME NEW Obs, NEW k, RecordOK(k, Obs), NEW cmd, NEW gen,
         NEW accepted \in BOOLEAN, NEW r,
         \/ r = NoteSteerReceipt(k, k.inc, cmd, gen, accepted).c
         \/ r = SteerWaited(k, cmd)
  PROVE  Method(k, r, Obs) /\ SameIds(k, r) /\ BarrierKept(k.perm, r.perm)
<1>1. k \in CoordType(Obs) /\ k.steer \in SteerType
  BY DEF RecordOK, CoordType
<1>2. CASE r = k
  BY <1>2, Idling
<1>3. ASSUME NEW s \in SteerType, SteerKept(k.steer, s), s.cmd = k.steer.cmd,
             r = [k EXCEPT !.steer = s] \/ r = Bump([k EXCEPT !.steer = s])
      PROVE  Method(k, r, Obs) /\ SameIds(k, r) /\ BarrierKept(k.perm, r.perm)
  BY <1>3, SteerRewritten DEF SameIds
<1>4. CASE r = NoteSteerReceipt(k, k.inc, cmd, gen, accepted).c
  <2>. DEFINE s == [k.steer EXCEPT
                      !.state = IF accepted THEN "Accepted" ELSE "Rejected"]
  <2>1. \/ r = k
        \/ /\ k.steer.state \in {"Pending", "Uncertain"}
           /\ r = Bump([k EXCEPT !.steer = s])
    BY <1>1, <1>4 DEF NoteSteerReceipt, Ignored, Updated, CoordType
  <2>2. s \in SteerType /\ s.cmd = k.steer.cmd
    BY <1>1 DEF SteerType, SteerState
  <2>3. k.steer.state \in {"Pending", "Uncertain"} => SteerKept(k.steer, s)
    BY <2>2 DEF SteerKept
  <2>. HIDE DEF s
  <2>. QED  BY <1>2, <1>3, <2>1, <2>2, <2>3
<1>5. CASE r = SteerWaited(k, cmd)
  <2>. DEFINE s == [k.steer EXCEPT
                      !.state = IF @ = "Pending" THEN "Uncertain" ELSE @,
                      !.waiterFinished = TRUE]
  <2>1. r = k \/ r = [k EXCEPT !.steer = s]
    BY <1>1, <1>5 DEF SteerWaited, CoordType
  <2>2. s \in SteerType /\ s.cmd = k.steer.cmd
    BY <1>1 DEF SteerType, SteerState
  <2>3. SteerKept(k.steer, s)
    BY <1>1, <2>2 DEF SteerKept, SteerType
  <2>. HIDE DEF s
  <2>. QED  BY <1>2, <1>3, <2>1, <2>2, <2>3
<1>. QED  BY <1>4, <1>5

-----------------------------------------------------------------------------
(* Helpers come and go.                                                    *)

\* Reconciling a request: it no longer waits, and it still blocks if it did.
LEMMA Reconciled ==
  ASSUME NEW op \in OpType
  PROVE  /\ Reconcile(op) \in OpType
         /\ Reconcile(op).id = op.id /\ Reconcile(op).inc = op.inc
         /\ op.id # 0 => Reconcile(op).state \notin {"Pending", "Deferred"}
         /\ DoubtKept(op, Reconcile(op)) /\ BarrierKept(op, Reconcile(op))
BY DEF Reconcile, BlocksDispatch, OpType, OpState, DoubtKept, BarrierKept

\* A reply that is failed off no longer waits.
LEMMA ReplyFailedOff ==
  ASSUME NEW op \in ReplyType
  PROVE  /\ FailReply(op) \in ReplyType
         /\ FailReply(op).id = op.id /\ FailReply(op).inc = op.inc
         /\ op.id # 0 => FailReply(op).state # "Pending"
BY DEF FailReply, ReplyType, ReplyState

\* Casting doubt on the command keeps it in the foreground.
LEMMA Doubted ==
  ASSUME NEW Obs, NEW k \in CoordType(Obs)
  PROVE  /\ Doubt(k) \in CoordType(Obs)
         /\ Keeps(k, Doubt(k))
         /\ HasActive(k) => Doubt(k).active.phase \in Unsettled
         /\ Doubt(k).active.gen = k.active.gen
<1>1. Doubt(k) \in CoordType(Obs)
  BY DEF Doubt, CoordType, ActiveType, CommandPhase
<1>. QED  BY <1>1 DEF Doubt, HasActive, CoordType, ActiveType, Keeps, SameLanes,
                      Unsettled

\* note_incarnation and note_generation_retired leave nothing that waits for the
\* old helper, and its command in doubt.
LEMMA HelperReplaced ==
  ASSUME NEW Obs, NEW k, RecordOK(k, Obs), NEW inc \in Nat, inc # k.inc, NEW r,
         \/ r = NoteIncarnation(k, inc)
         \/ r = NoteRetired(k, k.inc) /\ inc = 0
  PROVE  /\ Method(k, r, Obs) /\ SameIds(k, r) /\ BarrierKept(k.perm, r.perm)
         /\ r.inc = inc
<1>1. /\ k \in CoordType(Obs) /\ OwnerOK(k) /\ LanesOK(k)
      /\ k.settings \in OpType /\ k.perm \in OpType
      /\ k.interactive \in ReplyType /\ k.active \in ActiveType
  BY DEF RecordOK, CoordType
\* A retirement touches only what the retired helper owned, which is what waits.
<1>. DEFINE retired == r # NoteIncarnation(k, inc)
            d == IF retired /\ k.active.inc # k.inc THEN k ELSE Doubt(k)
            settings == IF retired /\ k.settings.inc # k.inc THEN k.settings
                        ELSE Reconcile(k.settings)
            perm == IF retired /\ k.perm.inc # k.inc THEN k.perm
                    ELSE Reconcile(k.perm)
            reply == IF retired /\ k.interactive.inc # k.inc THEN k.interactive
                     ELSE FailReply(k.interactive)
            n == [d EXCEPT !.settings = settings, !.perm = perm,
                           !.interactive = reply,
                           !.inc = inc, !.gen = 0, !.adapter = "Negotiating",
                           !.canSteer = FALSE, !.adjudicated = FALSE]
<1>2. /\ d \in CoordType(Obs) /\ Keeps(k, d)
      /\ HasActive(k) => d.active.phase \in Unsettled
      /\ d.active.gen = k.active.gen
  <2>1. Keeps(k, k)
    BY DEF Keeps, SameLanes
  <2>. QED  BY <1>1, <2>1, Doubted DEF OwnerOK
<1>3. r = Bump(n)
  <2>1. d.settings = k.settings /\ d.perm = k.perm /\ d.interactive = k.interactive
    BY <1>2 DEF Keeps, SameLanes
  <2>2. CASE ~retired
    <3>1. d = Doubt(k)
      BY <2>2
    <3>. QED  BY <2>1, <2>2, <3>1 DEF NoteIncarnation
  <2>3. CASE retired
    <3>1. r = NoteRetired(k, k.inc) /\ k.inc # 0 /\ inc = 0
      BY <2>3
    <3>2. d = IF k.active.inc = k.inc THEN Doubt(k) ELSE k
      BY <2>3
    <3>. HIDE DEF d, retired
    <3>. QED  BY <2>1, <2>3, <3>1, <3>2 DEF NoteRetired
  <2>. QED  BY <2>2, <2>3
<1>4. /\ settings \in OpType
      /\ settings.id = k.settings.id /\ settings.inc = k.settings.inc
      /\ settings.id # 0 => settings.state \notin {"Pending", "Deferred"}
      /\ DoubtKept(k.settings, settings)
  BY <1>1, Reconciled DEF LanesOK, WaitsFor, DoubtKept
<1>5. /\ perm \in OpType /\ perm.id = k.perm.id /\ perm.inc = k.perm.inc
      /\ perm.id # 0 => perm.state \notin {"Pending", "Deferred"}
      /\ DoubtKept(k.perm, perm) /\ BarrierKept(k.perm, perm)
  BY <1>1, Reconciled DEF LanesOK, WaitsFor, DoubtKept, BarrierKept
<1>6. /\ reply \in ReplyType
      /\ reply.id = k.interactive.id /\ reply.inc = k.interactive.inc
      /\ reply.id # 0 => reply.state # "Pending"
  BY <1>1, ReplyFailedOff DEF LanesOK, WaitsFor
<1>. HIDE DEF settings, perm, reply, d
<1>7. r \in CoordType(Obs)
  <2>1. n \in CoordType(Obs)
    BY <1>2, <1>4, <1>5, <1>6 DEF CoordType, AdapterKind
  <2>. QED  BY <1>3, <2>1, Bumped
<1>8. /\ r.inc = inc /\ r.gen = 0 /\ r.adapter = "Negotiating"
      /\ r.active = d.active /\ r.steer = d.steer
      /\ r.settings = settings /\ r.perm = perm /\ r.interactive = reply
  BY <1>2, <1>3 DEF Bump, CoordType
<1>9. OwnerOK(r)
  BY <1>1, <1>2, <1>8 DEF OwnerOK, HasActive, Keeps
<1>10. LanesOK(r)
  BY <1>1, <1>4, <1>5, <1>6, <1>8 DEF LanesOK, WaitsFor
<1>11. ForegroundStep(k, r)
  BY <1>1, <1>2, <1>8 DEF ForegroundStep, HasActive, Keeps, Drainable
<1>12. LaneStep(k, r) /\ SameIds(k, r)
  BY <1>2, <1>4, <1>5, <1>8 DEF LaneStep, SteerKept, SameIds, Keeps, SameLanes
<1>. QED  BY <1>5, <1>7, <1>8, <1>9, <1>10, <1>11, <1>12 DEF Method, RecordOK

-----------------------------------------------------------------------------
(* The invariant.                                                          *)

\* The installed helper is the current incarnation; every request id in a lane
\* was asked before.
CoordInv ==
  /\ scope \in Scopes
  /\ RecordOK(coord, Observers)
  /\ lastInc \in Nat /\ live \in Nat
  /\ live # 0 => coord.inc = live
  /\ {coord.settings.id, coord.perm.id, coord.steer.cmd} \subseteq asked \cup {0}

\* What every step does to the record.
CoordStep ==
  /\ ForegroundStep(coord, coord')
  /\ LaneStep(coord, coord')
  /\ coord.perm.id \in written => BarrierKept(coord.perm, coord'.perm)

\* A new coordination satisfies the invariant.
LEMMA InitCoordInv == Init => CoordInv
<1>. SUFFICES ASSUME Init PROVE CoordInv
  OBVIOUS
<1>. USE DEF Init, NewCoordination
<1>1. /\ NoActive \in ActiveType /\ NoSteer \in SteerType /\ NoFenceYet \in FenceType
      /\ NoOp \in OpType /\ NoReply \in ReplyType
  BY DEF NoActive, NoSteer, NoFenceYet, NoOp, NoReply, ActiveType, SteerType,
         FenceType, OpType, ReplyType, CommandPhase, SteerState, OpState, ReplyState
<1>2. coord \in CoordType(Observers)
  BY <1>1 DEF CoordType, AdapterKind
<1>3. OwnerOK(coord) /\ LanesOK(coord)
  BY DEF OwnerOK, HasActive, LanesOK, WaitsFor, NoActive, NoOp, NoReply
<1>. QED  BY <1>2, <1>3 DEF CoordInv, RecordOK, NoOp, NoSteer

\* An action that replaces the record by a method's result and keeps the ids.
LEMMA MethodStep ==
  ASSUME CoordInv, Method(coord, coord', Observers),
         coord.perm.id \in written => BarrierKept(coord.perm, coord'.perm),
         scope' = scope, lastInc' \in Nat, live' \in Nat,
         live' # 0 => coord'.inc = live',
         {coord'.settings.id, coord'.perm.id, coord'.steer.cmd}
           \subseteq asked' \cup {0}
  PROVE  CoordInv' /\ CoordStep
BY DEF CoordInv, CoordStep, Method, Observers

\* The steps that only replace the record.
LEMMA BecomesStep ==
  ASSUME CoordInv, NEW k, Becomes(k), Method(coord, k, Observers),
         SameIds(coord, k), k.inc = coord.inc \/ live = 0,
         coord.perm.id \in written => BarrierKept(coord.perm, k.perm)
  PROVE  CoordInv' /\ CoordStep
<1>1. /\ coord' = k
      /\ UNCHANGED <<live, lastInc, asked, written, scope>>
  BY DEF Becomes
<1>2. /\ scope' = scope /\ lastInc' \in Nat /\ live' \in Nat
      /\ live' # 0 => coord'.inc = live'
      /\ {coord'.settings.id, coord'.perm.id, coord'.steer.cmd}
           \subseteq asked' \cup {0}
  BY <1>1 DEF CoordInv, SameIds
<1>. QED  BY <1>1, <1>2, MethodStep

\* The steps that ask something new.
LEMMA AskStep ==
  ASSUME CoordInv, NEW k, NEW id, Ask(k, id), Method(coord, k, Observers),
         k.settings.id \in {coord.settings.id, id},
         k.perm.id \in {coord.perm.id, id}, k.steer = coord.steer,
         BarrierKept(coord.perm, k.perm), k.inc = coord.inc \/ live = 0
  PROVE  CoordInv' /\ CoordStep
<1>1. /\ coord' = k /\ asked' = asked \cup {id}
      /\ UNCHANGED <<live, lastInc, written, scope>>
  BY DEF Ask
<1>2. /\ scope' = scope /\ lastInc' \in Nat /\ live' \in Nat
      /\ live' # 0 => coord'.inc = live'
      /\ {coord'.settings.id, coord'.perm.id, coord'.steer.cmd}
           \subseteq asked' \cup {0}
  BY <1>1 DEF CoordInv
<1>. QED  BY <1>1, <1>2, MethodStep

\* The ids and bounds of an instance are numbers, and ids are not 0.
LEMMA ScopeTypes ==
  ASSUME CoordInv
  PROVE  /\ Cmds \subseteq Nat \ {0} /\ Reqs \subseteq Nat \ {0}
         /\ Replies \subseteq Nat \ {0} /\ SteerCmds \subseteq Nat \ {0}
         /\ Convs \subseteq Nat \ {0}
         /\ Incs \subseteq Nat \ {0} /\ Gens \subseteq Nat /\ 0..MaxGen \subseteq Nat
BY ScopesAssumption
DEF CoordInv, Cmds, Reqs, SettingsReqs, PermReqs, Replies, SteerCmds, Convs, Incs,
    Gens, MaxGen

\* A helper starts or retires.
LEMMA HelperSteps ==
  ASSUME CoordInv, Helpers
  PROVE  CoordInv' /\ CoordStep
<1>0. RecordOK(coord, Observers)
  BY DEF CoordInv
<1>1. CASE Start
  <2>1. /\ live' = lastInc + 1 /\ lastInc' = lastInc + 1 /\ live' # 0
        /\ live' \in Nat /\ lastInc' \in Nat
        /\ coord' = NoteIncarnation(coord, live')
        /\ UNCHANGED <<asked, written, scope>>
    BY <1>1 DEF Start, CoordInv
  <2>2. /\ Method(coord, coord', Observers) /\ SameIds(coord, coord')
        /\ BarrierKept(coord.perm, coord'.perm) /\ coord'.inc = live'
    <3>1. CASE coord.inc = live'
      <4>1. coord' = coord
        BY <2>1, <3>1 DEF NoteIncarnation
      <4>. QED  BY <1>0, <3>1, <4>1, Idling
    <3>2. CASE coord.inc # live'
      BY <1>0, <2>1, <3>2, HelperReplaced
    <3>. QED  BY <3>1, <3>2
  <2>3. {coord'.settings.id, coord'.perm.id, coord'.steer.cmd}
           \subseteq asked' \cup {0}
    BY <2>1, <2>2 DEF CoordInv, SameIds
  <2>. QED  BY <2>1, <2>2, <2>3, MethodStep
<1>2. CASE Retire
  <2>1. /\ coord.inc = live /\ coord.inc # 0 /\ live' = 0
        /\ coord' = NoteRetired(coord, coord.inc)
        /\ UNCHANGED <<lastInc, asked, written, scope>>
    BY <1>2 DEF Retire, CoordInv
  <2>2. /\ Method(coord, coord', Observers) /\ SameIds(coord, coord')
        /\ BarrierKept(coord.perm, coord'.perm)
    BY <1>0, <2>1, HelperReplaced
  <2>3. /\ lastInc' \in Nat /\ live' \in Nat
        /\ {coord'.settings.id, coord'.perm.id, coord'.steer.cmd}
             \subseteq asked' \cup {0}
    BY <2>1, <2>2 DEF CoordInv, SameIds
  <2>. QED  BY <2>1, <2>2, <2>3, MethodStep
<1>. QED  BY <1>1, <1>2 DEF Helpers

\* A dispatcher, a deadline or Stop comes with whatever it once saw.
LEMMA LocalSteps ==
  ASSUME CoordInv, Local
  PROVE  CoordInv' /\ CoordStep
<1>0. RecordOK(coord, Observers) /\ coord \in CoordType(Observers) /\ OwnerOK(coord)
  BY DEF CoordInv, RecordOK
<1>1. ASSUME NEW inc \in Incs, NEW cmd \in Cmds, AdmitPrompt(inc, cmd)
      PROVE  CoordInv' /\ CoordStep
  <2>. DEFINE k == Admit(coord, inc, cmd, cmd)
  <2>1. inc \in Nat \ {0} /\ cmd \in Nat
    BY ScopeTypes
  <2>2. /\ Method(coord, k, Observers) /\ SameIds(coord, k)
        /\ BarrierKept(coord.perm, k.perm)
    BY <1>0, <2>1, Admitting
  <2>3. k.inc = coord.inc \/ live = 0
    <3>1. CASE StaleFor(coord, inc)
      BY <3>1 DEF Admit, AdmissionVerdict
    <3>2. CASE ~StaleFor(coord, inc) /\ live # 0
      BY <1>0, <2>1, <3>2 DEF Admit, AdmissionVerdict, StaleFor, Adopt, Bump, CoordInv, CoordType
    <3>. QED  BY <3>1, <3>2
  <2>4. Becomes(k)
    BY <1>1 DEF AdmitPrompt
  <2>. HIDE DEF k
  <2>. QED  BY <2>2, <2>3, <2>4, BecomesStep
<1>2. ASSUME NEW k, ForegroundMethod(coord, k, Observers), Becomes(k)
      PROVE  CoordInv' /\ CoordStep
  <2>1. k.inc = coord.inc
    BY <1>2 DEF ForegroundMethod, SameLanes
  <2>. QED  BY <1>0, <1>2, <2>1, ForegroundIsMethod, BecomesStep
<1>3. ASSUME NEW inc \in Incs, NEW cmd \in Cmds,
             \/ AbandonAdmission(inc, cmd)
             \/ NeverStarted(inc, cmd)
             \/ WriteUnknown(inc, cmd)
             \/ Expire(inc, cmd)
      PROVE  CoordInv' /\ CoordStep
  <2>1. inc \in Nat /\ cmd \in Nat
    BY ScopeTypes
  <2>2. ASSUME NEW k,
               \/ CanAbandonAdmission(coord, inc, cmd) /\ k = ReleaseActive(coord)
               \/ CanAbandonNotStarted(coord, inc, cmd) /\ k = AbandonNotStarted(coord)
               \/ k = MarkUncertain(coord, inc, cmd)
        PROVE  ForegroundMethod(coord, k, Observers)
    BY <1>0, <2>1, <2>2, LocalVerdicts
  <2>. QED  BY <1>2, <1>3, <2>2 DEF AbandonAdmission, NeverStarted, WriteUnknown, Expire
<1>4. ASSUME NEW cmd \in Cmds, GiveUpRetired(cmd)
      PROVE  CoordInv' /\ CoordStep
  <2>1. cmd \in Nat
    BY ScopeTypes
  <2>2. ForegroundMethod(coord, AbandonRetired(coord, cmd).c, Observers)
    BY <1>0, <2>1, LocalVerdicts
  <2>. QED  BY <1>2, <1>4, <2>2 DEF GiveUpRetired
<1>5. ASSUME NEW o \in Observers, Observe(o)
      PROVE  CoordInv' /\ CoordStep
  <2>1. ForegroundMethod(coord, Project(coord, o), Observers)
    BY <1>0, LocalVerdicts
  <2>. QED  BY <1>2, <1>5, <2>1 DEF Observe
<1>. QED  BY <1>1, <1>3, <1>4, <1>5 DEF Local

\* A receipt comes from the installed helper, the current incarnation.
LEMMA ReceiptSteps ==
  ASSUME CoordInv, Receipts
  PROVE  CoordInv' /\ CoordStep
<1>0. RecordOK(coord, Observers) /\ coord \in CoordType(Observers) /\ OwnerOK(coord)
  BY DEF CoordInv, RecordOK
<1>1. ASSUME NEW k, Receipt(k),
             live = coord.inc => ForegroundMethod(coord, k, Observers)
      PROVE  CoordInv' /\ CoordStep
  <2>1. live = coord.inc /\ Becomes(k)
    BY <1>1 DEF Receipt, CoordInv
  <2>2. ForegroundMethod(coord, k, Observers)
    BY <1>1, <2>1
  <2>3. k.inc = coord.inc
    BY <2>2 DEF ForegroundMethod, SameLanes
  <2>. QED  BY <1>0, <2>1, <2>2, <2>3, ForegroundIsMethod, BecomesStep
<1>2. ASSUME NEW cmd \in Cmds, NEW gen \in Gens, NEW k, Receipt(k),
             \/ k = NoteAdmitted(coord, cmd, live, gen).c
             \/ k = NoteRejected(coord, cmd, live, gen).c
             \/ k = NoteAbandoned(coord, cmd, live, gen).c
             \/ k = NoteMismatch(coord, cmd, live, gen).c
             \/ k = NoteResult(coord, cmd, live, gen).c
             \/ k = NoteLegacyTerminal(coord, cmd, live, gen).c
             \/ k = NoteSdkTerminal(coord, cmd, live, gen).c
             \/ k = NoteSdkProgress(coord, cmd, live, gen, "SdkQueued").c
             \/ k = NoteSdkProgress(coord, cmd, live, gen, "SdkStarted").c
      PROVE  CoordInv' /\ CoordStep
  <2>1. cmd \in Nat /\ gen \in Nat
    BY ScopeTypes
  <2>2. live = coord.inc => ForegroundMethod(coord, k, Observers)
    BY <1>0, <1>2, <2>1, CorrelatedReceipts
  <2>. QED  BY <1>1, <1>2, <2>2
<1>3. ASSUME NEW cmd \in Cmds, NEW gen \in Gens, Reset(cmd, gen)
      PROVE  CoordInv' /\ CoordStep
  <2>1. cmd \in Nat /\ gen \in Nat
    BY ScopeTypes
  <2>2. live = coord.inc =>
          ForegroundMethod(coord, NoteReset(coord, cmd, live, gen).c, Observers)
    BY <1>0, <2>1, ResetReceipt
  <2>. QED  BY <1>1, <1>3, <2>2 DEF Reset
<1>4. ASSUME NEW cmd \in Cmds \cup {0}, NEW k, Receipt(k),
             \/ k = NoteSdkUnknown(coord, cmd, live).c
             \/ k = NoteProtocolError(coord, cmd, live).c
             \/ k = ReleaseFailed(coord, live, cmd).c
             \/ k = ConsumeAdjudicated(coord)
      PROVE  CoordInv' /\ CoordStep
  <2>1. cmd \in Nat
    BY ScopeTypes
  <2>2. live = coord.inc => ForegroundMethod(coord, k, Observers)
    BY <1>0, <1>4, <2>1, UncorrelatedReceipts
  <2>. QED  BY <1>1, <1>4, <2>2
<1>5. ASSUME NEW conv \in Convs \cup {0}, NEW caps \in scope.caps,
             NEW gen \in 0..MaxGen, Meta(conv, caps, gen)
      PROVE  CoordInv' /\ CoordStep
  <2>1. conv \in Nat /\ gen \in Nat
    BY ScopeTypes
  <2>2. live = coord.inc =>
          ForegroundMethod(coord, NoteSessionMeta(coord, live, conv, caps, gen).c,
                           Observers)
    BY <1>0, <2>1, MetaReceipt
  <2>. QED  BY <1>1, <1>5, <2>2 DEF Meta
<1>6. ASSUME NEW cmd \in Cmds, NEW gen \in Gens,
             \/ Admitted(cmd, gen) \/ Rejected(cmd, gen) \/ Abandoned(cmd, gen)
             \/ Mismatch(cmd, gen) \/ Result(cmd, gen) \/ LegacyTerminal(cmd, gen)
             \/ SdkQueued(cmd, gen) \/ SdkStarted(cmd, gen) \/ SdkTerminal(cmd, gen)
      PROVE  CoordInv' /\ CoordStep
  BY <1>2, <1>6 DEF Admitted, Rejected, Abandoned, Mismatch, Result, LegacyTerminal,
                    SdkQueued, SdkStarted, SdkTerminal
<1>7. ASSUME NEW cmd \in Cmds, SdkUnknown(cmd) \/ QueryDied(cmd)
      PROVE  CoordInv' /\ CoordStep
  BY <1>4, <1>7 DEF SdkUnknown, QueryDied
<1>8. ASSUME NEW cmd \in Cmds \cup {0}, ProtocolError(cmd)
      PROVE  CoordInv' /\ CoordStep
  BY <1>4, <1>8 DEF ProtocolError
<1>9. CASE ErrorStatus
  BY <1>4, <1>9 DEF ErrorStatus
<1>. QED  BY <1>3, <1>5, <1>6, <1>7, <1>8, <1>9 DEF Receipts

\* What a lane action leaves of the record; only what is unwritten may fail freely.
LEMMA LaneSteps ==
  ASSUME CoordInv, Lanes
  PROVE  CoordInv' /\ CoordStep
<1>0. RecordOK(coord, Observers) /\ coord \in CoordType(Observers)
  BY DEF CoordInv, RecordOK
<1>1. ASSUME NEW k, Becomes(k), Method(coord, k, Observers), SameIds(coord, k),
             coord.perm.id \in written => BarrierKept(coord.perm, k.perm),
             k.inc = coord.inc
      PROVE  CoordInv' /\ CoordStep
  BY <1>1, BecomesStep
<1>2. ASSUME NEW inc \in Incs, NEW id \in Reqs \cup Replies, NEW k,
             id \notin asked, Ask(k, id),
             \/ k = BeginSettings(coord, id, inc)
             \/ k = BeginPermission(coord, id, inc)
             \/ k = BeginInteractive(coord, id, inc)
      PROVE  CoordInv' /\ CoordStep
  <2>1. inc \in Nat \ {0} /\ id \in Nat \ {0}
    BY ScopeTypes
  <2>2. id \notin {coord.settings.id, coord.perm.id}
    BY <1>2, <2>1 DEF CoordInv
  <2>3. /\ Method(coord, k, Observers)
        /\ k.settings.id \in {coord.settings.id, id}
        /\ k.perm.id \in {coord.perm.id, id}
        /\ k.steer = coord.steer
        /\ BarrierKept(coord.perm, k.perm)
    BY <1>0, <1>2, <2>1, <2>2, Beginning
  <2>4. k.inc = coord.inc \/ live = 0
    <3>1. CASE StaleFor(coord, inc)
      BY <1>2, <3>1 DEF BeginSettings, BeginPermission, BeginInteractive
    <3>2. CASE ~StaleFor(coord, inc) /\ live # 0
      <4>1. coord.inc = inc /\ Adopt(coord, inc) = coord
        BY <3>2 DEF StaleFor, CoordInv, Adopt
      <4>2. CASE k = BeginSettings(coord, id, inc)
        BY <1>0, <4>1, <4>2 DEF BeginSettings, Bump, CoordType
      <4>3. CASE k = BeginPermission(coord, id, inc)
        BY <1>0, <4>1, <4>3 DEF BeginPermission, Bump, CoordType
      <4>4. CASE k = BeginInteractive(coord, id, inc)
        BY <1>0, <4>1, <4>4 DEF BeginInteractive, Bump, CoordType
      <4>. QED  BY <1>2, <4>2, <4>3, <4>4
    <3>. QED  BY <3>1, <3>2
  <2>. QED  BY <1>2, <2>3, <2>4, AskStep
<1>3. ASSUME NEW inc \in Incs,
             \/ \E id \in SettingsReqs : AskSettings(inc, id)
             \/ \E id \in PermReqs : AskPermission(inc, id)
             \/ \E id \in Replies : AskReply(inc, id)
      PROVE  CoordInv' /\ CoordStep
  BY <1>2, <1>3 DEF AskSettings, AskPermission, AskReply, Fresh, Reqs
<1>4. ASSUME NEW inc \in Nat, NEW id \in Reqs,
             \/ SettingsNotSent(inc, id)
             \/ SettingsUnknown(inc, id)
             \/ PermissionUnchanged(id)
      PROVE  CoordInv' /\ CoordStep
  <2>1. id # 0
    BY ScopeTypes
  <2>2. ASSUME NEW i, NEW state \in {"Failed", "ReconcileRequired"},
               Becomes(NoteSettings(coord, id, i, state)),
               \/ state = "ReconcileRequired"
               \/ coord.perm.id = id => coord.perm.failAck \/ id \notin written
        PROVE  CoordInv' /\ CoordStep
    <3>. DEFINE k == NoteSettings(coord, id, i, state)
    <3>1. /\ Method(coord, k, Observers) /\ SameIds(coord, k)
          /\ \/ state = "ReconcileRequired"
             \/ coord.perm.id # id
             \/ coord.perm.failAck
             => BarrierKept(coord.perm, k.perm)
      BY <1>0, <2>1, SettingsNoted
    <3>2. coord.perm.id \in written => BarrierKept(coord.perm, k.perm)
      BY <2>2, <3>1
    <3>3. k.inc = coord.inc
      BY <1>0 DEF NoteSettings, InLane, Bump, CoordType
    <3>. HIDE DEF k
    <3>4. Becomes(k)
      BY <2>2 DEF k
    <3>. QED  BY <1>1, <3>1, <3>2, <3>3, <3>4
  <2>. QED  BY <1>4, <2>2 DEF SettingsNotSent, SettingsUnknown, PermissionUnchanged
<1>5. ASSUME NEW id \in Reqs, WriteSettings(id)
      PROVE  CoordInv' /\ CoordStep
  <2>1. /\ coord' = coord
        /\ UNCHANGED <<live, lastInc, asked, scope>>
    BY <1>5 DEF WriteSettings
  <2>2. Method(coord, coord', Observers) /\ BarrierKept(coord.perm, coord'.perm)
    BY <1>0, <2>1, Idling
  <2>3. /\ lastInc' \in Nat /\ live' \in Nat /\ (live' # 0 => coord'.inc = live')
        /\ {coord'.settings.id, coord'.perm.id, coord'.steer.cmd}
             \subseteq asked' \cup {0}
    BY <2>1 DEF CoordInv
  <2>. QED  BY <2>1, <2>2, <2>3, MethodStep
<1>6. ASSUME NEW id \in Reqs, GiveUpWaiting(id)
      PROVE  CoordInv' /\ CoordStep
  <2>. DEFINE k == SettingsTimeout(coord, id)
  <2>1. id # 0
    BY ScopeTypes
  <2>2. /\ Method(coord, k, Observers) /\ SameIds(coord, k)
        /\ BarrierKept(coord.perm, k.perm)
    BY <1>0, <2>1, SettingsTimedOut
  <2>3. k.inc = coord.inc
    BY <1>0 DEF SettingsTimeout, InLane, Bump, CoordType
  <2>4. Becomes(k)
    BY <1>6 DEF GiveUpWaiting
  <2>. HIDE DEF k
  <2>. QED  BY <1>1, <2>2, <2>3, <2>4
<1>7. ASSUME NEW id \in Reqs, NEW wire, NEW gen \in 0..MaxGen,
             SettingsAck(id, wire, gen)
      PROVE  CoordInv' /\ CoordStep
  <2>. DEFINE k == NoteSettingsAck(coord, id, coord.inc, wire, gen).c
  <2>1. id # 0 /\ gen \in Nat
    BY ScopeTypes
  <2>2. /\ Method(coord, k, Observers) /\ SameIds(coord, k)
        /\ BarrierKept(coord.perm, k.perm)
    BY <1>0, <2>1, SettingsAnswered
  <2>3. live = coord.inc /\ live # 0 /\ Becomes(k)
    BY <1>7 DEF SettingsAck, Receipt, CoordInv
  <2>. HIDE DEF k
  <2>4. k.inc = coord.inc
    <3>1. k = coord \/ k.inc = coord.inc
      BY <1>0 DEF k, NoteSettingsAck, Ignored, Updated, Poison, SetPhase, InLane,
                  Bump, CoordType
    <3>. QED  BY <3>1
  <2>. QED  BY <1>1, <2>2, <2>3, <2>4
<1>8. ASSUME NEW inc \in Incs, NEW id \in Replies, ReplyFailed(inc, id)
      PROVE  CoordInv' /\ CoordStep
  <2>. DEFINE k == InteractiveFailed(coord, id, inc)
  <2>1. /\ Method(coord, k, Observers) /\ SameIds(coord, k)
        /\ BarrierKept(coord.perm, k.perm)
    BY <1>0, ReplyNoted, 0 \in Nat
  <2>2. k.inc = coord.inc
    BY <1>0 DEF InteractiveFailed, Bump, CoordType
  <2>3. Becomes(k)
    BY <1>8 DEF ReplyFailed
  <2>. HIDE DEF k
  <2>. QED  BY <1>1, <2>1, <2>2, <2>3
<1>9. ASSUME NEW id \in Replies, NEW wire, NEW gen \in Gens, ReplyAck(id, wire, gen)
      PROVE  CoordInv' /\ CoordStep
  <2>. DEFINE k == NoteInteractiveAck(coord, id, coord.inc, wire, gen).c
  <2>1. gen \in Nat
    BY ScopeTypes
  <2>2. /\ Method(coord, k, Observers) /\ SameIds(coord, k)
        /\ BarrierKept(coord.perm, k.perm)
    BY <1>0, <2>1, ReplyNoted
  <2>3. live = coord.inc /\ Becomes(k)
    BY <1>9 DEF ReplyAck, Receipt, CoordInv
  <2>4. k.inc = coord.inc
    BY <1>0 DEF NoteInteractiveAck, Ignored, Updated, Poison, SetPhase, Bump, CoordType
  <2>. HIDE DEF k
  <2>. QED  BY <1>1, <2>2, <2>3, <2>4
<1>10. PermReqs \subseteq Reqs /\ Incs \subseteq Nat
  BY ScopeTypes DEF Reqs
<1>. QED  BY <1>3, <1>4, <1>5, <1>6, <1>7, <1>8, <1>9, <1>10 DEF Lanes

\* A steered prompt is fresh, so it is not the one in the lane.
LEMMA SteeringSteps ==
  ASSUME CoordInv, Steering
  PROVE  CoordInv' /\ CoordStep
<1>0. RecordOK(coord, Observers) /\ coord \in CoordType(Observers)
  BY DEF CoordInv, RecordOK
<1>1. ASSUME NEW inc \in Incs, NEW cmd \in SteerCmds, Steer(inc, cmd)
      PROVE  CoordInv' /\ CoordStep
  <2>1. inc \in Nat /\ cmd \in Nat \ {0}
    BY ScopeTypes
  <2>2. /\ cmd \notin asked /\ SteerVerdict(coord, inc, coord.active.cmd) = "ok"
        /\ coord' = ReserveSteer(coord, inc, coord.active.cmd, cmd)
        /\ asked' = asked \cup {cmd}
        /\ UNCHANGED <<live, lastInc, written, scope>>
    BY <1>1 DEF Steer, Fresh
  <2>3. cmd # coord.steer.cmd
    BY <2>1, <2>2 DEF CoordInv
  <2>4. /\ Method(coord, coord', Observers) /\ BarrierKept(coord.perm, coord'.perm)
        /\ coord'.settings = coord.settings /\ coord'.perm = coord.perm
        /\ coord'.steer.cmd = cmd
    BY <1>0, <2>1, <2>2, <2>3, Reserving
  <2>5. coord'.inc = coord.inc
    BY <1>0, <2>2 DEF ReserveSteer, Bump, CoordType
  <2>6. /\ lastInc' \in Nat /\ live' \in Nat /\ (live' # 0 => coord'.inc = live')
        /\ {coord'.settings.id, coord'.perm.id, coord'.steer.cmd}
             \subseteq asked' \cup {0}
    BY <2>2, <2>4, <2>5 DEF CoordInv
  <2>. QED  BY <2>2, <2>4, <2>6, MethodStep
<1>2. ASSUME NEW k, Becomes(k), NEW cmd, NEW gen, NEW accepted \in BOOLEAN,
             \/ k = NoteSteerReceipt(coord, coord.inc, cmd, gen, accepted).c
             \/ k = SteerWaited(coord, cmd)
      PROVE  CoordInv' /\ CoordStep
  <2>1. /\ Method(coord, k, Observers) /\ SameIds(coord, k)
        /\ BarrierKept(coord.perm, k.perm)
    BY <1>0, <1>2, SteerNoted
  <2>2. k.inc = coord.inc
    BY <1>0, <1>2 DEF NoteSteerReceipt, SteerWaited, Ignored, Updated, Bump, CoordType
  <2>. QED  BY <1>2, <2>1, <2>2, BecomesStep
<1>3. ASSUME NEW cmd \in SteerCmds, NEW gen \in Gens, NEW accepted \in BOOLEAN,
             SteerReceipt(cmd, gen, accepted)
      PROVE  CoordInv' /\ CoordStep
  BY <1>2, <1>3 DEF SteerReceipt, Receipt, CoordInv
<1>4. ASSUME NEW cmd \in SteerCmds, SteerReturns(cmd)
      PROVE  CoordInv' /\ CoordStep
  BY <1>2, <1>4 DEF SteerReturns
<1>. QED  BY <1>1, <1>3, <1>4 DEF Steering

\* Every step keeps the invariant and does to the record only what is allowed.
LEMMA NextCoordInv ==
  ASSUME CoordInv, [Next]_vars
  PROVE  CoordInv' /\ CoordStep
<1>1. CASE Next
  BY <1>1, HelperSteps, LocalSteps, ReceiptSteps, LaneSteps, SteeringSteps DEF Next
<1>2. CASE UNCHANGED vars
  <2>1. UNCHANGED <<coord, live, lastInc, asked, written, scope>>
    BY <1>2 DEF vars
  <2>2. Method(coord, coord', Observers) /\ BarrierKept(coord.perm, coord'.perm)
    BY <2>1, Idling DEF CoordInv
  <2>3. /\ lastInc' \in Nat /\ live' \in Nat /\ (live' # 0 => coord'.inc = live')
        /\ {coord'.settings.id, coord'.perm.id, coord'.steer.cmd}
             \subseteq asked' \cup {0}
    BY <2>1 DEF CoordInv
  <2>. QED  BY <2>1, <2>2, <2>3, MethodStep
<1>. QED  BY <1>1, <1>2

-----------------------------------------------------------------------------
(* The theorems.                                                           *)

\* The record keeps its type and its facts, for any instances.
THEOREM Invariance == Spec => []CoordInv
<1>1. Init => CoordInv
  BY InitCoordInv
<1>2. CoordInv /\ [Next]_vars => CoordInv'
  BY NextCoordInv
<1>. QED  BY <1>1, <1>2, PTL DEF Spec

\* No retirement, restart or late receipt leaves the command of another helper
\* with the look of a running one.
THEOREM DoubtHolds == Spec => []DoubtOnRetirement
<1>1. CoordInv => DoubtOnRetirement
  BY DEF CoordInv, RecordOK, OwnerOK, DoubtOnRetirement
<1>. QED  BY <1>1, Invariance, PTL

\* Whatever lane callers choose, one settings request at most awaits its answer.
THEOREM OneOnTheWire == Spec => []OneRequestOnTheWire
<1>1. CoordInv => OneRequestOnTheWire
  BY DEF CoordInv, RecordOK, LanesOK, OneRequestOnTheWire
<1>. QED  BY <1>1, Invariance, PTL

\* However helpers come and go, no request waits for one that is gone.
THEOREM NoVainWait == Spec => []NoWaitForRetiredHelper
<1>1. CoordInv => NoWaitForRetiredHelper
  BY DEF CoordInv, RecordOK, LanesOK, WaitsFor, NoWaitForRetiredHelper
<1>. QED  BY <1>1, Invariance, PTL

\* The foreground passes from one command to another only by being empty.
THEOREM ForegroundIsExclusive == Spec => OwnershipIsExclusive
<1>1. CoordInv /\ [Next]_vars =>
        [HasActive(coord) /\ HasActive(coord)' =>
           /\ coord'.active.cmd = coord.active.cmd
           /\ coord'.active.inc = coord.active.inc]_vars
  BY NextCoordInv DEF CoordStep, ForegroundStep, HasActive
<1>. QED  BY <1>1, Invariance, PTL DEF Spec, OwnershipIsExclusive

\* No step clears the last blocker of the FIFO without advancing the revision.
THEOREM BlockersAreAnnounced == Spec => ClearedBlockerIsAnnounced
<1>1. CoordInv /\ [Next]_vars =>
        [~Drainable(coord) /\ Drainable(coord') => coord'.quiet = {}]_vars
  BY NextCoordInv DEF CoordStep, ForegroundStep
<1>. QED  BY <1>1, Invariance, PTL DEF Spec, ClearedBlockerIsAnnounced

\* An older query takes nothing back: not the generation, not the binding of a
\* command, not the poisoning of the adapter.
THEOREM OldQueriesAreInert == Spec => OldQueryIsInert
<1>1. CoordInv /\ [Next]_vars =>
        [/\ coord.inc # 0 /\ coord'.inc = coord.inc =>
              /\ coord'.gen >= coord.gen
              /\ coord.adapter = "Poisoned" /\ coord'.adapter # "Poisoned" =>
                   coord'.gen > coord.gen
         /\ coord.active.cmd # 0 /\ coord.active.gen # 0 /\ coord'.active.cmd # 0 =>
              coord'.active.gen = coord.active.gen]_vars
  BY NextCoordInv DEF CoordStep, ForegroundStep, HasActive
<1>. QED  BY <1>1, Invariance, PTL DEF Spec, OldQueryIsInert

\* A late "applied" never settles a request that has to be reconciled.
THEOREM DoubtIsKept == Spec => DoubtSurvivesLateAck
<1>1. CoordInv /\ [Next]_vars =>
        [\A lane \in {"settings", "perm"} :
           /\ coord[lane].state = "ReconcileRequired"
           /\ coord'[lane].id = coord[lane].id
           => coord'[lane].state \in {"ReconcileRequired", "Failed"}]_vars
  <2>. SUFFICES ASSUME CoordInv, [Next]_vars, NEW lane \in {"settings", "perm"},
                       coord[lane].state = "ReconcileRequired",
                       coord'[lane].id = coord[lane].id
                PROVE  coord'[lane].state \in {"ReconcileRequired", "Failed"}
    OBVIOUS
  <2>1. DoubtKept(coord.settings, coord'.settings) /\ DoubtKept(coord.perm, coord'.perm)
    BY NextCoordInv DEF CoordStep, LaneStep
  <2>2. CASE lane = "settings"
    BY <2>1, <2>2 DEF DoubtKept
  <2>3. CASE lane = "perm"
    BY <2>1, <2>3 DEF DoubtKept
  <2>. QED  BY <2>2, <2>3
<1>. QED  BY <1>1, Invariance, PTL DEF Spec, DoubtSurvivesLateAck

\* Once written, a permission change is lifted by its application or by the host
\* after the correlated failure receipt, by nothing else.
THEOREM BarrierHolds == Spec => PermissionBarrier
<1>1. CoordInv /\ [Next]_vars =>
        [/\ coord.perm.id \in written /\ coord'.perm.id = coord.perm.id
         /\ BlocksDispatch(coord.perm) /\ ~BlocksDispatch(coord'.perm)
         => coord'.perm.state = "Applied" \/ coord.perm.failAck]_vars
  BY NextCoordInv DEF CoordStep, BarrierKept
<1>. QED  BY <1>1, Invariance, PTL DEF Spec, PermissionBarrier

\* A steer is decided once, and its lane stays with the thread that waits on it.
THEOREM SteersAreDecidedOnce == Spec => SteerIsDecidedOnce
<1>1. CoordInv /\ [Next]_vars =>
        [/\ coord.steer.cmd # 0 /\ ~coord.steer.waiterFinished =>
              coord'.steer.cmd = coord.steer.cmd
         /\ coord.steer.cmd # 0 /\ coord'.steer.cmd = coord.steer.cmd
            /\ coord.steer.state \in {"Accepted", "Rejected"} =>
              coord'.steer.state = coord.steer.state]_vars
  BY NextCoordInv DEF CoordStep, LaneStep, SteerKept
<1>. QED  BY <1>1, Invariance, PTL DEF Spec, SteerIsDecidedOnce
=============================================================================
