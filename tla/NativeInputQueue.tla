--------------------------- MODULE NativeInputQueue ---------------------------
(***************************************************************************)
(* NativeInputQueue under every caller: any thread may call any operation  *)
(* at any time with any id it ever held, so that a dispatcher that is late,*)
(* a receipt that arrives twice and a Stop that races both are all here.   *)
(* What the callers really do is the matter of NativeSession.              *)
(*                                                                         *)
(* seen is the idempotency ledger (seen_client_message_ids), under a mutex *)
(* of its own: enqueue holds both, clear takes one after the other.  The   *)
(* payload fingerprint the code keeps per id only chooses the wording of   *)
(* the refusal.  The other variables are history.  order is the number of  *)
(* a message's last acceptance, 0 if there was none; admitted and          *)
(* withdrawn are the messages that left the queue as accepted by the       *)
(* helper, or by cancel, Stop or clear; forgotten are those whose ledger   *)
(* entry a clear erased while they were queued.                            *)
(***************************************************************************)
EXTENDS InputQueueOps, FiniteSets

CONSTANTS Fences,      \* merge fences in use, NoFence among them
          MaxClaims,   \* bound on the fresh wire ids drawn
          MaxClears    \* bound on clears of the runtime

ASSUME FencesAssumption == NoFence \in Fences
ASSUME BoundsAssumption == MaxClaims \in Nat /\ MaxClears \in Nat

VARIABLES queue, seen, lastCmd,
          clears, clearing,      \* clears begun, and those between their locks
          order, accepted, admitted, withdrawn, forgotten
clearVars == <<clears, clearing>>
account == <<order, accepted, forgotten>>
vars == <<queue, seen, lastCmd, clearVars, account, admitted, withdrawn>>

Init ==
  /\ queue = <<>>
  /\ seen = {}
  /\ lastCmd = NoCmd
  /\ clears = 0 /\ clearing = 0
  /\ order = [m \in Msgs |-> 0]
  /\ accepted = 0
  /\ admitted = {} /\ withdrawn = {} /\ forgotten = {}

Wire == 1..lastCmd
Attempt == 1..lastCmd

-----------------------------------------------------------------------------
\* Mutant: a message merged into the tail is not entered into the ledger.
EnqueueUnlisted(m, fence) ==
  /\ m \notin seen
  /\ seen' = IF MergesIntoTail(queue, fence) THEN seen ELSE seen \cup {m}
  /\ queue' = Enqueued(queue, m, fence)
  /\ order' = [order EXCEPT ![m] = accepted + 1]
  /\ accepted' = accepted + 1
  /\ withdrawn' = withdrawn \ {m}
  /\ admitted' = admitted \ {m}
  /\ forgotten' = forgotten \ ({m} \ Queued(queue))
  /\ UNCHANGED <<lastCmd, clearVars>>

\* enqueue: a known id is refused, as a duplicate or as a conflict.  An id that
\* is not queued starts its account anew.
Enqueue(m, fence) ==
  /\ m \notin seen
  /\ seen' = seen \cup {m}
  /\ queue' = Enqueued(queue, m, fence)
  /\ order' = [order EXCEPT ![m] = accepted + 1]
  /\ accepted' = accepted + 1
  /\ withdrawn' = withdrawn \ {m}
  /\ admitted' = admitted \ {m}
  /\ forgotten' = forgotten \ ({m} \ Queued(queue))
  /\ UNCHANGED <<lastCmd, clearVars>>

\* Mutant: a claim draws two ids.
ClaimTwice ==
  /\ lastCmd < MaxClaims
  /\ Claimable(queue)
  /\ lastCmd' = lastCmd + 2
  /\ queue' = ClaimHead(queue, lastCmd + 2)
  /\ UNCHANGED <<seen, clearVars, account, admitted, withdrawn>>

Claim ==
  /\ lastCmd < MaxClaims
  /\ Claimable(queue)
  /\ lastCmd' = lastCmd + 1
  /\ queue' = ClaimHead(queue, lastCmd + 1)
  /\ UNCHANGED <<seen, clearVars, account, admitted, withdrawn>>

\* What an operation on the head took out: nothing, or the head.
Taken(q) == IF q = queue THEN {} ELSE MembersOf(queue[1])

Admit(c) ==
  /\ queue' = ConfirmAdmitted(queue, c)
  /\ admitted' = admitted \cup Taken(ConfirmAdmitted(queue, c))
  /\ UNCHANGED <<seen, lastCmd, clearVars, account, withdrawn>>

\* Operations that hand the head back or change its state, but keep it.
Keep(q) ==
  /\ queue' = q
  /\ UNCHANGED <<seen, lastCmd, clearVars, account, admitted, withdrawn>>

Reject(c) == Keep(ConfirmRejected(queue, c))
Release(m, a) == Keep(ReleaseDispatch(queue, m, a))
NotStarted(m, c, a) == Keep(ReleaseNotStarted(queue, m, c, a))
UncertainCommand(c) == Keep(MarkCommandUncertain(queue, c))
UncertainDispatch(c, a) == Keep(MarkDispatchUncertain(queue, c, a))
UncertainClaim(m, a) == Keep(MarkClaimUncertain(queue, m, a))

Withdraw(q, gone) ==
  /\ queue' = q
  /\ withdrawn' = withdrawn \cup gone
  /\ UNCHANGED <<seen, lastCmd, account, admitted>>

Stop(c) ==
  /\ Withdraw(RemoveDispatch(queue, c), Taken(RemoveDispatch(queue, c)))
  /\ UNCHANGED clearVars

Cancel(m) ==
  /\ Cancellable(queue, m)
  /\ Withdraw(CancelPending(queue, m), {m})
  /\ UNCHANGED clearVars

\* clear empties the queue under one mutex and forgets the ledger under the
\* other: between the two a message may be enqueued, and is forgotten with the
\* rest, so that its id may be submitted again while it is queued.
ClearQueue ==
  /\ clears < MaxClears
  /\ clears' = clears + 1
  /\ clearing' = clearing + 1
  /\ Withdraw(<<>>, Queued(queue))

ClearLedger ==
  /\ clearing > 0
  /\ clearing' = clearing - 1
  /\ seen' = {}
  /\ forgotten' = forgotten \cup Queued(queue)
  /\ UNCHANGED <<queue, lastCmd, clears, order, accepted, admitted, withdrawn>>

Next ==
  \/ \E m \in Msgs, f \in Fences : Enqueue(m, f)
  \/ Claim
  \/ \E c \in Wire : Admit(c)
  \/ \E c \in Wire : Reject(c)
  \/ \E m \in Msgs, a \in Attempt : Release(m, a)
  \/ \E m \in Msgs, c \in Wire, a \in Attempt : NotStarted(m, c, a)
  \/ \E c \in Wire : UncertainCommand(c)
  \/ \E c \in Wire, a \in Attempt : UncertainDispatch(c, a)
  \/ \E m \in Msgs, a \in Attempt : UncertainClaim(m, a)
  \/ \E c \in Wire : Stop(c)
  \/ \E m \in Msgs : Cancel(m)
  \/ ClearQueue
  \/ ClearLedger

Spec == Init /\ [][Next]_vars

-----------------------------------------------------------------------------
\* Every variable stays in its type, and the counters stay within their bounds.
TypeOK ==
  /\ queue \in Seq(Batch(Fences))
  /\ seen \subseteq Msgs
  /\ lastCmd \in 0..MaxClaims
  /\ clears \in 0..MaxClears
  /\ clearing \in 0..clears
  /\ order \in [Msgs -> Nat]
  /\ accepted \in Nat
  /\ admitted \subseteq Msgs
  /\ withdrawn \subseteq Msgs
  /\ forgotten \subseteq Msgs

\* Only the head of the FIFO is ever out for delivery: every batch behind it is
\* Pending, was never attempted and holds no wire id.  All the head-only
\* lookups of native_input_queue.rs (confirm_admitted, confirm_rejected,
\* remove_dispatch) rely on it: a claim behind the head could never be resolved.
OnlyHeadIsOut ==
  \A i \in DOMAIN queue : i > 1 =>
    /\ queue[i].state = "Pending"
    /\ queue[i].attempt = 0
    /\ queue[i].cmd = NoCmd

\* A batch out for delivery carries the wire id of its own claim, and no other
\* claim was drawn since: a receipt for an older id finds nothing to change.
ClaimCarriesNewestId ==
  queue # <<>> =>
    /\ (queue[1].state \in Claimed => queue[1].cmd = lastCmd /\ lastCmd # NoCmd)
    /\ queue[1].cmd <= lastCmd

\* A message that was accepted is still queued, accepted by the helper, or
\* withdrawn: nothing vanishes between two operations.  It is in one of these
\* places only, unless a clear forgot it while it was queued (clear drops one
\* mutex before it takes the other) and it could be submitted twice.
EachMessageAccounted ==
  \A m \in Msgs : order[m] # 0 =>
    /\ m \in Queued(queue) \cup admitted \cup withdrawn
    /\ m \notin forgotten =>
         /\ m \in Queued(queue) => m \notin admitted \cup withdrawn
         /\ m \in admitted => m \notin withdrawn

\* The queue holds messages in the order they were accepted, across and within
\* batches, whatever was merged, released, restored or cancelled.  A message
\* that is queued twice was last accepted at its last place.
FifoOrder ==
  \A i, j \in DOMAIN queue :
    \A x \in DOMAIN queue[i].msgs, y \in DOMAIN queue[j].msgs :
      Before(i, x, j, y) /\ LastCopy(queue, i, x) =>
        order[queue[i].msgs[x]] < order[queue[j].msgs[y]]

\* No message is queued twice: a retry of a queued message is refused as a duplicate
\* (enqueue), unless a clear erased its ledger entry while it was queued.
QueuedOnce ==
  \A i, j \in DOMAIN queue :
    \A x \in DOMAIN queue[i].msgs, y \in DOMAIN queue[j].msgs :
      Before(i, x, j, y) /\ queue[i].msgs[x] = queue[j].msgs[y] =>
        queue[i].msgs[x] \in forgotten

\* A batch that may have reached the helper is never changed by a cancel or by a
\* merge: while the head is out for delivery its messages are frozen.
ClaimedBatchIsFrozen ==
  [][\/ queue = <<>> \/ queue' = <<>>
     \/ queue[1].state \notin Claimed
     \/ queue'[1].msgs = queue[1].msgs
     \/ queue' = Tail(queue)]_vars
=============================================================================
