---------------------------- MODULE InputQueueOps ----------------------------
(***************************************************************************)
(* The prompt FIFO of one managed Claude runtime                           *)
(* (apps/desktop/src-tauri/src/native_input_queue.rs), as functions from   *)
(* the queue to the queue.  Every method but clear holds the queue mutex   *)
(* from its first read to its last write, so each is one function here;    *)
(* the modules that use them decide who calls what, when.                  *)
(*                                                                         *)
(* A queue is a sequence of batches.  A batch holds the client message ids *)
(* merged into it; text, images and annotations ride along unchanged and   *)
(* are left out.  Wire command ids are numbers drawn from a counter, 0     *)
(* being "no id"; a merge fence is a number too, 0 being "never merge".    *)
(***************************************************************************)
EXTENDS Naturals, Sequences, SequencesExt

CONSTANT Msgs          \* client message ids

NoCmd   == 0           \* dispatch_command_id = None
NoFence == 0           \* merge_fence = None

DeliveryState == {"Pending", "Dispatching", "DeliveryUncertain"}

\* The two states in which a batch is owned by a delivery attempt.
Claimed == {"Dispatching", "DeliveryUncertain"}

Batch(Fences) ==
  [msgs : Seq(Msgs), fence : Fences, state : DeliveryState,
   attempt : Nat, cmd : Nat]

NewBatch(m, fence) ==
  [msgs |-> <<m>>, fence |-> fence, state |-> "Pending",
   attempt |-> 0, cmd |-> NoCmd]

MembersOf(b) == {b.msgs[x] : x \in DOMAIN b.msgs}

\* Every message the queue still owns: what the renderer's snapshot shows.
Queued(q) == UNION {MembersOf(q[i]) : i \in DOMAIN q}

\* A place is a batch and a position in it; places are compared by batch first.
Before(i, x, j, y) == i < j \/ (i = j /\ x < y)

\* No later place of the queue holds the message of this one again.
LastCopy(q, i, x) ==
  \A j \in DOMAIN q : \A y \in DOMAIN q[j].msgs :
    Before(i, x, j, y) => q[j].msgs[y] # q[i].msgs[x]

-----------------------------------------------------------------------------
\* The head is claimed by wire id c and is in one of the given states.
HeadOwnedBy(q, c, states) ==
  /\ q # <<>>
  /\ q[1].cmd = c
  /\ c # NoCmd
  /\ q[1].state \in states

\* The head is the very claim (message, attempt) a dispatcher was handed.
HeadClaimedAs(q, m, attempt) ==
  /\ q # <<>>
  /\ m \in MembersOf(q[1])
  /\ q[1].attempt = attempt
  /\ q[1].state = "Dispatching"

\* Mutant: a prompt joins a batch that is already out for delivery.
MergesIntoAnyTail(q, fence) ==
  fence # NoFence /\ q # <<>> /\ q[Len(q)].fence = fence

\* enqueue: a prompt joins the tail batch only while that batch is Pending and
\* was queued behind the same foreground command or settings operation.
MergesIntoTail(q, fence) ==
  /\ fence # NoFence
  /\ q # <<>>
  /\ q[Len(q)].state = "Pending"
  /\ q[Len(q)].fence = fence

Enqueued(q, m, fence) ==
  IF MergesIntoTail(q, fence)
  THEN [q EXCEPT ![Len(q)].msgs = Append(@, m)]
  ELSE Append(q, NewBatch(m, fence))

\* claim_next on a Pending head: a new attempt under a fresh wire id.
Claimable(q) == q # <<>> /\ q[1].state = "Pending"

\* Mutants: a retry goes out under its old id; the newest batch goes first.
ClaimUnderOldId(q, c) ==
  [q EXCEPT ![1].state = "Dispatching", ![1].attempt = @ + 1,
            ![1].cmd = IF @ = NoCmd THEN c ELSE @]

ClaimNewest(q, c) ==
  [q EXCEPT ![Len(q)].state = "Dispatching", ![Len(q)].attempt = @ + 1,
            ![Len(q)].cmd = c]

ClaimHead(q, c) ==
  [q EXCEPT ![1].state = "Dispatching", ![1].attempt = @ + 1, ![1].cmd = c]

\* confirm_admitted: a correlated helper fact removes the exact head, also one
\* that a local timeout had already marked uncertain.
ConfirmAdmitted(q, c) == IF HeadOwnedBy(q, c, Claimed) THEN Tail(q) ELSE q

\* Mutants: a rejected prompt is dropped, or goes to the end of the line.
DropRejected(q, c) == IF HeadOwnedBy(q, c, Claimed) THEN Tail(q) ELSE q

RequeueRejected(q, c) ==
  IF HeadOwnedBy(q, c, Claimed)
  THEN Append(Tail(q), [q[1] EXCEPT !.state = "Pending", !.cmd = NoCmd])
  ELSE q

\* confirm_rejected: the exact head becomes replayable again, without an id.
ConfirmRejected(q, c) ==
  IF HeadOwnedBy(q, c, Claimed)
  THEN [q EXCEPT ![1].state = "Pending", ![1].cmd = NoCmd]
  ELSE q

\* Mutant: a claim that was not written is dropped.
DropReleased(q, m, attempt) == IF HeadClaimedAs(q, m, attempt) THEN Tail(q) ELSE q

\* release_dispatch: the claim was not written, the id is dropped.
ReleaseDispatch(q, m, attempt) ==
  IF HeadClaimedAs(q, m, attempt)
  THEN [q EXCEPT ![1].state = "Pending", ![1].cmd = NoCmd]
  ELSE q

\* release_not_started: the same, but the wire id is kept for an exact Stop.
ReleaseNotStarted(q, m, c, attempt) ==
  IF HeadClaimedAs(q, m, attempt) /\ HeadOwnedBy(q, c, {"Dispatching"})
  THEN [q EXCEPT ![1].state = "Pending"]
  ELSE q

\* mark_command_delivery_uncertain and mark_dispatch_delivery_uncertain.
MarkCommandUncertain(q, c) ==
  IF HeadOwnedBy(q, c, {"Dispatching"})
  THEN [q EXCEPT ![1].state = "DeliveryUncertain"]
  ELSE q

MarkDispatchUncertain(q, c, attempt) ==
  IF HeadOwnedBy(q, c, {"Dispatching"}) /\ q[1].attempt = attempt
  THEN [q EXCEPT ![1].state = "DeliveryUncertain"]
  ELSE q

\* Mutant: a batch that may have been written is put back.
ReleaseUncertain(q, m, attempt) ==
  IF HeadClaimedAs(q, m, attempt)
  THEN [q EXCEPT ![1].state = "Pending", ![1].cmd = NoCmd]
  ELSE q

\* mark_claim_delivery_uncertain looks for the first batch that holds the
\* message; a batch behind the head is never Dispatching.
MarkClaimUncertain(q, m, attempt) ==
  [i \in DOMAIN q |->
     IF /\ m \in MembersOf(q[i])
        /\ q[i].attempt = attempt
        /\ q[i].state = "Dispatching"
     THEN [q[i] EXCEPT !.state = "DeliveryUncertain"]
     ELSE q[i]]

\* remove_dispatch: an exact-id Stop takes the head out in any state.
RemoveDispatch(q, c) == IF HeadOwnedBy(q, c, DeliveryState) THEN Tail(q) ELSE q

\* cancel_pending: the first batch that holds m, and the queue without m's first
\* place.
HolderOf(q, m) ==
  CHOOSE i \in DOMAIN q : /\ m \in MembersOf(q[i])
                          /\ \A j \in DOMAIN q : j < i => m \notin MembersOf(q[j])

\* Mutant: what is out for delivery can still be cancelled.
CancellableAnytime(q, m) == m \in Queued(q)

Cancellable(q, m) ==
  /\ m \in Queued(q)
  /\ q[HolderOf(q, m)].state = "Pending"

PositionIn(b, m) ==
  CHOOSE x \in DOMAIN b.msgs : /\ b.msgs[x] = m
                               /\ \A y \in DOMAIN b.msgs : y < x => b.msgs[y] # m

CancelPending(q, m) ==
  LET i == HolderOf(q, m)
  IN  IF Len(q[i].msgs) = 1
      THEN RemoveAt(q, i)
      ELSE [q EXCEPT ![i].msgs = RemoveAt(@, PositionIn(q[i], m))]
=============================================================================
