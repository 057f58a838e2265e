--------------------------- MODULE InputQueueLemmas ---------------------------
(***************************************************************************)
(* What the operations of the FIFO preserve, for every queue: stated once, *)
(* cited by the proofs of NativeInputQueue.  A result is a queue again, it *)
(* holds the messages it should, and it differs from the argument only     *)
(* where the operation may change it.                                      *)
(***************************************************************************)
EXTENDS InputQueueOps, SequenceTheorems, FiniteSetTheorems,
        TLAPS

\* Only the head may be out, so every batch behind it is as enqueued.
RestIsFresh(q) ==
  \A i \in DOMAIN q : i > 1 =>
    q[i].state = "Pending" /\ q[i].attempt = 0 /\ q[i].cmd = NoCmd

\* Queue r is queue q with other delivery fields in the head.
SameButHeadState(q, r) ==
  /\ q # <<>>
  /\ r # <<>>
  /\ DOMAIN r = DOMAIN q
  /\ r[1].msgs = q[1].msgs
  /\ \A i \in DOMAIN q : i > 1 => r[i] = q[i]

\* The head's delivery fields may be rewritten: the result is a queue, and it
\* holds the same messages.
LEMMA HeadRewritten ==
  ASSUME NEW F, NEW q \in Seq(Batch(F)), NEW r \in Seq(Batch(F)),
         SameButHeadState(q, r)
  PROVE  Queued(r) = Queued(q)
<1>1. \A i \in DOMAIN q : r[i].msgs = q[i].msgs
  <2>. TAKE i \in DOMAIN q
  <2>1. CASE i = 1  BY <2>1 DEF SameButHeadState
  <2>2. CASE i # 1
    <3>1. DOMAIN q = 1..Len(q) /\ Len(q) \in Nat  BY LenProperties
    <3>2. i > 1  BY <2>2, <3>1
    <3>. QED  BY <3>2 DEF SameButHeadState
  <2>. QED  BY <2>1, <2>2
<1>2. \A i \in DOMAIN q : MembersOf(r[i]) = MembersOf(q[i])
  BY <1>1 DEF MembersOf
<1>. QED  BY <1>2 DEF Queued, SameButHeadState

\* Dropping the head leaves a queue whose batches are the old ones, one place
\* further to the front.
LEMMA HeadDropped ==
  ASSUME NEW F, NEW q \in Seq(Batch(F)), q # <<>>
  PROVE  /\ Tail(q) \in Seq(Batch(F))
         /\ \A i \in DOMAIN Tail(q) : i + 1 \in DOMAIN q /\ i \in Nat \ {0}
                                      /\ Tail(q)[i] = q[i + 1]
         /\ Queued(Tail(q)) \subseteq Queued(q)
<1>1. /\ Tail(q) \in Seq(Batch(F))
      /\ Len(Tail(q)) = Len(q) - 1
      /\ \A i \in 1..Len(Tail(q)) : Tail(q)[i] = q[i + 1]
  BY HeadTailProperties
<1>2. /\ DOMAIN q = 1..Len(q) /\ Len(q) \in Nat
      /\ DOMAIN Tail(q) = 1..Len(Tail(q)) /\ Len(Tail(q)) \in Nat
  BY <1>1, LenProperties
<1>3. \A i \in DOMAIN Tail(q) : i + 1 \in DOMAIN q /\ i \in Nat \ {0}
                                /\ Tail(q)[i] = q[i + 1]
  BY <1>1, <1>2
<1>4. Queued(Tail(q)) \subseteq Queued(q)
  BY <1>3 DEF Queued
<1>. QED  BY <1>1, <1>3, <1>4

-----------------------------------------------------------------------------
(* Operations that keep the head and rewrite its delivery fields.          *)

\* Queue r may differ from q in the head, which is then out for delivery only if
\* it was out before, under the same wire id.
HeadSettled(q, r) ==
  /\ SameButHeadState(q, r)
  /\ r[1].state \in Claimed => q[1].state \in Claimed /\ r[1].cmd = q[1].cmd
  /\ r[1].cmd \in {q[1].cmd, NoCmd}

\* Another batch with the same messages in the head's place gives a queue.
LEMMA HeadUpdate ==
  ASSUME NEW F, NEW q \in Seq(Batch(F)), q # <<>>,
         NEW b \in Batch(F), b.msgs = q[1].msgs
  PROVE  /\ [q EXCEPT ![1] = b] \in Seq(Batch(F))
         /\ SameButHeadState(q, [q EXCEPT ![1] = b])
         /\ [q EXCEPT ![1] = b][1] = b
<1>. DEFINE r == [q EXCEPT ![1] = b]
<1>1. DOMAIN q = 1..Len(q) /\ Len(q) \in Nat \ {0}
  BY LenProperties, EmptySeq
<1>2. /\ r \in Seq(Batch(F)) /\ Len(r) = Len(q)
      /\ \A j \in 1..Len(q) : r[j] = IF j = 1 THEN b ELSE q[j]
  BY <1>1, ExceptSeq
<1>. HIDE DEF r
<1>3. r # <<>> /\ DOMAIN r = DOMAIN q
  BY <1>1, <1>2, LenProperties, EmptySeq
<1>4. r \in Seq(Batch(F)) /\ SameButHeadState(q, r) /\ r[1] = b
  BY <1>1, <1>2, <1>3 DEF SameButHeadState
<1>. QED  BY <1>4 DEF r

\* The head is released, restored or marked uncertain, or nothing happens.
LEMMA HeadKept ==
  ASSUME NEW F, NEW q \in Seq(Batch(F)), NEW m, NEW c, NEW a,
         NEW r, \/ r = ConfirmRejected(q, c)
                \/ r = ReleaseDispatch(q, m, a)
                \/ r = ReleaseNotStarted(q, m, c, a)
                \/ r = MarkCommandUncertain(q, c)
                \/ r = MarkDispatchUncertain(q, c, a)
  PROVE  /\ r \in Seq(Batch(F))
         /\ r = q \/ HeadSettled(q, r)
<1>1. CASE r = q
  BY <1>1
<1>2. ASSUME q # <<>>
      PROVE  q[1] \in Batch(F)
  BY <1>2, LenProperties, EmptySeq, ElementOfSeq
<1>3. CASE /\ q # <<>>
           /\ r = [q EXCEPT ![1].state = "Pending", ![1].cmd = NoCmd]
  <2>. DEFINE b == [q[1] EXCEPT !.state = "Pending", !.cmd = NoCmd]
  <2>1. r = [q EXCEPT ![1] = b]
    BY <1>3
  <2>2. /\ b \in Batch(F) /\ b.msgs = q[1].msgs
        /\ b.state = "Pending" /\ b.cmd = NoCmd
    BY <1>2, <1>3 DEF Batch, DeliveryState, NoCmd
  <2>. HIDE DEF b
  <2>3. /\ r \in Seq(Batch(F)) /\ SameButHeadState(q, r) /\ r[1] = b
    <3>1. q # <<>>
      BY <1>3
    <3>2. /\ [q EXCEPT ![1] = b] \in Seq(Batch(F))
          /\ SameButHeadState(q, [q EXCEPT ![1] = b])
          /\ [q EXCEPT ![1] = b][1] = b
      BY <2>2, <3>1, HeadUpdate
    <3>. QED  BY <2>1, <3>2
  <2>. QED  BY <2>2, <2>3 DEF HeadSettled, Claimed
<1>4. ASSUME q # <<>>, q[1].state \in Claimed, NEW s \in DeliveryState,
             r = [q EXCEPT ![1].state = s]
      PROVE  /\ r \in Seq(Batch(F))
             /\ HeadSettled(q, r)
  <2>. DEFINE b == [q[1] EXCEPT !.state = s]
  <2>1. r = [q EXCEPT ![1] = b]
    BY <1>4
  <2>2. /\ b \in Batch(F) /\ b.msgs = q[1].msgs /\ b.cmd = q[1].cmd
    BY <1>2, <1>4 DEF Batch
  <2>. HIDE DEF b
  <2>3. /\ r \in Seq(Batch(F)) /\ SameButHeadState(q, r) /\ r[1] = b
    <3>1. q # <<>>
      BY <1>4
    <3>2. /\ [q EXCEPT ![1] = b] \in Seq(Batch(F))
          /\ SameButHeadState(q, [q EXCEPT ![1] = b])
          /\ [q EXCEPT ![1] = b][1] = b
      BY <2>2, <3>1, HeadUpdate
    <3>. QED  BY <2>1, <3>2
  <2>. QED  BY <1>4, <2>2, <2>3 DEF HeadSettled
<1>5. CASE r = ConfirmRejected(q, c)
  BY <1>1, <1>3, <1>5 DEF ConfirmRejected, HeadOwnedBy
<1>6. CASE r = ReleaseDispatch(q, m, a)
  BY <1>1, <1>3, <1>6 DEF ReleaseDispatch, HeadClaimedAs
<1>7. CASE r = ReleaseNotStarted(q, m, c, a)
  BY <1>1, <1>4, <1>7
  DEF ReleaseNotStarted, HeadClaimedAs, HeadOwnedBy, Claimed, DeliveryState
<1>8. CASE r = MarkCommandUncertain(q, c)
  BY <1>1, <1>4, <1>8 DEF MarkCommandUncertain, HeadOwnedBy, Claimed, DeliveryState
<1>9. CASE r = MarkDispatchUncertain(q, c, a)
  BY <1>1, <1>4, <1>9 DEF MarkDispatchUncertain, HeadOwnedBy, Claimed, DeliveryState
<1>. QED  BY <1>5, <1>6, <1>7, <1>8, <1>9

\* While only the head is out, mark_claim_delivery_uncertain finds it or nothing.
LEMMA ClaimMarked ==
  ASSUME NEW F, NEW q \in Seq(Batch(F)), RestIsFresh(q), NEW m, NEW a,
         NEW r, r = MarkClaimUncertain(q, m, a)
  PROVE  /\ r \in Seq(Batch(F))
         /\ r = q \/ HeadSettled(q, r)
<1>1. DOMAIN q = 1..Len(q) /\ Len(q) \in Nat
  BY LenProperties
<1>. DEFINE Hit == q # <<>> /\ m \in MembersOf(q[1]) /\ q[1].attempt = a
                   /\ q[1].state = "Dispatching"
            b == [q[1] EXCEPT !.state = "DeliveryUncertain"]
<1>2. \A i \in DOMAIN q : i # 1 => r[i] = q[i]
  BY <1>1 DEF RestIsFresh, MarkClaimUncertain
<1>3. r = [i \in DOMAIN q |-> r[i]]
  BY DEF MarkClaimUncertain
<1>4. CASE Hit
  <2>1. q # <<>> /\ 1 \in DOMAIN q /\ q[1] \in Batch(F)
    BY <1>1, <1>4, EmptySeq, ElementOfSeq
  <2>2. r[1] = b
    BY <1>4, <2>1 DEF MarkClaimUncertain
  <2>3. /\ b \in Batch(F) /\ b.msgs = q[1].msgs /\ b.cmd = q[1].cmd
        /\ q[1].state \in Claimed
    BY <1>4, <2>1 DEF Batch, DeliveryState, Claimed
  <2>. HIDE DEF b
  <2>4. r = [q EXCEPT ![1] = b]
    BY <1>1, <1>2, <1>3, <2>1, <2>2
  <2>5. /\ [q EXCEPT ![1] = b] \in Seq(Batch(F))
        /\ SameButHeadState(q, [q EXCEPT ![1] = b])
        /\ [q EXCEPT ![1] = b][1] = b
    BY <2>1, <2>3, HeadUpdate
  <2>. QED  BY <2>3, <2>4, <2>5 DEF HeadSettled
<1>5. CASE ~Hit
  <2>1. \A i \in DOMAIN q : r[i] = q[i]
    BY <1>1, <1>2, <1>5, EmptySeq DEF MarkClaimUncertain
  <2>2. q = [i \in DOMAIN q |-> q[i]]
    BY <1>1, LenProperties
  <2>3. r = q
    BY <1>3, <2>1, <2>2
  <2>. QED  BY <2>3
<1>. QED  BY <1>4, <1>5

-----------------------------------------------------------------------------
(* Claiming and enqueueing.                                                *)

\* A claim puts its wire id on the head and leaves the messages alone.
LEMMA HeadClaimed ==
  ASSUME NEW F, NEW q \in Seq(Batch(F)), q # <<>>, NEW c \in Nat
  PROVE  /\ ClaimHead(q, c) \in Seq(Batch(F))
         /\ SameButHeadState(q, ClaimHead(q, c))
         /\ ClaimHead(q, c)[1].cmd = c
<1>. DEFINE next == q[1].attempt + 1
            b == [q[1] EXCEPT !.state = "Dispatching", !.attempt = next, !.cmd = c]
<1>1. ClaimHead(q, c) = [q EXCEPT ![1] = b]
  BY DEF ClaimHead
<1>2. q[1] \in Batch(F)
  BY LenProperties, EmptySeq, ElementOfSeq
<1>3. next \in Nat
  BY <1>2 DEF Batch
<1>. HIDE DEF next
<1>4. b \in Batch(F) /\ b.msgs = q[1].msgs /\ b.cmd = c
  BY <1>2, <1>3 DEF Batch, DeliveryState
<1>. HIDE DEF b
<1>5. /\ [q EXCEPT ![1] = b] \in Seq(Batch(F))
      /\ SameButHeadState(q, [q EXCEPT ![1] = b])
      /\ [q EXCEPT ![1] = b][1] = b
  BY <1>4, HeadUpdate
<1>. QED  BY <1>1, <1>4, <1>5

SameDelivery(b, c) == b.state = c.state /\ b.attempt = c.attempt /\ b.cmd = c.cmd

\* An accepted message joins the tail or starts a batch of its own; no batch that
\* is already queued changes its delivery fields, and none that is out for
\* delivery gets a message.
LEMMA MessageEnqueued ==
  ASSUME NEW F, NEW q \in Seq(Batch(F)), NEW m \in Msgs, NEW f \in F,
         NEW r, r = Enqueued(q, m, f)
  PROVE  /\ r \in Seq(Batch(F))
         /\ r # <<>>
         /\ Queued(r) = Queued(q) \cup {m}
         /\ \A i \in DOMAIN r :
              \/ i \in DOMAIN q /\ SameDelivery(r[i], q[i])
              \/ i \notin DOMAIN q /\ SameDelivery(r[i], NewBatch(m, f))
         /\ \A i \in DOMAIN q :
              i \in DOMAIN r /\ (q[i].state \in Claimed => r[i] = q[i])
<1>1. DOMAIN q = 1..Len(q) /\ Len(q) \in Nat
  BY LenProperties
<1>2. CASE MergesIntoTail(q, f)
  <2>1. Len(q) \in DOMAIN q /\ q[Len(q)] \in Batch(F) /\ q[Len(q)].state = "Pending"
    BY <1>1, <1>2, EmptySeq, ElementOfSeq DEF MergesIntoTail
  <2>. DEFINE n == Len(q)
              old == q[n].msgs
              b == [q[n] EXCEPT !.msgs = Append(@, m)]
  <2>2. /\ Append(old, m) \in Seq(Msgs)
        /\ {Append(old, m)[x] : x \in DOMAIN Append(old, m)}
             = {old[x] : x \in DOMAIN old} \cup {m}
    <3>1. old \in Seq(Msgs) /\ DOMAIN old = 1..Len(old) /\ Len(old) \in Nat
      BY <2>1, LenProperties DEF Batch
    <3>. HIDE DEF old
    <3>2. /\ Append(old, m) \in Seq(Msgs)
          /\ DOMAIN Append(old, m) = 1..(Len(old) + 1)
          /\ \A x \in 1..Len(old) : Append(old, m)[x] = old[x]
          /\ Append(old, m)[Len(old) + 1] = m
      BY <3>1, AppendProperties, LenProperties
    <3>. QED  BY <3>1, <3>2
  <2>3. b.msgs = Append(old, m) /\ b \in Batch(F) /\ SameDelivery(b, q[n])
    BY <2>1, <2>2 DEF Batch, SameDelivery
  <2>4. MembersOf(b) = MembersOf(q[n]) \cup {m}
    BY <2>2, <2>3 DEF MembersOf
  <2>5. r = [q EXCEPT ![n] = b]
    BY <1>2 DEF Enqueued
  <2>. HIDE DEF b, old, n
  <2>6. /\ [q EXCEPT ![n] = b] \in Seq(Batch(F))
        /\ Len([q EXCEPT ![n] = b]) = Len(q)
        /\ \A j \in 1..Len(q) : [q EXCEPT ![n] = b][j] = IF j = n THEN b ELSE q[j]
    BY <1>1, <2>1, <2>3, ExceptSeq DEF n
  <2>7. r \in Seq(Batch(F)) /\ DOMAIN r = DOMAIN q /\ r # <<>>
    BY <1>1, <2>1, <2>5, <2>6, LenProperties, EmptySeq
  <2>8. \A j \in DOMAIN q : r[j] = IF j = n THEN b ELSE q[j]
    BY <1>1, <2>5, <2>6
  <2>9. Queued(r) = Queued(q) \cup {m}
    BY <2>1, <2>4, <2>7, <2>8 DEF Queued, n
  <2>. QED  BY <2>1, <2>3, <2>7, <2>8, <2>9 DEF SameDelivery, Claimed, n
<1>3. CASE ~MergesIntoTail(q, f)
  <2>. DEFINE b == NewBatch(m, f)
  <2>1. b \in Batch(F)
    BY DEF NewBatch, Batch, DeliveryState, NoCmd
  <2>2. MembersOf(b) = {m}
    BY DEF NewBatch, MembersOf
  <2>3. r = Append(q, b)
    BY <1>3 DEF Enqueued
  <2>. HIDE DEF b
  <2>4. /\ r \in Seq(Batch(F)) /\ r # <<>>
        /\ DOMAIN r = 1..(Len(q) + 1)
        /\ \A i \in 1..Len(q) : r[i] = q[i]
        /\ r[Len(q) + 1] = b
    BY <2>1, <2>3, AppendProperties, LenProperties
  <2>5. Queued(r) = Queued(q) \cup {m}
    BY <1>1, <2>2, <2>4 DEF Queued
  <2>. QED  BY <1>1, <2>4, <2>5 DEF SameDelivery, b
<1>. QED  BY <1>2, <1>3

-----------------------------------------------------------------------------
(* Cancelling.                                                             *)

\* Of the positions of a sequence that satisfy something, one is the first: the
\* intervals that end in them are well ordered by inclusion.
LEMMA FirstExists ==
  ASSUME NEW top \in Nat, NEW S, S \subseteq 1..top, S # {}
  PROVE  \E i \in S : \A j \in S : ~(j < i)
<1>. DEFINE I == 1..top
            R == StrictSubsetOrdering(I)
            D == {1..k : k \in S}
<1>1. IsWellFoundedOn(R, SUBSET I)
  <2>1. IsFiniteSet(I)
    BY FS_Interval
  <2>. HIDE DEF I
  <2>. QED  BY <2>1, FS_FiniteSubsetsOfFinite, FS_StrictSubsetOrderingWellFounded
<1>2. D \subseteq SUBSET I /\ D # {}
  <2>1. ASSUME NEW k \in S PROVE 1..k \subseteq 1..top
    <3>1. k \in Nat /\ k <= top
      OBVIOUS
    <3>. QED  BY <3>1
  <2>. QED  BY <2>1
<1>3. PICK d \in D : \A e \in D : <<e, d>> \notin R
  <2>. HIDE DEF D, R, I
  <2>. QED  BY <1>1, <1>2, WFMin
<1>4. PICK i \in S : d = 1..i
  BY <1>3
<1>5. ASSUME NEW j \in S, j < i PROVE FALSE
  <2>1. 1..j \in D /\ 1..j \subseteq 1..i /\ 1..j # 1..i
    BY <1>5
  <2>2. <<1..j, d>> \in R
    BY <1>2, <1>3, <1>4, <2>1 DEF StrictSubsetOrdering
  <2>. QED  BY <1>3, <2>1, <2>2
<1>. QED  BY <1>5

\* A queued message has a first batch, and a first position in it.
LEMMA HolderFound ==
  ASSUME NEW F, NEW q \in Seq(Batch(F)), NEW m \in Queued(q),
         NEW n, n = HolderOf(q, m)
  PROVE  /\ n \in DOMAIN q
         /\ m \in MembersOf(q[n])
         /\ \A j \in DOMAIN q : j < n => m \notin MembersOf(q[j])
<1>. DEFINE S == {i \in DOMAIN q : m \in MembersOf(q[i])}
<1>1. DOMAIN q = 1..Len(q) /\ Len(q) \in Nat
  BY LenProperties
<1>2. S # {} /\ S \subseteq 1..Len(q)
  BY <1>1 DEF Queued
<1>3. PICK i \in S : \A j \in S : ~(j < i)
  <2>. HIDE DEF S
  <2>. QED  BY <1>1, <1>2, FirstExists
<1>. QED  BY <1>3 DEF HolderOf

LEMMA PositionFound ==
  ASSUME NEW F, NEW b \in Batch(F), NEW m \in MembersOf(b),
         NEW z, z = PositionIn(b, m)
  PROVE  /\ z \in DOMAIN b.msgs
         /\ b.msgs[z] = m
         /\ \A y \in DOMAIN b.msgs : y < z => b.msgs[y] # m
<1>. DEFINE S == {x \in DOMAIN b.msgs : b.msgs[x] = m}
<1>1. DOMAIN b.msgs = 1..Len(b.msgs) /\ Len(b.msgs) \in Nat
  BY LenProperties DEF Batch
<1>2. S # {} /\ S \subseteq 1..Len(b.msgs)
  BY <1>1 DEF MembersOf
<1>3. PICK x \in S : \A y \in S : ~(y < x)
  <2>. HIDE DEF S
  <2>. QED  BY <1>1, <1>2, FirstExists
<1>. QED  BY <1>3 DEF PositionIn

\* Removing one place of a sequence moves the later elements up by one.
LEMMA Removed ==
  ASSUME NEW S, NEW s \in Seq(S), NEW i \in 1..Len(s)
  PROVE  /\ RemoveAt(s, i) \in Seq(S)
         /\ DOMAIN RemoveAt(s, i) = 1..(Len(s) - 1)
         /\ \A j \in 1..(Len(s) - 1) :
              RemoveAt(s, i)[j] = IF j < i THEN s[j] ELSE s[j + 1]
<1>1. Len(s) \in Nat /\ \A j \in 1..Len(s) : s[j] \in S
  BY LenProperties, ElementOfSeq
<1>. DEFINE front == SubSeq(s, 1, i - 1)
            back  == SubSeq(s, i + 1, Len(s))
<1>2. /\ front \in Seq(S) /\ Len(front) = i - 1
      /\ \A j \in 1..(i - 1) : front[j] = s[j]
  <2>1. \A j \in 1..(i - 1) : s[j] \in S
    BY <1>1
  <2>2. /\ front \in Seq(S)
        /\ Len(front) = IF 1 <= i - 1 THEN i - 1 - 1 + 1 ELSE 0
        /\ \A j \in 1..(i - 1 - 1 + 1) : front[j] = s[1 + j - 1]
    BY <1>1, <2>1, SubSeqProperties
  <2>. QED  BY <1>1, <2>2
<1>3. /\ back \in Seq(S) /\ Len(back) = Len(s) - i
      /\ \A j \in 1..(Len(s) - i) : back[j] = s[j + i]
  <2>1. \A j \in (i + 1)..Len(s) : s[j] \in S
    BY <1>1
  <2>2. /\ back \in Seq(S)
        /\ Len(back) = IF i + 1 <= Len(s) THEN Len(s) - (i + 1) + 1 ELSE 0
        /\ \A j \in 1..(Len(s) - (i + 1) + 1) : back[j] = s[i + 1 + j - 1]
    BY <1>1, <2>1, SubSeqProperties
  <2>. QED  BY <1>1, <2>2
<1>4. RemoveAt(s, i) = front \o back
  BY DEF RemoveAt
<1>. HIDE DEF front, back
<1>5. /\ front \o back \in Seq(S)
      /\ Len(front \o back) = Len(front) + Len(back)
      /\ \A j \in 1..(Len(front) + Len(back)) :
           (front \o back)[j] = IF j <= Len(front) THEN front[j]
                                ELSE back[j - Len(front)]
  BY <1>2, <1>3, ConcatProperties
<1>6. DOMAIN (front \o back) = 1..(Len(s) - 1)
  BY <1>1, <1>2, <1>3, <1>5, LenProperties
<1>7. ASSUME NEW j \in 1..(Len(s) - 1)
      PROVE  (front \o back)[j] = IF j < i THEN s[j] ELSE s[j + 1]
  <2>1. Len(front) + Len(back) = Len(s) - 1
    BY <1>1, <1>2, <1>3
  <2>2. CASE j < i
    BY <1>1, <1>2, <1>5, <2>1, <2>2
  <2>3. CASE ~(j < i)
    <3>1. (front \o back)[j] = back[j - (i - 1)]
      BY <1>1, <1>2, <1>5, <2>1, <2>3
    <3>2. j - (i - 1) \in 1..(Len(s) - i) /\ (j - (i - 1)) + i = j + 1
      BY <1>1, <2>3
    <3>. QED  BY <1>3, <2>3, <3>1, <3>2
  <2>. QED  BY <2>2, <2>3
<1>. QED  BY <1>4, <1>5, <1>6, <1>7

\* Cancelling takes from a Pending batch: what is left are batches of q, no
\* further back than before and with the delivery fields they had, and a batch
\* that is out for delivery keeps its place and its messages.
LEMMA MessageCancelled ==
  ASSUME NEW F, NEW q \in Seq(Batch(F)), NEW m, Cancellable(q, m),
         NEW r, r = CancelPending(q, m)
  PROVE  /\ r \in Seq(Batch(F))
         /\ \A i \in DOMAIN r : \E j \in DOMAIN q :
              /\ j >= i
              /\ SameDelivery(r[i], q[j])
              /\ MembersOf(r[i]) \subseteq MembersOf(q[j])
         /\ q[1].state \in Claimed => r # <<>> /\ r[1] = q[1]
<1>. DEFINE n == HolderOf(q, m)
<1>1. DOMAIN q = 1..Len(q) /\ Len(q) \in Nat
  BY LenProperties
<1>2. n \in DOMAIN q /\ m \in MembersOf(q[n]) /\ q[n].state = "Pending"
  BY HolderFound DEF Cancellable
<1>3. q[n] \in Batch(F) /\ q[n].msgs \in Seq(Msgs)
  <2>. HIDE DEF n
  <2>1. q[n] \in Batch(F)
    BY <1>1, <1>2, ElementOfSeq
  <2>. QED  BY <2>1 DEF Batch
<1>4. q[1].state \in Claimed => n # 1
  BY <1>2 DEF Claimed
<1>5. CASE Len(q[n].msgs) = 1
  <2>1. r = RemoveAt(q, n)
    BY <1>5 DEF CancelPending
  <2>. HIDE DEF n
  <2>2. /\ RemoveAt(q, n) \in Seq(Batch(F))
        /\ DOMAIN RemoveAt(q, n) = 1..(Len(q) - 1)
        /\ \A j \in 1..(Len(q) - 1) :
             RemoveAt(q, n)[j] = IF j < n THEN q[j] ELSE q[j + 1]
    BY <1>1, <1>2, Removed
  <2>3. ASSUME NEW i \in DOMAIN r
        PROVE  \E j \in DOMAIN q : j >= i /\ r[i] = q[j]
    <3>1. CASE i < n
      BY <1>1, <2>1, <2>2, <3>1
    <3>2. CASE ~(i < n)
      <4>1. i + 1 \in DOMAIN q /\ i + 1 >= i /\ r[i] = q[i + 1]
        BY <1>1, <2>1, <2>2, <3>2
      <4>. QED  BY <4>1
    <3>. QED  BY <3>1, <3>2
  <2>4. q[1].state \in Claimed => r # <<>> /\ r[1] = q[1]
    <3>. HAVE q[1].state \in Claimed
    <3>1. 1 < n /\ 1 \in 1..(Len(q) - 1)
      BY <1>1, <1>2, <1>4
    <3>2. 1 \in DOMAIN r /\ r[1] = q[1]
      BY <2>1, <2>2, <3>1
    <3>. QED  BY <3>2
  <2>. QED  BY <2>1, <2>2, <2>3, <2>4 DEF SameDelivery
<1>6. CASE Len(q[n].msgs) # 1
  <2>. DEFINE x == PositionIn(q[n], m)
              left == RemoveAt(q[n].msgs, x)
              b == [q[n] EXCEPT !.msgs = left]
  <2>1. r = [q EXCEPT ![n] = b]
    BY <1>6 DEF CancelPending
  <2>. HIDE DEF n
  <2>2. x \in DOMAIN q[n].msgs
    BY <1>2, <1>3, PositionFound
  <2>. HIDE DEF x
  <2>3. x \in 1..Len(q[n].msgs) /\ Len(q[n].msgs) \in Nat
        /\ DOMAIN q[n].msgs = 1..Len(q[n].msgs)
    BY <1>3, <2>2, LenProperties
  <2>4. /\ left \in Seq(Msgs)
        /\ DOMAIN left = 1..(Len(q[n].msgs) - 1)
        /\ \A j \in 1..(Len(q[n].msgs) - 1) :
             left[j] = IF j < x THEN q[n].msgs[j] ELSE q[n].msgs[j + 1]
    BY <1>3, <2>3, Removed
  <2>. HIDE DEF left
  <2>5. {left[j] : j \in DOMAIN left} \subseteq MembersOf(q[n])
    <3>1. \A j \in DOMAIN left : \E k \in DOMAIN q[n].msgs : left[j] = q[n].msgs[k]
      <4>. TAKE j \in DOMAIN left
      <4>1. /\ j \in 1..(Len(q[n].msgs) - 1)
            /\ j \in 1..Len(q[n].msgs) /\ j + 1 \in 1..Len(q[n].msgs)
        BY <2>3, <2>4
      <4>2. left[j] = q[n].msgs[j] \/ left[j] = q[n].msgs[j + 1]
        BY <2>4, <4>1
      <4>. QED  BY <2>3, <4>1, <4>2
    <3>. QED  BY <3>1 DEF MembersOf
  <2>6. b \in Batch(F) /\ b.msgs = left /\ SameDelivery(b, q[n])
    BY <1>3, <2>4 DEF Batch, SameDelivery
  <2>7. MembersOf(b) \subseteq MembersOf(q[n])
    BY <2>5, <2>6 DEF MembersOf
  <2>. HIDE DEF b
  <2>8. /\ [q EXCEPT ![n] = b] \in Seq(Batch(F))
        /\ Len([q EXCEPT ![n] = b]) = Len(q)
        /\ \A j \in 1..Len(q) : [q EXCEPT ![n] = b][j] = IF j = n THEN b ELSE q[j]
    BY <1>1, <1>2, <2>6, ExceptSeq
  <2>9. /\ r \in Seq(Batch(F)) /\ DOMAIN r = DOMAIN q /\ r # <<>>
        /\ \A j \in DOMAIN q : r[j] = IF j = n THEN b ELSE q[j]
    BY <1>1, <1>2, <2>1, <2>8, LenProperties, EmptySeq
  <2>10. \A i \in DOMAIN r : /\ i \in DOMAIN q /\ i >= i
                             /\ SameDelivery(r[i], q[i])
                             /\ MembersOf(r[i]) \subseteq MembersOf(q[i])
    BY <1>1, <2>6, <2>7, <2>9 DEF SameDelivery
  <2>11. 1 \in DOMAIN q
    BY <1>1, <1>2
  <2>. QED  BY <1>4, <2>9, <2>10, <2>11
<1>. QED  BY <1>5, <1>6

-----------------------------------------------------------------------------
(* Order of places.                                                        *)

\* Whatever stands in r in some order stands in q in the same order, and a last
\* place there was a last place.
InOrderOf(r, q) ==
  \A i, j \in DOMAIN r : \A x \in DOMAIN r[i].msgs, y \in DOMAIN r[j].msgs :
    Before(i, x, j, y) =>
      \E i2, j2 \in DOMAIN q :
        \E x2 \in DOMAIN q[i2].msgs, y2 \in DOMAIN q[j2].msgs :
          /\ Before(i2, x2, j2, y2)
          /\ r[i].msgs[x] = q[i2].msgs[x2]
          /\ r[j].msgs[y] = q[j2].msgs[y2]
          /\ LastCopy(r, i, x) => LastCopy(q, i2, x2)

\* The head's delivery fields say nothing about order.
LEMMA HeadRewrittenInOrder ==
  ASSUME NEW F, NEW q \in Seq(Batch(F)), NEW r, SameButHeadState(q, r)
  PROVE  InOrderOf(r, q)
<1>1. DOMAIN q = 1..Len(q) /\ Len(q) \in Nat
  BY LenProperties
<1>2. \A i \in DOMAIN r : i \in DOMAIN q /\ r[i].msgs = q[i].msgs
  BY <1>1 DEF SameButHeadState
<1>3. DOMAIN r = DOMAIN q
  BY DEF SameButHeadState
<1>4. \A i \in DOMAIN r : \A x \in DOMAIN r[i].msgs :
        LastCopy(r, i, x) => LastCopy(q, i, x)
  BY <1>2, <1>3 DEF LastCopy
<1>. QED  BY <1>2, <1>4 DEF InOrderOf

\* Dropping the head keeps the order of the rest.
LEMMA HeadDroppedInOrder ==
  ASSUME NEW F, NEW q \in Seq(Batch(F)), q # <<>>
  PROVE  InOrderOf(Tail(q), q)
<1>1. \A i \in DOMAIN Tail(q) : i + 1 \in DOMAIN q /\ i \in Nat
                                /\ Tail(q)[i] = q[i + 1]
  BY HeadDropped
<1>2. DOMAIN q = 1..Len(q) /\ Len(q) \in Nat /\ Len(Tail(q)) = Len(q) - 1
      /\ DOMAIN Tail(q) = 1..Len(Tail(q))
  BY HeadTailProperties, LenProperties
<1>3. ASSUME NEW i \in DOMAIN Tail(q), NEW x \in DOMAIN Tail(q)[i].msgs,
             LastCopy(Tail(q), i, x)
      PROVE  LastCopy(q, i + 1, x)
  <2>. SUFFICES ASSUME NEW j \in DOMAIN q, NEW y \in DOMAIN q[j].msgs,
                       Before(i + 1, x, j, y)
                PROVE  q[j].msgs[y] # Tail(q)[i].msgs[x]
    BY <1>1 DEF LastCopy
  <2>1. j - 1 \in DOMAIN Tail(q) /\ Before(i, x, j - 1, y) /\ j = (j - 1) + 1
    BY <1>1, <1>2 DEF Before
  <2>2. Tail(q)[j - 1] = q[j]
    BY <1>1, <2>1
  <2>. QED  BY <1>3, <2>1, <2>2 DEF LastCopy
<1>4. SUFFICES ASSUME NEW i \in DOMAIN Tail(q), NEW j \in DOMAIN Tail(q),
                      NEW x \in DOMAIN Tail(q)[i].msgs,
                      NEW y \in DOMAIN Tail(q)[j].msgs,
                      Before(i, x, j, y)
               PROVE  /\ i + 1 \in DOMAIN q /\ j + 1 \in DOMAIN q
                      /\ Before(i + 1, x, j + 1, y)
  BY <1>1, <1>3 DEF InOrderOf
<1>. QED  BY <1>1, <1>4 DEF Before

\* Two places of an enqueued queue are old places, or the later one is the new
\* message and the earlier one an old message.
LEMMA EnqueuedInOrder ==
  ASSUME NEW F, NEW q \in Seq(Batch(F)), NEW m \in Msgs, NEW f \in F,
         NEW r, r = Enqueued(q, m, f),
         NEW i \in DOMAIN r, NEW j \in DOMAIN r,
         NEW x \in DOMAIN r[i].msgs, NEW y \in DOMAIN r[j].msgs,
         Before(i, x, j, y)
  PROVE  /\ i \in DOMAIN q /\ x \in DOMAIN q[i].msgs
         /\ r[i].msgs[x] = q[i].msgs[x]
         /\ \/ r[j].msgs[y] = m
            \/ /\ j \in DOMAIN q /\ y \in DOMAIN q[j].msgs
               /\ r[j].msgs[y] = q[j].msgs[y]
<1>1. DOMAIN q = 1..Len(q) /\ Len(q) \in Nat
  BY LenProperties
<1>2. CASE MergesIntoTail(q, f)
  <2>. DEFINE n == Len(q)
              old == q[n].msgs
  <2>1. n \in DOMAIN q /\ q[n] \in Batch(F)
    BY <1>1, <1>2, EmptySeq, ElementOfSeq DEF MergesIntoTail
  <2>2. old \in Seq(Msgs) /\ DOMAIN old = 1..Len(old) /\ Len(old) \in Nat
    BY <2>1, LenProperties DEF Batch
  <2>3. /\ DOMAIN Append(old, m) = 1..(Len(old) + 1)
        /\ \A z \in 1..Len(old) : Append(old, m)[z] = old[z]
        /\ Append(old, m)[Len(old) + 1] = m
    <3>. HIDE DEF old
    <3>. QED  BY <2>2, AppendProperties, LenProperties
  <2>4. /\ DOMAIN r = DOMAIN q
        /\ \A k \in DOMAIN q : r[k].msgs = IF k = n THEN Append(old, m) ELSE q[k].msgs
    BY <1>2, <2>1 DEF Enqueued, Batch
  <2>. HIDE DEF old, n
  <2>5. i \in 1..n /\ j \in 1..n /\ n \in Nat
    BY <1>1, <2>4 DEF n
  <2>6. CASE i < j
    <3>1. i # n
      BY <2>5, <2>6
    <3>2. r[i].msgs = q[i].msgs
      BY <2>4, <3>1
    <3>3. CASE j = n
      <4>1. r[j].msgs = Append(old, m) /\ y \in 1..(Len(old) + 1)
        BY <2>1, <2>3, <2>4, <3>3
      <4>2. y \in 1..Len(old) \/ y = Len(old) + 1
        BY <2>2, <4>1
      <4>3. q[j].msgs = old
        BY <3>3 DEF old
      <4>. QED  BY <2>2, <2>3, <2>4, <3>2, <4>1, <4>2, <4>3
    <3>4. CASE j # n
      BY <2>4, <3>2, <3>4
    <3>. QED  BY <3>3, <3>4
  <2>7. CASE i = j /\ x < y
    <3>1. CASE i = n
      <4>1. r[i].msgs = Append(old, m) /\ x \in 1..(Len(old) + 1)
            /\ y \in 1..(Len(old) + 1) /\ q[i].msgs = old
        BY <2>1, <2>3, <2>4, <2>7, <3>1 DEF old
      <4>2. x \in 1..Len(old) /\ (y \in 1..Len(old) \/ y = Len(old) + 1)
        BY <2>2, <2>7, <4>1
      <4>. QED  BY <2>2, <2>3, <2>4, <2>7, <4>1, <4>2
    <3>2. CASE i # n
      BY <2>4, <2>7, <3>2
    <3>. QED  BY <3>1, <3>2
  <2>. QED  BY <2>6, <2>7 DEF Before
<1>3. CASE ~MergesIntoTail(q, f)
  <2>. DEFINE b == NewBatch(m, f)
  <2>1. b \in Batch(F)
    BY DEF NewBatch, Batch, DeliveryState, NoCmd
  <2>2. b.msgs = <<m>> /\ DOMAIN b.msgs = {1} /\ b.msgs[1] = m
    BY DEF NewBatch
  <2>. HIDE DEF b
  <2>3. r = Append(q, b)
    BY <1>3 DEF Enqueued, b
  <2>4. /\ DOMAIN r = 1..(Len(q) + 1)
        /\ \A k \in 1..Len(q) : r[k] = q[k]
        /\ r[Len(q) + 1] = b
    BY <2>1, <2>3, AppendProperties, LenProperties
  <2>5. i \in 1..Len(q)
    <3>1. CASE i < j
      BY <1>1, <2>4, <3>1
    <3>2. CASE i = j /\ x < y
      <4>1. SUFFICES ASSUME i = Len(q) + 1 PROVE FALSE
        BY <1>1, <2>4
      <4>2. x = 1 /\ y = 1
        BY <2>2, <2>4, <3>2, <4>1
      <4>. QED  BY <3>2, <4>2
    <3>. QED  BY <3>1, <3>2 DEF Before
  <2>6. CASE j \in 1..Len(q)
    BY <1>1, <2>4, <2>5, <2>6
  <2>7. CASE j = Len(q) + 1
    BY <1>1, <2>2, <2>4, <2>5, <2>7
  <2>. QED  BY <1>1, <2>4, <2>6, <2>7
<1>. QED  BY <1>2, <1>3

\* Place z of batch n is m's in r, and every place of q is one of r before it.
LastPlaceAdded(q, r, m, n, z) ==
  /\ r[n].msgs[z] = m
  /\ \A i \in DOMAIN q : \A x \in DOMAIN q[i].msgs :
       /\ i \in DOMAIN r /\ x \in DOMAIN r[i].msgs
       /\ r[i].msgs[x] = q[i].msgs[x]
       /\ Before(i, x, n, z)

\* Enqueueing keeps every place and adds one, behind all of them, for the
\* message.
LEMMA EnqueuedPlaces ==
  ASSUME NEW F, NEW q \in Seq(Batch(F)), NEW m \in Msgs, NEW f \in F,
         NEW r, r = Enqueued(q, m, f)
  PROVE  \E n \in DOMAIN r : \E z \in DOMAIN r[n].msgs : LastPlaceAdded(q, r, m, n, z)
<1>1. DOMAIN q = 1..Len(q) /\ Len(q) \in Nat
  BY LenProperties
<1>2. CASE MergesIntoTail(q, f)
  <2>. DEFINE n == Len(q)
              old == q[n].msgs
  <2>1. n \in DOMAIN q /\ q[n] \in Batch(F)
    BY <1>1, <1>2, EmptySeq, ElementOfSeq DEF MergesIntoTail
  <2>2. old \in Seq(Msgs) /\ DOMAIN old = 1..Len(old) /\ Len(old) \in Nat
    BY <2>1, LenProperties DEF Batch
  <2>3. /\ DOMAIN Append(old, m) = 1..(Len(old) + 1)
        /\ \A z \in 1..Len(old) : Append(old, m)[z] = old[z]
        /\ Append(old, m)[Len(old) + 1] = m
    <3>. HIDE DEF old
    <3>. QED  BY <2>2, AppendProperties, LenProperties
  <2>4. /\ DOMAIN r = DOMAIN q
        /\ \A k \in DOMAIN q : r[k].msgs = IF k = n THEN Append(old, m) ELSE q[k].msgs
    BY <1>2, <2>1 DEF Enqueued, Batch
  <2>5. ASSUME NEW i \in DOMAIN q, NEW x \in DOMAIN q[i].msgs
        PROVE  /\ i \in DOMAIN r /\ x \in DOMAIN r[i].msgs
               /\ r[i].msgs[x] = q[i].msgs[x]
               /\ Before(i, x, n, Len(old) + 1)
    <3>1. CASE i = n
      <4>1. x \in 1..Len(old) /\ r[i].msgs = Append(old, m)
        BY <2>2, <2>4, <3>1
      <4>2. x \in 1..(Len(old) + 1) /\ x < Len(old) + 1
        BY <2>2, <4>1
      <4>3. x \in DOMAIN r[i].msgs /\ r[i].msgs[x] = q[i].msgs[x] /\ i \in DOMAIN r
        BY <2>3, <2>4, <3>1, <4>1, <4>2
      <4>. QED  BY <3>1, <4>2, <4>3 DEF Before
    <3>2. CASE i # n
      <4>1. i < n
        BY <1>1, <3>2
      <4>. QED  BY <2>4, <3>2, <4>1 DEF Before
    <3>. QED  BY <3>1, <3>2
  <2>6. /\ n \in DOMAIN r /\ Len(old) + 1 \in DOMAIN r[n].msgs
        /\ r[n].msgs[Len(old) + 1] = m
    <3>1. Len(old) + 1 \in 1..(Len(old) + 1)
      BY <2>2
    <3>2. r[n].msgs = Append(old, m)
      BY <2>1, <2>4
    <3>. QED  BY <2>1, <2>3, <2>4, <3>1, <3>2
  <2>. HIDE DEF n, old
  <2>. QED  BY <2>5, <2>6 DEF LastPlaceAdded
<1>3. CASE ~MergesIntoTail(q, f)
  <2>. DEFINE b == NewBatch(m, f)
  <2>1. b \in Batch(F)
    BY DEF NewBatch, Batch, DeliveryState, NoCmd
  <2>2. b.msgs = <<m>> /\ DOMAIN b.msgs = {1} /\ b.msgs[1] = m
    BY DEF NewBatch
  <2>. HIDE DEF b
  <2>3. r = Append(q, b)
    BY <1>3 DEF Enqueued, b
  <2>4. /\ DOMAIN r = 1..(Len(q) + 1)
        /\ \A k \in 1..Len(q) : r[k] = q[k]
        /\ r[Len(q) + 1] = b
    BY <2>1, <2>3, AppendProperties, LenProperties
  <2>5. Len(q) + 1 \in DOMAIN r /\ 1 \in DOMAIN r[Len(q) + 1].msgs
        /\ r[Len(q) + 1].msgs[1] = m
    BY <1>1, <2>2, <2>4
  <2>6. \A i \in DOMAIN q : i \in DOMAIN r /\ r[i] = q[i] /\ i < Len(q) + 1
    BY <1>1, <2>4
  <2>7. \A i \in DOMAIN q : \A x \in DOMAIN q[i].msgs : Before(i, x, Len(q) + 1, 1)
    BY <2>6 DEF Before
  <2>. QED  BY <2>5, <2>6, <2>7 DEF LastPlaceAdded
<1>. QED  BY <1>2, <1>3

\* The place of q that a place of CancelPending(q, m) was, if m's first place is
\* place z of batch n.
OldBatch(q, n, k) == IF Len(q[n].msgs) = 1 /\ ~(k < n) THEN k + 1 ELSE k
OldPlace(q, n, z, k, v) ==
  IF Len(q[n].msgs) # 1 /\ k = n /\ ~(v < z) THEN v + 1 ELSE v

\* Place z of batch n is m's first place in q, and r is q without it: every other
\* place is kept, with its message, in the same order.
FirstPlaceLeft(q, r, m, n, z) ==
  /\ q[n].msgs[z] = m
  /\ \A j \in DOMAIN q : \A y \in DOMAIN q[j].msgs :
       Before(j, y, n, z) => q[j].msgs[y] # m
  /\ \A k \in DOMAIN r : \A v \in DOMAIN r[k].msgs :
       /\ OldBatch(q, n, k) \in DOMAIN q
       /\ OldPlace(q, n, z, k, v) \in DOMAIN q[OldBatch(q, n, k)].msgs
       /\ r[k].msgs[v] = q[OldBatch(q, n, k)].msgs[OldPlace(q, n, z, k, v)]
       /\ ~(OldBatch(q, n, k) = n /\ OldPlace(q, n, z, k, v) = z)
  /\ \A j \in DOMAIN q : \A y \in DOMAIN q[j].msgs :
       ~(j = n /\ y = z) =>
         \E k \in DOMAIN r : \E v \in DOMAIN r[k].msgs :
           OldBatch(q, n, k) = j /\ OldPlace(q, n, z, k, v) = y
  /\ \A i, j \in DOMAIN r :
       \A x \in DOMAIN r[i].msgs, y \in DOMAIN r[j].msgs :
         Before(i, x, j, y) <=>
           Before(OldBatch(q, n, i), OldPlace(q, n, z, i, x),
                  OldBatch(q, n, j), OldPlace(q, n, z, j, y))

\* Cancelling takes out the message's first place.
LEMMA CancelledPlaces ==
  ASSUME NEW F, NEW q \in Seq(Batch(F)), NEW m, Cancellable(q, m),
         NEW r, r = CancelPending(q, m)
  PROVE  \E n \in DOMAIN q : \E z \in DOMAIN q[n].msgs : FirstPlaceLeft(q, r, m, n, z)
<1>. DEFINE n == HolderOf(q, m)
            z == PositionIn(q[n], m)
<1>1. DOMAIN q = 1..Len(q) /\ Len(q) \in Nat
  BY LenProperties
<1>2. /\ n \in DOMAIN q /\ m \in MembersOf(q[n])
      /\ \A j \in DOMAIN q : j < n => m \notin MembersOf(q[j])
  BY HolderFound DEF Cancellable
<1>. HIDE DEF n
<1>3. \A j \in DOMAIN q : /\ q[j] \in Batch(F) /\ q[j].msgs \in Seq(Msgs)
                         /\ DOMAIN q[j].msgs = 1..Len(q[j].msgs)
                         /\ Len(q[j].msgs) \in Nat
  <2>. TAKE j \in DOMAIN q
  <2>1. q[j] \in Batch(F)
    BY <1>1, ElementOfSeq
  <2>. QED  BY <2>1, LenProperties DEF Batch
<1>4. /\ z \in DOMAIN q[n].msgs /\ q[n].msgs[z] = m
      /\ \A y \in DOMAIN q[n].msgs : y < z => q[n].msgs[y] # m
  BY <1>2, <1>3, PositionFound
<1>. HIDE DEF z
<1>5. ASSUME NEW j \in DOMAIN q, NEW y \in DOMAIN q[j].msgs, Before(j, y, n, z)
      PROVE  q[j].msgs[y] # m
  BY <1>2, <1>4, <1>5 DEF Before, MembersOf
<1>. DEFINE B(k) == OldBatch(q, n, k)
            P(k, v) == OldPlace(q, n, z, k, v)
<1>6. CASE Len(q[n].msgs) = 1
  <2>1. r = RemoveAt(q, n)
    BY <1>6 DEF CancelPending, n
  <2>2. /\ DOMAIN r = 1..(Len(q) - 1)
        /\ \A k \in 1..(Len(q) - 1) : r[k] = IF k < n THEN q[k] ELSE q[k + 1]
    BY <1>1, <1>2, <2>1, Removed
  <2>3. /\ \A k : B(k) = IF k < n THEN k ELSE k + 1
        /\ \A k, v : P(k, v) = v
    BY <1>6 DEF OldBatch, OldPlace
  <2>. HIDE DEF B, P
  <2>4. \A k \in DOMAIN r : B(k) \in DOMAIN q /\ r[k] = q[B(k)] /\ B(k) # n
    BY <1>1, <1>2, <2>2, <2>3
  <2>5. ASSUME NEW j \in DOMAIN q, NEW y \in DOMAIN q[j].msgs, ~(j = n /\ y = z)
        PROVE  \E k \in DOMAIN r : \E v \in DOMAIN r[k].msgs : B(k) = j /\ P(k, v) = y
    <3>1. j # n
      BY <1>3, <1>4, <1>6, <2>5
    <3>2. \E k \in DOMAIN r : B(k) = j
      <4>1. CASE j < n
        BY <1>1, <1>2, <2>2, <2>3, <4>1
      <4>2. CASE ~(j < n)
        <5>1. j - 1 \in DOMAIN r /\ B(j - 1) = j
          BY <1>1, <1>2, <2>2, <2>3, <3>1, <4>2
        <5>. QED  BY <5>1
      <4>. QED  BY <4>1, <4>2
    <3>. QED  BY <2>3, <2>4, <3>2
  <2>6. ASSUME NEW i \in DOMAIN r, NEW j \in DOMAIN r, NEW x, NEW y
        PROVE  Before(i, x, j, y) <=> Before(B(i), P(i, x), B(j), P(j, y))
    <3>1. i < j <=> B(i) < B(j)
      BY <1>1, <1>2, <2>2, <2>3
    <3>2. i = j <=> B(i) = B(j)
      BY <1>1, <1>2, <2>2, <2>3
    <3>. QED  BY <2>3, <3>1, <3>2 DEF Before
  <2>. QED  BY <1>2, <1>4, <1>5, <2>3, <2>4, <2>5, <2>6 DEF B, P, FirstPlaceLeft
<1>7. CASE Len(q[n].msgs) # 1
  <2>. DEFINE left == RemoveAt(q[n].msgs, z)
  <2>1. r = [q EXCEPT ![n].msgs = left]
    BY <1>7 DEF CancelPending, n, z
  <2>2. /\ DOMAIN left = 1..(Len(q[n].msgs) - 1)
        /\ \A k \in 1..(Len(q[n].msgs) - 1) :
             left[k] = IF k < z THEN q[n].msgs[k] ELSE q[n].msgs[k + 1]
    BY <1>2, <1>3, <1>4, Removed
  <2>. HIDE DEF left
  <2>3. /\ DOMAIN r = DOMAIN q
        /\ \A k \in DOMAIN q : r[k].msgs = IF k = n THEN left ELSE q[k].msgs
    BY <1>2, <1>3, <2>1 DEF Batch
  <2>4. /\ \A k : B(k) = k
        /\ \A k, v : P(k, v) = IF k = n /\ ~(v < z) THEN v + 1 ELSE v
    BY <1>7 DEF OldBatch, OldPlace
  <2>. HIDE DEF B, P
  <2>5. ASSUME NEW k \in DOMAIN r, NEW v \in DOMAIN r[k].msgs
        PROVE  /\ k \in DOMAIN q /\ P(k, v) \in DOMAIN q[k].msgs
               /\ r[k].msgs[v] = q[k].msgs[P(k, v)]
               /\ ~(k = n /\ P(k, v) = z)
    <3>1. CASE k = n
      <4>1. r[k].msgs = left /\ v \in 1..(Len(q[n].msgs) - 1)
        BY <1>2, <2>2, <2>3, <3>1
      <4>2. v \in 1..Len(q[n].msgs) /\ v + 1 \in 1..Len(q[n].msgs)
        BY <1>2, <1>3, <4>1
      <4>3. left[v] = IF v < z THEN q[n].msgs[v] ELSE q[n].msgs[v + 1]
        BY <2>2, <4>1
      <4>4. P(k, v) # z
        BY <1>2, <1>3, <1>4, <2>4, <3>1, <4>2
      <4>. QED  BY <1>2, <1>3, <2>4, <3>1, <4>1, <4>2, <4>3, <4>4
    <3>2. CASE k # n
      BY <2>3, <2>4, <3>2
    <3>. QED  BY <3>1, <3>2
  <2>6. ASSUME NEW j \in DOMAIN q, NEW y \in DOMAIN q[j].msgs, ~(j = n /\ y = z)
        PROVE  \E v \in DOMAIN r[j].msgs : P(j, v) = y
    <3>1. CASE j = n /\ y < z
      <4>1. y \in 1..(Len(q[n].msgs) - 1)
        BY <1>2, <1>3, <1>4, <3>1
      <4>. QED  BY <1>2, <2>2, <2>3, <2>4, <3>1, <4>1
    <3>2. CASE j = n /\ ~(y < z)
      <4>1. y - 1 \in 1..(Len(q[n].msgs) - 1) /\ ~(y - 1 < z) /\ (y - 1) + 1 = y
        BY <1>2, <1>3, <1>4, <2>6, <3>2
      <4>. QED  BY <1>2, <2>2, <2>3, <2>4, <3>2, <4>1
    <3>3. CASE j # n
      BY <2>3, <2>4, <3>3
    <3>. QED  BY <3>1, <3>2, <3>3
  <2>7. ASSUME NEW i \in DOMAIN r, NEW j \in DOMAIN r,
               NEW x \in DOMAIN r[i].msgs, NEW y \in DOMAIN r[j].msgs
        PROVE  Before(i, x, j, y) <=> Before(i, P(i, x), j, P(j, y))
    <3>1. CASE i = j /\ i = n
      <4>1. x \in 1..(Len(q[n].msgs) - 1) /\ y \in 1..(Len(q[n].msgs) - 1)
        BY <1>2, <2>2, <2>3, <3>1
      <4>2. x \in Nat /\ y \in Nat /\ z \in Nat
        BY <1>2, <1>3, <1>4, <4>1
      <4>3. x < y <=> P(i, x) < P(j, y)
        BY <2>4, <3>1, <4>2
      <4>. QED  BY <3>1, <4>3 DEF Before
    <3>2. CASE i = j /\ i # n
      BY <2>4, <3>2 DEF Before
    <3>3. CASE i # j
      BY <3>3 DEF Before
    <3>. QED  BY <3>1, <3>2, <3>3
  <2>8. \A k \in DOMAIN r : B(k) \in DOMAIN q /\ B(k) = k
    BY <2>3, <2>4
  <2>. QED  BY <1>2, <1>4, <1>5, <2>3, <2>5, <2>6, <2>7, <2>8 DEF B, P, FirstPlaceLeft
<1>. QED  BY <1>6, <1>7

\* Cancelling keeps the order, and takes no message but the one it should: that
\* message stays queued only if it was queued twice.
LEMMA CancelledInOrder ==
  ASSUME NEW F, NEW q \in Seq(Batch(F)), NEW m, Cancellable(q, m),
         NEW r, r = CancelPending(q, m)
  PROVE  /\ InOrderOf(r, q)
         /\ Queued(q) \ {m} \subseteq Queued(r)
         /\ m \in Queued(r) =>
              \E i, j \in DOMAIN q : \E x \in DOMAIN q[i].msgs, y \in DOMAIN q[j].msgs :
                Before(i, x, j, y) /\ q[i].msgs[x] = m /\ q[j].msgs[y] = m
<1>. PICK n \in DOMAIN q : \E z \in DOMAIN q[n].msgs : FirstPlaceLeft(q, r, m, n, z)
  BY CancelledPlaces
<1>. PICK z \in DOMAIN q[n].msgs : FirstPlaceLeft(q, r, m, n, z)
  OBVIOUS
<1>. DEFINE B(k) == OldBatch(q, n, k)
            P(k, v) == OldPlace(q, n, z, k, v)
<1>1. /\ \A k \in DOMAIN r : \A v \in DOMAIN r[k].msgs :
           /\ B(k) \in DOMAIN q /\ P(k, v) \in DOMAIN q[B(k)].msgs
           /\ r[k].msgs[v] = q[B(k)].msgs[P(k, v)]
           /\ ~(B(k) = n /\ P(k, v) = z)
      /\ \A j \in DOMAIN q : \A y \in DOMAIN q[j].msgs :
           ~(j = n /\ y = z) =>
             \E k \in DOMAIN r : \E v \in DOMAIN r[k].msgs : B(k) = j /\ P(k, v) = y
      /\ \A i, j \in DOMAIN r : \A x \in DOMAIN r[i].msgs, y \in DOMAIN r[j].msgs :
           Before(i, x, j, y) <=> Before(B(i), P(i, x), B(j), P(j, y))
  BY DEF FirstPlaceLeft
<1>. HIDE DEF B, P
<1>2. \A j \in DOMAIN q : j \in Nat /\ \A y \in DOMAIN q[j].msgs : y \in Nat
  <2>1. DOMAIN q = 1..Len(q) /\ Len(q) \in Nat
    BY LenProperties
  <2>2. ASSUME NEW j \in DOMAIN q PROVE q[j].msgs \in Seq(Msgs)
    <3>1. q[j] \in Batch(F)
      BY <2>1, ElementOfSeq
    <3>. QED  BY <3>1 DEF Batch
  <2>. QED  BY <2>1, <2>2, LenProperties
<1>3. ASSUME NEW i \in DOMAIN r, NEW x \in DOMAIN r[i].msgs, LastCopy(r, i, x)
      PROVE  LastCopy(q, B(i), P(i, x))
  <2>. SUFFICES ASSUME NEW j \in DOMAIN q, NEW y \in DOMAIN q[j].msgs,
                       Before(B(i), P(i, x), j, y),
                       q[j].msgs[y] = q[B(i)].msgs[P(i, x)]
                PROVE  FALSE
    BY DEF LastCopy
  <2>0. B(i) \in DOMAIN q /\ P(i, x) \in DOMAIN q[B(i)].msgs
        /\ n \in DOMAIN q /\ z \in DOMAIN q[n].msgs
    BY <1>1
  <2>1. ~(j = n /\ y = z)
    BY <2>0 DEF FirstPlaceLeft
  <2>2. PICK k \in DOMAIN r : \E v \in DOMAIN r[k].msgs : B(k) = j /\ P(k, v) = y
    BY <1>1, <2>1
  <2>3. PICK v \in DOMAIN r[k].msgs : B(k) = j /\ P(k, v) = y
    BY <2>2
  <2>4. Before(i, x, k, v)
    BY <1>1, <2>3
  <2>5. r[k].msgs[v] = r[i].msgs[x]
    BY <1>1, <2>3
  <2>. QED  BY <1>3, <2>4, <2>5 DEF LastCopy
<1>4. InOrderOf(r, q)
  BY <1>1, <1>3 DEF InOrderOf
<1>5. Queued(q) \ {m} \subseteq Queued(r)
  <2>. SUFFICES ASSUME NEW j \in DOMAIN q, NEW y \in DOMAIN q[j].msgs, q[j].msgs[y] # m
                PROVE  \E k \in DOMAIN r : \E v \in DOMAIN r[k].msgs :
                         r[k].msgs[v] = q[j].msgs[y]
    BY DEF Queued, MembersOf
  <2>1. ~(j = n /\ y = z)
    BY DEF FirstPlaceLeft
  <2>2. PICK k \in DOMAIN r : \E v \in DOMAIN r[k].msgs : B(k) = j /\ P(k, v) = y
    BY <1>1, <2>1
  <2>. QED  BY <1>1, <2>2
<1>6. ASSUME m \in Queued(r)
      PROVE  \E i, j \in DOMAIN q : \E x \in DOMAIN q[i].msgs, y \in DOMAIN q[j].msgs :
               Before(i, x, j, y) /\ q[i].msgs[x] = m /\ q[j].msgs[y] = m
  <2>1. PICK k \in DOMAIN r : \E v \in DOMAIN r[k].msgs : r[k].msgs[v] = m
    BY <1>6 DEF Queued, MembersOf
  <2>2. PICK v \in DOMAIN r[k].msgs : r[k].msgs[v] = m
    BY <2>1
  <2>3. /\ B(k) \in DOMAIN q /\ P(k, v) \in DOMAIN q[B(k)].msgs
        /\ q[B(k)].msgs[P(k, v)] = m /\ ~(B(k) = n /\ P(k, v) = z)
    BY <1>1, <2>2
  <2>4. Before(n, z, B(k), P(k, v)) \/ Before(B(k), P(k, v), n, z)
    BY <1>2, <2>3 DEF Before
  <2>5. q[n].msgs[z] = m
    BY DEF FirstPlaceLeft
  <2>. QED  BY <2>3, <2>4, <2>5
<1>. QED  BY <1>4, <1>5, <1>6
=============================================================================
