----------------------- MODULE NativeInputQueue_proofs -----------------------
(***************************************************************************)
(* Proofs about NativeInputQueue, for any set of messages and fences and   *)
(* any bounds.  IInv is inductive: type correctness needs that only the    *)
(* head is out (mark_claim_delivery_uncertain looks at every batch), which *)
(* in turn needs the types, and the wire id of the head needs both.  That  *)
(* a message is in one place needs that one queued twice was forgotten by  *)
(* a clear, which in turn needs that what enqueue accepts again while it   *)
(* is queued is no longer in the ledger for that reason.                   *)
(***************************************************************************)
EXTENDS NativeInputQueue, InputQueueLemmas

\* What is queued is in the ledger, unless a clear erased it there.
LedgerKnowsQueued == Queued(queue) \subseteq seen \cup forgotten

\* The inductive invariant.
IInv ==
  /\ TypeOK
  /\ OnlyHeadIsOut
  /\ ClaimCarriesNewestId
  /\ EachMessageAccounted
  /\ LedgerKnowsQueued
  /\ QueuedOnce

\* The empty queue satisfies the invariant.
LEMMA InitIInv == Init => IInv
<1>. SUFFICES ASSUME Init PROVE IInv
  OBVIOUS
<1>1. queue = <<>> /\ DOMAIN queue = {}
  BY EmptySeq DEF Init
<1>2. TypeOK
  BY <1>1, EmptySeq, BoundsAssumption DEF Init, TypeOK, NoCmd
<1>3. OnlyHeadIsOut /\ ClaimCarriesNewestId
  BY <1>1 DEF OnlyHeadIsOut, ClaimCarriesNewestId
<1>4. EachMessageAccounted
  BY DEF Init, EachMessageAccounted
<1>5. LedgerKnowsQueued /\ QueuedOnce
  BY <1>1 DEF LedgerKnowsQueued, QueuedOnce, Queued
<1>. QED  BY <1>2, <1>3, <1>4, <1>5 DEF IInv

\* The first batch of a nonempty queue is a batch, and its wire id a number.
LEMMA HeadIsBatch ==
  ASSUME TypeOK, queue # <<>>
  PROVE  /\ 1 \in DOMAIN queue
         /\ queue[1] \in Batch(Fences)
         /\ queue[1].cmd \in Nat
<1>1. DOMAIN queue = 1..Len(queue) /\ Len(queue) \in Nat \ {0}
  BY LenProperties, EmptySeq DEF TypeOK
<1>2. queue[1] \in Batch(Fences)
  BY <1>1, ElementOfSeq DEF TypeOK
<1>. QED  BY <1>1, <1>2 DEF Batch

\* A queue of the right type holds messages.
LEMMA QueuedInMsgs ==
  ASSUME NEW F, NEW q \in Seq(Batch(F))
  PROVE  Queued(q) \subseteq Msgs
<1>1. \A i \in DOMAIN q : q[i] \in Batch(F)
  BY LenProperties, ElementOfSeq
<1>2. \A i \in DOMAIN q : q[i].msgs \in Seq(Msgs)
  BY <1>1 DEF Batch
<1>3. \A i \in DOMAIN q : MembersOf(q[i]) \subseteq Msgs
  BY <1>2, LenProperties, ElementOfSeq DEF MembersOf
<1>. QED  BY <1>3 DEF Queued

\* The message at a place of the queue is queued.
LEMMA PlacedIsQueued ==
  ASSUME NEW q, NEW i \in DOMAIN q, NEW x \in DOMAIN q[i].msgs
  PROVE  q[i].msgs[x] \in Queued(q)
BY DEF Queued, MembersOf

\* Whatever moves no place past another queues nothing twice.
LEMMA NothingDoubled ==
  ASSUME IInv, InOrderOf(queue', queue), UNCHANGED forgotten
  PROVE  QueuedOnce'
<1>. SUFFICES ASSUME NEW i \in DOMAIN queue', NEW j \in DOMAIN queue',
                     NEW x \in DOMAIN queue'[i].msgs, NEW y \in DOMAIN queue'[j].msgs,
                     Before(i, x, j, y), queue'[i].msgs[x] = queue'[j].msgs[y]
              PROVE  queue'[i].msgs[x] \in forgotten
  BY DEF QueuedOnce
<1>1. PICK i2 \in DOMAIN queue, j2 \in DOMAIN queue :
        \E x2 \in DOMAIN queue[i2].msgs, y2 \in DOMAIN queue[j2].msgs :
          /\ Before(i2, x2, j2, y2)
          /\ queue'[i].msgs[x] = queue[i2].msgs[x2]
          /\ queue'[j].msgs[y] = queue[j2].msgs[y2]
  BY DEF InOrderOf
<1>. QED  BY <1>1 DEF IInv, QueuedOnce

\* An operation that keeps the head preserves the invariant.
LEMMA KeepStep ==
  ASSUME IInv,
         queue' \in Seq(Batch(Fences)),
         queue' = queue \/ HeadSettled(queue, queue'),
         UNCHANGED <<seen, lastCmd, clearVars, account, admitted, withdrawn>>
  PROVE  IInv'
<1>. USE DEF IInv
<1>1. TypeOK'
  BY DEF TypeOK, clearVars, account
<1>2. CASE queue' = queue
  BY <1>1, <1>2 DEF OnlyHeadIsOut, ClaimCarriesNewestId, EachMessageAccounted,
                    LedgerKnowsQueued, QueuedOnce, account
<1>3. CASE HeadSettled(queue, queue')
  <2>1. SameButHeadState(queue, queue')
    BY <1>3 DEF HeadSettled
  <2>2. OnlyHeadIsOut'
    BY <2>1 DEF OnlyHeadIsOut, SameButHeadState
  <2>3. ClaimCarriesNewestId'
    <3>1. queue # <<>> /\ queue[1].cmd \in Nat /\ lastCmd \in Nat
      BY <2>1, HeadIsBatch, BoundsAssumption DEF SameButHeadState, TypeOK
    <3>. QED  BY <1>3, <3>1 DEF HeadSettled, ClaimCarriesNewestId, NoCmd
  <2>4. Queued(queue') = Queued(queue)
    BY <2>1, HeadRewritten DEF TypeOK
  <2>5. EachMessageAccounted' /\ LedgerKnowsQueued'
    BY <2>4 DEF EachMessageAccounted, LedgerKnowsQueued, account
  <2>6. QueuedOnce'
    BY <2>1, HeadRewrittenInOrder, NothingDoubled DEF TypeOK, account
  <2>. QED  BY <1>1, <2>2, <2>3, <2>5, <2>6
<1>. QED  BY <1>2, <1>3

\* A queue made of old batches, none further back than before, is still one in
\* which only the head is out, under the newest id.
LEMMA DrawnFromOld ==
  ASSUME IInv,
         queue' \in Seq(Batch(Fences)),
         \A i \in DOMAIN queue' : \E j \in DOMAIN queue :
           j >= i /\ SameDelivery(queue'[i], queue[j]),
         lastCmd' = lastCmd
  PROVE  OnlyHeadIsOut' /\ ClaimCarriesNewestId'
<1>1. /\ DOMAIN queue = 1..Len(queue) /\ Len(queue) \in Nat
      /\ DOMAIN queue' = 1..Len(queue') /\ Len(queue') \in Nat
  BY LenProperties DEF IInv, TypeOK
<1>2. lastCmd \in Nat
  BY BoundsAssumption DEF IInv, TypeOK
<1>3. OnlyHeadIsOut'
  <2>. SUFFICES ASSUME NEW i \in DOMAIN queue', i > 1
                PROVE  /\ queue'[i].state = "Pending"
                       /\ queue'[i].attempt = 0
                       /\ queue'[i].cmd = NoCmd
    BY DEF OnlyHeadIsOut
  <2>1. PICK j \in DOMAIN queue : j >= i /\ SameDelivery(queue'[i], queue[j])
    OBVIOUS
  <2>2. j > 1
    BY <1>1, <2>1
  <2>. QED  BY <2>1, <2>2 DEF IInv, OnlyHeadIsOut, SameDelivery
<1>4. ClaimCarriesNewestId'
  <2>. SUFFICES ASSUME queue' # <<>>
                PROVE  /\ queue'[1].state \in Claimed =>
                            queue'[1].cmd = lastCmd /\ lastCmd # NoCmd
                       /\ queue'[1].cmd <= lastCmd
    BY DEF ClaimCarriesNewestId
  <2>1. 1 \in DOMAIN queue'
    BY <1>1, EmptySeq
  <2>2. PICK j \in DOMAIN queue : j >= 1 /\ SameDelivery(queue'[1], queue[j])
    BY <2>1
  <2>3. CASE j = 1
    <3>1. queue # <<>>
      BY <2>2
    <3>. QED  BY <2>2, <2>3, <3>1
              DEF IInv, ClaimCarriesNewestId, SameDelivery
  <2>4. CASE j # 1
    <3>1. j > 1
      BY <1>1, <2>2, <2>4
    <3>. QED  BY <1>2, <2>2, <3>1
              DEF IInv, OnlyHeadIsOut, SameDelivery, NoCmd, Claimed
  <2>. QED  BY <2>3, <2>4
<1>. QED  BY <1>3, <1>4

\* Taking the head out preserves the invariant, if the history says where the
\* messages went.
LEMMA DropStep ==
  ASSUME IInv, queue # <<>>, queue' = Tail(queue),
         UNCHANGED <<seen, lastCmd, clearVars, account>>,
         \/ admitted' = admitted \cup MembersOf(queue[1]) /\ withdrawn' = withdrawn
         \/ withdrawn' = withdrawn \cup MembersOf(queue[1]) /\ admitted' = admitted
  PROVE  IInv'
<1>1. /\ queue' \in Seq(Batch(Fences))
      /\ \A i \in DOMAIN queue' : i + 1 \in DOMAIN queue /\ i \in Nat \ {0}
                                  /\ queue'[i] = queue[i + 1]
      /\ Queued(queue') \subseteq Queued(queue)
  BY HeadDropped DEF IInv, TypeOK
<1>2. \A i \in DOMAIN queue' : \E j \in DOMAIN queue :
        j >= i /\ SameDelivery(queue'[i], queue[j])
  <2>. TAKE i \in DOMAIN queue'
  <2>1. i + 1 >= i /\ SameDelivery(queue'[i], queue[i + 1]) /\ i + 1 \in DOMAIN queue
    BY <1>1 DEF SameDelivery
  <2>. QED  BY <2>1
<1>3. OnlyHeadIsOut' /\ ClaimCarriesNewestId'
  BY <1>1, <1>2, DrawnFromOld
<1>4. 1 \in DOMAIN queue /\ MembersOf(queue[1]) \subseteq Queued(queue)
      /\ Queued(queue) \subseteq Msgs
  BY HeadIsBatch, QueuedInMsgs DEF IInv, TypeOK, Queued
<1>5. TypeOK'
  BY <1>1, <1>4 DEF IInv, TypeOK, clearVars, account
<1>6. Queued(queue) \subseteq Queued(queue') \cup MembersOf(queue[1])
  <2>1. /\ DOMAIN queue = 1..Len(queue) /\ Len(queue) \in Nat
        /\ DOMAIN queue' = 1..(Len(queue) - 1)
    BY <1>1, HeadTailProperties, LenProperties DEF IInv, TypeOK
  <2>2. ASSUME NEW i \in DOMAIN queue, i # 1
        PROVE  MembersOf(queue[i]) \subseteq Queued(queue')
    <3>1. i - 1 \in DOMAIN queue' /\ (i - 1) + 1 = i
      BY <2>1, <2>2
    <3>2. queue'[i - 1] = queue[i]
      BY <1>1, <3>1
    <3>. QED  BY <3>1, <3>2 DEF Queued
  <2>. QED  BY <2>2 DEF Queued
<1>7. ASSUME NEW m \in MembersOf(queue[1]), m \in Queued(queue')
      PROVE  m \in forgotten
  <2>1. PICK x \in DOMAIN queue[1].msgs : m = queue[1].msgs[x]
    BY DEF MembersOf
  <2>2. PICK i \in DOMAIN queue' : m \in MembersOf(queue'[i])
    BY <1>7 DEF Queued
  <2>3. PICK y \in DOMAIN queue[i + 1].msgs : m = queue[i + 1].msgs[y]
    BY <1>1, <2>2 DEF MembersOf
  <2>4. Before(1, x, i + 1, y) /\ i + 1 \in DOMAIN queue
    BY <1>1 DEF Before
  <2>. QED  BY <1>4, <2>1, <2>3, <2>4 DEF IInv, QueuedOnce
<1>8. EachMessageAccounted'
  <2>. SUFFICES ASSUME NEW m \in Msgs, order[m] # 0
                PROVE  /\ m \in Queued(queue') \cup admitted' \cup withdrawn'
                       /\ m \notin forgotten =>
                            /\ m \in Queued(queue') => m \notin admitted' \cup withdrawn'
                            /\ m \in admitted' => m \notin withdrawn'
    BY DEF EachMessageAccounted, account
  <2>1. /\ m \in Queued(queue) \cup admitted \cup withdrawn
        /\ m \notin forgotten =>
             /\ m \in Queued(queue) => m \notin admitted \cup withdrawn
             /\ m \in admitted => m \notin withdrawn
    BY DEF IInv, EachMessageAccounted
  <2>. QED  BY <1>1, <1>4, <1>6, <1>7, <2>1
<1>9. LedgerKnowsQueued'
  BY <1>1 DEF IInv, LedgerKnowsQueued, account
<1>10. QueuedOnce'
  BY HeadDroppedInOrder, NothingDoubled DEF IInv, TypeOK, account
<1>. QED  BY <1>3, <1>5, <1>8, <1>9, <1>10 DEF IInv

\* enqueue preserves the invariant.
LEMMA EnqueueStep ==
  ASSUME IInv, NEW m \in Msgs, NEW f \in Fences, Enqueue(m, f)
  PROVE  IInv'
<1>1. /\ queue' \in Seq(Batch(Fences))
      /\ queue' # <<>>
      /\ Queued(queue') = Queued(queue) \cup {m}
      /\ \A i \in DOMAIN queue' :
           \/ i \in DOMAIN queue /\ SameDelivery(queue'[i], queue[i])
           \/ i \notin DOMAIN queue /\ SameDelivery(queue'[i], NewBatch(m, f))
  BY MessageEnqueued DEF IInv, TypeOK, Enqueue
<1>2. TypeOK'
  BY <1>1 DEF IInv, TypeOK, Enqueue, clearVars
<1>3. \A i \in DOMAIN queue' :
        \/ i \in DOMAIN queue /\ SameDelivery(queue'[i], queue[i])
        \/ queue'[i].state = "Pending" /\ queue'[i].attempt = 0
           /\ queue'[i].cmd = NoCmd
  BY <1>1 DEF SameDelivery, NewBatch
<1>4. OnlyHeadIsOut'
  BY <1>3 DEF IInv, OnlyHeadIsOut, SameDelivery
<1>5. ClaimCarriesNewestId'
  <2>1. 1 \in DOMAIN queue'
    BY <1>1, LenProperties, EmptySeq
  <2>2. lastCmd \in Nat /\ lastCmd' = lastCmd
    BY BoundsAssumption DEF IInv, TypeOK, Enqueue
  <2>3. CASE queue'[1].state = "Pending" /\ queue'[1].cmd = NoCmd
    BY <2>2, <2>3 DEF ClaimCarriesNewestId, Claimed, NoCmd
  <2>4. CASE 1 \in DOMAIN queue /\ SameDelivery(queue'[1], queue[1])
    <3>1. queue # <<>>
      BY <2>4
    <3>. QED  BY <2>2, <2>4, <3>1 DEF IInv, ClaimCarriesNewestId, SameDelivery
  <2>. QED  BY <1>3, <2>1, <2>3, <2>4
<1>6. EachMessageAccounted'
  <2>. SUFFICES ASSUME NEW x \in Msgs, order'[x] # 0
                PROVE  /\ x \in Queued(queue') \cup admitted' \cup withdrawn'
                       /\ x \notin forgotten' =>
                            /\ x \in Queued(queue') => x \notin admitted' \cup withdrawn'
                            /\ x \in admitted' => x \notin withdrawn'
    BY DEF EachMessageAccounted
  <2>1. /\ admitted' = admitted \ {m} /\ withdrawn' = withdrawn \ {m}
        /\ forgotten' = forgotten \ ({m} \ Queued(queue))
    BY DEF Enqueue
  <2>2. CASE x = m
    BY <1>1, <2>1, <2>2
  <2>3. CASE x # m
    <3>1. order[x] # 0
      BY <2>3 DEF Enqueue, IInv, TypeOK
    <3>. QED  BY <1>1, <2>1, <2>3, <3>1 DEF IInv, EachMessageAccounted
  <2>. QED  BY <2>2, <2>3
<1>7. LedgerKnowsQueued'
  BY <1>1 DEF IInv, LedgerKnowsQueued, Enqueue
<1>8. QueuedOnce'
  <2>. SUFFICES ASSUME NEW i \in DOMAIN queue', NEW j \in DOMAIN queue',
                       NEW x \in DOMAIN queue'[i].msgs, NEW y \in DOMAIN queue'[j].msgs,
                       Before(i, x, j, y), queue'[i].msgs[x] = queue'[j].msgs[y]
                PROVE  queue'[i].msgs[x] \in forgotten'
    BY DEF QueuedOnce
  <2>1. /\ i \in DOMAIN queue /\ x \in DOMAIN queue[i].msgs
        /\ queue'[i].msgs[x] = queue[i].msgs[x]
        /\ \/ queue'[j].msgs[y] = m
           \/ /\ j \in DOMAIN queue /\ y \in DOMAIN queue[j].msgs
              /\ queue'[j].msgs[y] = queue[j].msgs[y]
    BY EnqueuedInOrder DEF IInv, TypeOK, Enqueue
  <2>2. queue[i].msgs[x] \in Queued(queue)
    BY <2>1, PlacedIsQueued
  <2>3. CASE queue'[j].msgs[y] = m
    BY <2>1, <2>2, <2>3 DEF IInv, LedgerKnowsQueued, Enqueue
  <2>4. CASE /\ j \in DOMAIN queue /\ y \in DOMAIN queue[j].msgs
             /\ queue'[j].msgs[y] = queue[j].msgs[y]
    BY <2>1, <2>2, <2>4 DEF IInv, QueuedOnce, Enqueue
  <2>. QED  BY <2>1, <2>3, <2>4
<1>. QED  BY <1>2, <1>4, <1>5, <1>6, <1>7, <1>8 DEF IInv

\* claim_next preserves the invariant: the id it draws is the newest.
LEMMA ClaimStep ==
  ASSUME IInv, Claim
  PROVE  IInv'
<1>1. /\ queue # <<>> /\ queue' = ClaimHead(queue, lastCmd + 1)
      /\ lastCmd \in Nat /\ lastCmd' = lastCmd + 1 /\ lastCmd < MaxClaims
      /\ UNCHANGED <<seen, clears, clearing, order, accepted, forgotten,
                     admitted, withdrawn>>
  BY BoundsAssumption DEF clearVars, account, Claim, Claimable, IInv, TypeOK
<1>2. /\ queue' \in Seq(Batch(Fences))
      /\ SameButHeadState(queue, queue')
      /\ queue'[1].cmd = lastCmd + 1
  <2>1. queue \in Seq(Batch(Fences)) /\ lastCmd + 1 \in Nat
    BY <1>1 DEF IInv, TypeOK
  <2>2. /\ ClaimHead(queue, lastCmd + 1) \in Seq(Batch(Fences))
        /\ SameButHeadState(queue, ClaimHead(queue, lastCmd + 1))
        /\ ClaimHead(queue, lastCmd + 1)[1].cmd = lastCmd + 1
    BY <1>1, <2>1, HeadClaimed
  <2>. QED  BY <1>1, <2>2
<1>3. TypeOK'
  BY <1>1, <1>2, BoundsAssumption DEF IInv, TypeOK
<1>4. OnlyHeadIsOut'
  BY <1>2 DEF IInv, OnlyHeadIsOut, SameButHeadState
<1>5. ClaimCarriesNewestId'
  BY <1>1, <1>2 DEF ClaimCarriesNewestId, NoCmd
<1>6. EachMessageAccounted' /\ LedgerKnowsQueued'
  <2>1. Queued(queue') = Queued(queue)
    BY <1>2, HeadRewritten DEF IInv, TypeOK
  <2>. QED  BY <1>1, <2>1 DEF IInv, EachMessageAccounted, LedgerKnowsQueued
<1>7. QueuedOnce'
  BY <1>1, <1>2, HeadRewrittenInOrder, NothingDoubled DEF IInv, TypeOK
<1>. QED  BY <1>3, <1>4, <1>5, <1>6, <1>7 DEF IInv

\* cancel_pending preserves the invariant.
LEMMA CancelStep ==
  ASSUME IInv, NEW m \in Msgs, Cancel(m)
  PROVE  IInv'
<1>1. /\ queue' \in Seq(Batch(Fences))
      /\ \A i \in DOMAIN queue' : \E j \in DOMAIN queue :
           /\ j >= i
           /\ SameDelivery(queue'[i], queue[j])
           /\ MembersOf(queue'[i]) \subseteq MembersOf(queue[j])
  BY MessageCancelled DEF IInv, TypeOK, Cancel, Withdraw
<1>2. OnlyHeadIsOut' /\ ClaimCarriesNewestId'
  <2>1. \A i \in DOMAIN queue' : \E j \in DOMAIN queue :
           j >= i /\ SameDelivery(queue'[i], queue[j])
    BY <1>1
  <2>2. lastCmd' = lastCmd
    BY DEF Cancel, Withdraw
  <2>. QED  BY <1>1, <2>1, <2>2, DrawnFromOld
<1>3. Queued(queue') \subseteq Queued(queue) /\ m \in Queued(queue)
  BY <1>1 DEF Queued, Cancel, Cancellable
<1>4. /\ withdrawn' = withdrawn \cup {m}
      /\ UNCHANGED <<seen, lastCmd, clears, clearing, order, accepted, forgotten, admitted>>
  BY DEF Cancel, Withdraw, clearVars, account
<1>5. TypeOK'
  BY <1>1, <1>4 DEF IInv, TypeOK
<1>6. /\ InOrderOf(queue', queue)
      /\ Queued(queue) \ {m} \subseteq Queued(queue')
      /\ m \in Queued(queue') => m \in forgotten
  BY CancelledInOrder DEF IInv, TypeOK, QueuedOnce, Cancel, Withdraw
<1>7. EachMessageAccounted'
  <2>. SUFFICES ASSUME NEW x \in Msgs, order[x] # 0
                PROVE  /\ x \in Queued(queue') \cup admitted \cup withdrawn'
                       /\ x \notin forgotten =>
                            /\ x \in Queued(queue') => x \notin admitted \cup withdrawn'
                            /\ x \in admitted => x \notin withdrawn'
    BY <1>4 DEF EachMessageAccounted
  <2>1. /\ x \in Queued(queue) \cup admitted \cup withdrawn
        /\ x \notin forgotten =>
             /\ x \in Queued(queue) => x \notin admitted \cup withdrawn
             /\ x \in admitted => x \notin withdrawn
    BY DEF IInv, EachMessageAccounted
  <2>. QED  BY <1>3, <1>4, <1>6, <2>1
<1>8. LedgerKnowsQueued'
  BY <1>3, <1>4 DEF IInv, LedgerKnowsQueued
<1>9. QueuedOnce'
  BY <1>4, <1>6, NothingDoubled
<1>. QED  BY <1>2, <1>5, <1>7, <1>8, <1>9 DEF IInv

\* The first half of clear preserves the invariant: what was queued is withdrawn.
LEMMA ClearQueueStep ==
  ASSUME IInv, ClearQueue
  PROVE  IInv'
<1>1. /\ queue' = <<>> /\ DOMAIN queue' = {} /\ Queued(queue') = {}
      /\ UNCHANGED <<seen, lastCmd, order, accepted, forgotten, admitted>>
      /\ clears < MaxClears /\ clears' = clears + 1 /\ clearing' = clearing + 1
      /\ withdrawn' = withdrawn \cup Queued(queue)
  BY EmptySeq DEF ClearQueue, Withdraw, account, Queued
<1>2. TypeOK'
  BY <1>1, EmptySeq, QueuedInMsgs, BoundsAssumption DEF IInv, TypeOK
<1>3. OnlyHeadIsOut' /\ ClaimCarriesNewestId' /\ LedgerKnowsQueued' /\ QueuedOnce'
  BY <1>1 DEF OnlyHeadIsOut, ClaimCarriesNewestId, LedgerKnowsQueued, QueuedOnce
<1>4. EachMessageAccounted'
  BY <1>1 DEF IInv, EachMessageAccounted
<1>. QED  BY <1>2, <1>3, <1>4 DEF IInv

\* The second half too: what is queued by now is forgotten with the rest.
LEMMA ClearLedgerStep ==
  ASSUME IInv, ClearLedger
  PROVE  IInv'
<1>1. /\ UNCHANGED <<queue, lastCmd, clears, order, accepted, admitted, withdrawn>>
      /\ clearing > 0 /\ clearing' = clearing - 1
      /\ seen' = {} /\ forgotten' = forgotten \cup Queued(queue)
  BY DEF ClearLedger
<1>2. TypeOK'
  BY <1>1, QueuedInMsgs, BoundsAssumption DEF IInv, TypeOK
<1>3. OnlyHeadIsOut' /\ ClaimCarriesNewestId' /\ LedgerKnowsQueued' /\ QueuedOnce'
  BY <1>1 DEF IInv, OnlyHeadIsOut, ClaimCarriesNewestId, LedgerKnowsQueued, QueuedOnce
<1>4. EachMessageAccounted'
  BY <1>1 DEF IInv, EachMessageAccounted
<1>. QED  BY <1>2, <1>3, <1>4 DEF IInv

\* A queue is not its own tail.
LEMMA TailDiffers ==
  ASSUME NEW F, NEW q \in Seq(Batch(F)), q # <<>>
  PROVE  Tail(q) # q
<1>1. Len(Tail(q)) = Len(q) - 1 /\ Len(q) \in Nat
  BY HeadTailProperties, LenProperties
<1>. SUFFICES ASSUME Tail(q) = q PROVE FALSE
  OBVIOUS
<1>2. Len(q) = Len(q) - 1
  BY <1>1, Zenon
<1>. QED  BY <1>1, <1>2

\* Every step preserves the invariant: one case per operation.
LEMMA NextIInv ==
  ASSUME IInv, [Next]_vars
  PROVE  IInv'
<1>. DEFINE Others == <<seen, lastCmd, clearVars, account, admitted, withdrawn>>
<1>0. queue \in Seq(Batch(Fences)) /\ RestIsFresh(queue)
  BY DEF IInv, TypeOK, OnlyHeadIsOut, RestIsFresh
<1>1. ASSUME NEW m \in Msgs, NEW f \in Fences, Enqueue(m, f) PROVE IInv'
  BY <1>1, EnqueueStep
<1>2. CASE Claim
  BY <1>2, ClaimStep
<1>3. ASSUME NEW c \in Wire, Admit(c) PROVE IInv'
  <2>1. CASE HeadOwnedBy(queue, c, Claimed)
    BY <1>0, <1>3, <2>1, TailDiffers, DropStep DEF Admit, Taken, ConfirmAdmitted, HeadOwnedBy
  <2>2. CASE ~HeadOwnedBy(queue, c, Claimed)
    <3>1. queue' = queue /\ UNCHANGED Others
      BY <1>3, <2>2 DEF Admit, Taken, ConfirmAdmitted
    <3>. QED  BY <1>0, <3>1, KeepStep
  <2>. QED  BY <2>1, <2>2
<1>4. ASSUME NEW c \in Wire, Reject(c) PROVE IInv'
  BY <1>0, <1>4, HeadKept, KeepStep DEF Reject, Keep
<1>5. ASSUME NEW m \in Msgs, NEW a \in Attempt, Release(m, a) PROVE IInv'
  BY <1>0, <1>5, HeadKept, KeepStep DEF Release, Keep
<1>6. ASSUME NEW m \in Msgs, NEW c \in Wire, NEW a \in Attempt, NotStarted(m, c, a)
      PROVE IInv'
  BY <1>0, <1>6, HeadKept, KeepStep DEF NotStarted, Keep
<1>7. ASSUME NEW c \in Wire, UncertainCommand(c) PROVE IInv'
  BY <1>0, <1>7, HeadKept, KeepStep DEF UncertainCommand, Keep
<1>8. ASSUME NEW c \in Wire, NEW a \in Attempt, UncertainDispatch(c, a) PROVE IInv'
  BY <1>0, <1>8, HeadKept, KeepStep DEF UncertainDispatch, Keep
<1>9. ASSUME NEW m \in Msgs, NEW a \in Attempt, UncertainClaim(m, a) PROVE IInv'
  BY <1>0, <1>9, ClaimMarked, KeepStep DEF UncertainClaim, Keep
<1>10. ASSUME NEW c \in Wire, Stop(c) PROVE IInv'
  <2>1. CASE HeadOwnedBy(queue, c, DeliveryState)
    BY <1>0, <1>10, <2>1, TailDiffers, DropStep DEF Stop, Withdraw, Taken, RemoveDispatch, HeadOwnedBy
  <2>2. CASE ~HeadOwnedBy(queue, c, DeliveryState)
    <3>1. queue' = queue /\ UNCHANGED Others
      BY <1>10, <2>2 DEF Stop, Withdraw, Taken, RemoveDispatch
    <3>. QED  BY <1>0, <3>1, KeepStep
  <2>. QED  BY <2>1, <2>2
<1>11. ASSUME NEW m \in Msgs, Cancel(m) PROVE IInv'
  BY <1>11, CancelStep
<1>12. CASE ClearQueue
  BY <1>12, ClearQueueStep
<1>13. CASE ClearLedger
  BY <1>13, ClearLedgerStep
<1>14. CASE UNCHANGED vars
  BY <1>0, <1>14, KeepStep DEF vars
<1>. QED
  BY <1>1, <1>2, <1>3, <1>4, <1>5, <1>6, <1>7, <1>8, <1>9, <1>10, <1>11, <1>12,
     <1>13, <1>14 DEF Next

-----------------------------------------------------------------------------
\* The invariant holds in every behaviour.
THEOREM Invariant == Spec => []IInv
<1>1. Init => IInv
  BY InitIInv
<1>2. IInv /\ [Next]_vars => IInv'
  BY NextIInv
<1>. QED  BY <1>1, <1>2, PTL DEF Spec

\* Type correctness, whatever the callers do (native_input_queue.rs).
THEOREM TypeCorrect == Spec => []TypeOK
<1>1. IInv => TypeOK
  BY DEF IInv
<1>. QED  BY <1>1, Invariant, PTL

\* Only the head of the FIFO is ever out for delivery: claim_next looks at the
\* head alone, and enqueue never changes the state of a batch.
THEOREM HeadOnly == Spec => []OnlyHeadIsOut
<1>1. IInv => OnlyHeadIsOut
  BY DEF IInv
<1>. QED  BY <1>1, Invariant, PTL

\* A batch out for delivery carries the newest wire id (claim_next draws a fresh
\* one per attempt): a receipt for an older id finds nothing to change.
THEOREM NewestId == Spec => []ClaimCarriesNewestId
<1>1. IInv => ClaimCarriesNewestId
  BY DEF IInv
<1>. QED  BY <1>1, Invariant, PTL

\* No message that was accepted is lost, and one that no clear forgot while it
\* was queued is in one place only.
THEOREM Accounted == Spec => []EachMessageAccounted
<1>1. IInv => EachMessageAccounted
  BY DEF IInv
<1>. QED  BY <1>1, Invariant, PTL

\* A batch out for delivery is never changed by a cancel or by a merge: the
\* messages of a claimed head stay what the helper was sent (enqueue merges into
\* a Pending tail only, cancel_pending takes from a Pending batch only).
THEOREM ClaimedFrozen == Spec => ClaimedBatchIsFrozen
<1>. DEFINE Frozen == \/ queue = <<>> \/ queue' = <<>>
                      \/ queue[1].state \notin Claimed
                      \/ queue'[1].msgs = queue[1].msgs
                      \/ queue' = Tail(queue)
<1>1. ASSUME IInv, [Next]_vars
      PROVE  [Frozen]_vars
  <2>. SUFFICES ASSUME Next, queue # <<>>, queue' # <<>>,
                       queue[1].state \in Claimed, queue' # Tail(queue)
                PROVE  queue'[1].msgs = queue[1].msgs
    BY <1>1
  <2>0. queue \in Seq(Batch(Fences)) /\ RestIsFresh(queue) /\ 1 \in DOMAIN queue
    BY <1>1, HeadIsBatch DEF IInv, TypeOK, OnlyHeadIsOut, RestIsFresh
  <2>1. ASSUME NEW m \in Msgs, NEW f \in Fences, Enqueue(m, f)
        PROVE  queue'[1].msgs = queue[1].msgs
    BY <2>0, <2>1, MessageEnqueued DEF Enqueue
  <2>2. CASE Claim
    BY <2>2 DEF Claim, Claimable, Claimed
  <2>3. ASSUME NEW c, NEW m, NEW a,
               \/ queue' = ConfirmRejected(queue, c)
               \/ queue' = ReleaseDispatch(queue, m, a)
               \/ queue' = ReleaseNotStarted(queue, m, c, a)
               \/ queue' = MarkCommandUncertain(queue, c)
               \/ queue' = MarkDispatchUncertain(queue, c, a)
        PROVE  queue'[1].msgs = queue[1].msgs
    <3>1. queue' = queue \/ HeadSettled(queue, queue')
      BY <2>0, <2>3, HeadKept
    <3>. QED  BY <3>1 DEF HeadSettled, SameButHeadState
  <2>4. ASSUME NEW m \in Msgs, NEW a \in Attempt, UncertainClaim(m, a)
        PROVE  queue'[1].msgs = queue[1].msgs
    BY <2>0, <2>4, ClaimMarked
    DEF UncertainClaim, Keep, HeadSettled, SameButHeadState
  <2>5. ASSUME NEW c \in Wire, Admit(c) \/ Stop(c)
        PROVE  queue'[1].msgs = queue[1].msgs
    BY <2>5 DEF Admit, Stop, Withdraw, ConfirmAdmitted, RemoveDispatch
  <2>6. ASSUME NEW m \in Msgs, Cancel(m)
        PROVE  queue'[1].msgs = queue[1].msgs
    BY <2>0, <2>6, MessageCancelled DEF Cancel, Withdraw
  <2>7. CASE ClearQueue \/ ClearLedger
    BY <2>7 DEF ClearQueue, ClearLedger, Withdraw
  <2>. QED
    BY <2>1, <2>2, <2>3, <2>4, <2>5, <2>6, <2>7
    DEF Next, Reject, Release, NotStarted, UncertainCommand, UncertainDispatch, Keep
<1>. QED  BY <1>1, Invariant, PTL DEF Spec, ClaimedBatchIsFrozen

-----------------------------------------------------------------------------
(* Order.  Acceptances are numbered, so order is kept as long as no         *)
(* operation swaps two places, a new message goes last, and of two places   *)
(* of a message the first is the one taken out.                             *)

\* A queued message was accepted, and under a number already given.
NumbersAreGiven ==
  /\ \A m \in Queued(queue) : order[m] # 0
  /\ \A m \in Msgs : order[m] <= accepted

OrderInv == IInv /\ NumbersAreGiven /\ FifoOrder

\* An operation that accepts nothing and swaps nothing keeps the order.
LEMMA SameOrderStep ==
  ASSUME OrderInv, IInv', UNCHANGED <<order, accepted>>,
         InOrderOf(queue', queue), Queued(queue') \subseteq Queued(queue)
  PROVE  OrderInv'
<1>1. NumbersAreGiven'
  BY DEF OrderInv, NumbersAreGiven
<1>2. FifoOrder'
  <2>. SUFFICES ASSUME NEW i \in DOMAIN queue', NEW j \in DOMAIN queue',
                       NEW x \in DOMAIN queue'[i].msgs,
                       NEW y \in DOMAIN queue'[j].msgs,
                       Before(i, x, j, y), LastCopy(queue', i, x)
                PROVE  order[queue'[i].msgs[x]] < order[queue'[j].msgs[y]]
    BY DEF FifoOrder
  <2>1. PICK i2 \in DOMAIN queue, j2 \in DOMAIN queue :
          \E x2 \in DOMAIN queue[i2].msgs, y2 \in DOMAIN queue[j2].msgs :
            /\ Before(i2, x2, j2, y2)
            /\ queue'[i].msgs[x] = queue[i2].msgs[x2]
            /\ queue'[j].msgs[y] = queue[j2].msgs[y2]
            /\ LastCopy(queue, i2, x2)
    BY DEF InOrderOf
  <2>. QED  BY <2>1 DEF OrderInv, FifoOrder
<1>. QED  BY <1>1, <1>2 DEF OrderInv

\* Every step keeps the order.
LEMMA NextOrderInv ==
  ASSUME OrderInv, [Next]_vars
  PROVE  OrderInv'
<1>. DEFINE Unaccepting == UNCHANGED <<order, accepted>>
<1>0. /\ queue \in Seq(Batch(Fences)) /\ RestIsFresh(queue)
      /\ IInv' /\ queue' \in Seq(Batch(Fences))
  BY NextIInv DEF OrderInv, IInv, TypeOK, OnlyHeadIsOut, RestIsFresh
<1>1. ASSUME queue' = queue \/ SameButHeadState(queue, queue'), Unaccepting
      PROVE  OrderInv'
  <2>1. CASE queue' = queue
    <3>1. InOrderOf(queue, queue)
      BY DEF InOrderOf
    <3>. QED  BY <1>0, <1>1, <2>1, <3>1, SameOrderStep
  <2>2. CASE SameButHeadState(queue, queue')
    BY <1>0, <1>1, <2>2, HeadRewrittenInOrder, HeadRewritten, SameOrderStep
  <2>. QED  BY <1>1, <2>1, <2>2
<1>2. ASSUME queue # <<>>, queue' = Tail(queue), Unaccepting
      PROVE  OrderInv'
  BY <1>0, <1>2, HeadDropped, HeadDroppedInOrder, SameOrderStep
<1>3. ASSUME NEW m \in Msgs, NEW f \in Fences, Enqueue(m, f) PROVE OrderInv'
  <2>1. /\ queue' = Enqueued(queue, m, f)
        /\ order \in [Msgs -> Nat] /\ accepted \in Nat
        /\ order' = [order EXCEPT ![m] = accepted + 1]
        /\ accepted' = accepted + 1
    BY <1>3 DEF Enqueue, OrderInv, IInv, TypeOK
  <2>2. Queued(queue') = Queued(queue) \cup {m} /\ Queued(queue) \subseteq Msgs
    BY <1>0, <2>1, MessageEnqueued, QueuedInMsgs
  <2>3. NumbersAreGiven'
    BY <2>1, <2>2 DEF OrderInv, NumbersAreGiven
  <2>4. PICK n \in DOMAIN queue' :
          \E z \in DOMAIN queue'[n].msgs : LastPlaceAdded(queue, queue', m, n, z)
    <3>1. \E n \in DOMAIN Enqueued(queue, m, f) :
            \E z \in DOMAIN Enqueued(queue, m, f)[n].msgs :
              LastPlaceAdded(queue, Enqueued(queue, m, f), m, n, z)
      BY <1>0, EnqueuedPlaces
    <3>. QED  BY <2>1, <3>1
  <2>5. PICK z \in DOMAIN queue'[n].msgs : LastPlaceAdded(queue, queue', m, n, z)
    BY <2>4
  <2>6. FifoOrder'
    <3>. SUFFICES ASSUME NEW i \in DOMAIN queue', NEW j \in DOMAIN queue',
                         NEW x \in DOMAIN queue'[i].msgs,
                         NEW y \in DOMAIN queue'[j].msgs,
                         Before(i, x, j, y), LastCopy(queue', i, x)
                  PROVE  order'[queue'[i].msgs[x]] < order'[queue'[j].msgs[y]]
      BY DEF FifoOrder
    <3>1. /\ i \in DOMAIN queue /\ x \in DOMAIN queue[i].msgs
          /\ queue'[i].msgs[x] = queue[i].msgs[x]
          /\ \/ queue'[j].msgs[y] = m
             \/ /\ j \in DOMAIN queue /\ y \in DOMAIN queue[j].msgs
                /\ queue'[j].msgs[y] = queue[j].msgs[y]
      BY <1>0, <2>1, EnqueuedInOrder
    <3>2. queue[i].msgs[x] \in Queued(queue) /\ queue[i].msgs[x] # m
      BY <2>5, <3>1, PlacedIsQueued DEF LastCopy, LastPlaceAdded
    <3>3. order'[queue'[i].msgs[x]] = order[queue[i].msgs[x]]
          /\ order[queue[i].msgs[x]] \in Nat /\ order[queue[i].msgs[x]] < accepted + 1
      BY <2>1, <2>2, <3>1, <3>2 DEF OrderInv, NumbersAreGiven
    <3>4. CASE queue'[j].msgs[y] = m
      BY <2>1, <3>3, <3>4
    <3>5. CASE /\ j \in DOMAIN queue /\ y \in DOMAIN queue[j].msgs
               /\ queue'[j].msgs[y] = queue[j].msgs[y] /\ queue'[j].msgs[y] # m
      <4>1. queue[j].msgs[y] \in Queued(queue)
        BY <3>5, PlacedIsQueued
      <4>2. LastCopy(queue, i, x)
        BY <2>5, <3>1 DEF LastCopy, LastPlaceAdded
      <4>3. order[queue[i].msgs[x]] < order[queue[j].msgs[y]]
        BY <3>1, <3>5, <4>2 DEF OrderInv, FifoOrder
      <4>. QED  BY <2>1, <2>2, <3>3, <3>5, <4>1, <4>3
    <3>. QED  BY <3>1, <3>4, <3>5
  <2>. QED  BY <1>0, <2>3, <2>6 DEF OrderInv
<1>4. CASE Claim
  <2>1. /\ lastCmd + 1 \in Nat /\ queue # <<>>
        /\ queue' = ClaimHead(queue, lastCmd + 1) /\ Unaccepting
    BY <1>4, BoundsAssumption DEF Claim, account, Claimable, OrderInv, IInv, TypeOK
  <2>2. SameButHeadState(queue, queue')
    BY <1>0, <2>1, HeadClaimed
  <2>. QED  BY <1>1, <2>1, <2>2
<1>5. ASSUME NEW c, NEW m, NEW a,
             \/ queue' = ConfirmRejected(queue, c)
             \/ queue' = ReleaseDispatch(queue, m, a)
             \/ queue' = ReleaseNotStarted(queue, m, c, a)
             \/ queue' = MarkCommandUncertain(queue, c)
             \/ queue' = MarkDispatchUncertain(queue, c, a),
             Unaccepting
      PROVE  OrderInv'
  <2>1. queue' = queue \/ HeadSettled(queue, queue')
    BY <1>0, <1>5, HeadKept
  <2>. QED  BY <1>1, <1>5, <2>1 DEF HeadSettled
<1>6. ASSUME NEW m \in Msgs, NEW a \in Attempt, UncertainClaim(m, a)
      PROVE  OrderInv'
  <2>1. queue' = queue \/ HeadSettled(queue, queue')
    BY <1>0, <1>6, ClaimMarked DEF UncertainClaim, Keep
  <2>. QED  BY <1>1, <1>6, <2>1 DEF HeadSettled, UncertainClaim, Keep, account
<1>7. ASSUME NEW c \in Wire, Admit(c) \/ Stop(c) PROVE OrderInv'
  <2>1. queue' = queue \/ (queue # <<>> /\ queue' = Tail(queue))
    BY <1>7 DEF Admit, Stop, Withdraw, ConfirmAdmitted, RemoveDispatch, HeadOwnedBy
  <2>2. Unaccepting
    BY <1>7 DEF Admit, Stop, Withdraw, account
  <2>. QED  BY <1>1, <1>2, <2>1, <2>2
<1>8. ASSUME NEW m \in Msgs, Cancel(m) PROVE OrderInv'
  <2>1. /\ Cancellable(queue, m) /\ queue' = CancelPending(queue, m)
        /\ Unaccepting
    BY <1>8 DEF Cancel, Withdraw, account
  <2>2. InOrderOf(queue', queue)
    BY <1>0, <2>1, CancelledInOrder
  <2>3. Queued(queue') \subseteq Queued(queue)
    BY <1>0, <2>1, MessageCancelled DEF Queued
  <2>. QED  BY <1>0, <2>1, <2>2, <2>3, SameOrderStep
<1>9. CASE ClearQueue
  <2>1. queue' = <<>> /\ DOMAIN queue' = {} /\ Unaccepting
    BY <1>9, EmptySeq DEF ClearQueue, Withdraw, account
  <2>2. FifoOrder'
    BY <2>1 DEF FifoOrder
  <2>. QED  BY <1>0, <2>1, <2>2 DEF OrderInv, NumbersAreGiven, Queued
<1>10. CASE ClearLedger
  <2>1. queue' = queue /\ Unaccepting
    BY <1>10 DEF ClearLedger
  <2>. QED  BY <1>1, <2>1
<1>11. CASE UNCHANGED vars
  BY <1>1, <1>11 DEF vars, account
<1>. QED
  BY <1>3, <1>4, <1>5, <1>6, <1>7, <1>8, <1>9, <1>10, <1>11
  DEF Next, Reject, Release, NotStarted, UncertainCommand, UncertainDispatch, Keep,
      account

\* A retry of a queued message is refused (enqueue), whatever was released, restored or
\* uncertain, unless a clear erased the message's ledger entry while it was queued.
THEOREM RetriesAreRefused == Spec => []QueuedOnce
<1>1. IInv => QueuedOnce
  BY DEF IInv
<1>. QED  BY <1>1, Invariant, PTL

\* The queue holds messages in the order they were accepted, across and within
\* batches: merging appends to the tail (enqueue), a rejected or released head
\* stays in front (confirm_rejected, release_dispatch), and cancelling takes one
\* message out, at its first place, without moving another past it
\* (cancel_pending).
THEOREM InOrder == Spec => []FifoOrder
<1>1. Init => OrderInv
  <2>. SUFFICES ASSUME Init PROVE NumbersAreGiven /\ FifoOrder
    BY InitIInv DEF OrderInv
  <2>1. DOMAIN queue = {}
    BY EmptySeq DEF Init
  <2>. QED  BY <2>1 DEF Init, NumbersAreGiven, FifoOrder, Queued
<1>2. OrderInv /\ [Next]_vars => OrderInv'
  BY NextOrderInv
<1>3. OrderInv => FifoOrder
  BY DEF OrderInv
<1>. QED  BY <1>1, <1>2, <1>3, PTL DEF Spec
=============================================================================
