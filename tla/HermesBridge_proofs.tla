-------------------------- MODULE HermesBridge_proofs --------------------------
(***************************************************************************)
(* Proofs about HermesBridge, for any bounds: an input the user confirmed   *)
(* is submitted at most once, a delivery goes out at most once, a one-word  *)
(* reply confirms one input, the decisions of a grant cover the events      *)
(* since it was given, and the end of an input is told in one way only and  *)
(* before the cursor passes it.                                             *)
(***************************************************************************)
EXTENDS HermesBridge, FiniteSetTheorems, TLAPS

LedgerFields == {"route", "account", "binding", "challenges", "journal", "operations",
                 "outbox", "cursors", "decisions"}
PollFields == {"pc", "gen", "notices", "binding", "at", "upto", "delivery", "host",
               "receipt", "decision"}
OperationFields == {"id", "challenge", "gen", "owner", "state", "invocation", "ambiguous",
                    "submits", "short"}
ChallengeFields == {"id", "owner", "gen", "message", "state", "expired", "operation"}
DeliveryFields == {"id", "gen", "kind", "of", "host", "status", "sends"}

\* The ids of the members of S are 1, 2, ..., and each names one of them.
Numbered(S) ==
  \E n \in Nat : /\ {s.id : s \in S} = 1..n
                 /\ \A s, t \in S : s.id = t.id => s = t

\* r: the operation that is about to be submitted, 0 for none.
OperationsOK(operations, r) ==
  /\ Numbered(operations)
  /\ \A o \in operations : /\ DOMAIN o = OperationFields
                           /\ o.submits \in 0..1
                           /\ o.id = r => o.submits = 0

ChallengesOK(challenges) ==
  /\ Numbered(challenges)
  /\ \A c \in challenges : DOMAIN c = ChallengeFields

\* The challenge of an operation names the operation: it is used up.
UsedUp(operations, challenges) ==
  \A o \in operations : \E c \in challenges : c.id = o.challenge /\ c.operation = o.id

OutboxOK(outbox) ==
  /\ \A d, e \in outbox : d.id = e.id => d = e
  /\ \A d \in outbox : /\ DOMAIN d = DeliveryFields
                       /\ d.sends \in 0..1
                       /\ d.status = "pending" => d.sends = 0

\* The delivery the polling thread is about to send is reserved and has not gone out.
ReservedIn(outbox, id) ==
  \E d \in outbox : d.id = id /\ d.status # "pending" /\ d.sends = 0

PollOK ==
  /\ DOMAIN poll = PollFields
  /\ poll.pc = "send" => ReservedIn(ledger.outbox, poll.delivery)
  /\ poll.pc = "finish" => poll.receipt # "pending"

BridgeInv ==
  /\ DOMAIN ledger = LedgerFields
  /\ OperationsOK(ledger.operations, rpc)
  /\ ChallengesOK(ledger.challenges)
  /\ UsedUp(ledger.operations, ledger.challenges)
  /\ OutboxOK(ledger.outbox)
  /\ PollOK

-----------------------------------------------------------------------------
\* Numbers.

\* A numbered set has as many members as numbers, so its next number is fresh.
LEMMA NumberedCardinality ==
  ASSUME NEW S, NEW n \in Nat, {s.id : s \in S} = 1..n, \A s, t \in S : s.id = t.id => s = t
  PROVE  Cardinality(S) = n /\ IsFiniteSet(S)
<1>. DEFINE f == [i \in 1..n |-> CHOOSE s \in S : s.id = i]
<1>1. \A i \in 1..n : f[i] \in S /\ f[i].id = i
  OBVIOUS
<1>2. f \in [1..n -> S]
  BY <1>1
<1>3. \A i, j \in 1..n : f[i] = f[j] => i = j
  BY <1>1
<1>4. \A s \in S : \E i \in 1..n : f[i] = s
  <2>. SUFFICES ASSUME NEW s \in S PROVE f[s.id] = s /\ s.id \in 1..n
    OBVIOUS
  <2>1. s.id \in 1..n
    OBVIOUS
  <2>. QED  BY <1>1, <2>1
<1>. HIDE DEF f
<1>5. f \in Bijection(1..n, S)
  BY <1>2, <1>3, <1>4 DEF Bijection, Injection, Surjection, IsInjective
<1>. QED  BY <1>5, FS_CountingElements, FS_NatBijection DEF ExistsBijection

\* A numbered set is finite.
LEMMA NumberedIsFinite == ASSUME NEW S, Numbered(S) PROVE IsFiniteSet(S)
BY NumberedCardinality DEF Numbered

\* A member that gets the next number.
LEMMA NextNumber ==
  ASSUME NEW S, Numbered(S), NEW x, x.id = Cardinality(S) + 1
  PROVE  /\ Numbered(S \cup {x}) /\ x \notin S
         /\ x.id # 0
         /\ Cardinality(S \cup {x}) = x.id
         /\ \A s \in S : s.id # x.id
<1>1. PICK n \in Nat : /\ {s.id : s \in S} = 1..n
                       /\ \A s, t \in S : s.id = t.id => s = t
  BY DEF Numbered
<1>2. x.id = n + 1
  BY <1>1, NumberedCardinality
<1>3. \A s \in S : s.id \in 1..n
  BY <1>1
<1>4. \A s \in S : s.id # x.id
  BY <1>2, <1>3
<1>5. {s.id : s \in S \cup {x}} = 1..(n + 1)
  <2>1. {s.id : s \in S \cup {x}} = {s.id : s \in S} \cup {x.id}
    OBVIOUS
  <2>. QED  BY <1>1, <1>2, <2>1
<1>6. \A s, t \in S \cup {x} : s.id = t.id => s = t
  BY <1>1, <1>4
<1>7. n + 1 \in Nat
  OBVIOUS
<1>8. Cardinality(S \cup {x}) = n + 1
  BY <1>5, <1>6, <1>7, NumberedCardinality
<1>. QED  BY <1>2, <1>4, <1>5, <1>6, <1>7, <1>8 DEF Numbered

\* Members that change and keep their numbers.
LEMMA SameNumbers ==
  ASSUME NEW S, Numbered(S), NEW T,
         \A s \in S : \E t \in T : t.id = s.id,
         \A t \in T : \E s \in S : t.id = s.id,
         \A t, u \in T : t.id = u.id => t = u
  PROVE  Numbered(T)
<1>1. {t.id : t \in T} = {s.id : s \in S}
  OBVIOUS
<1>. QED  BY <1>1 DEF Numbered

-----------------------------------------------------------------------------
\* The outbox.

Fresh(d) == DOMAIN d = DeliveryFields /\ d.sends = 0

\* Queueing a delivery.
LEMMA QueuedOK ==
  ASSUME NEW outbox, OutboxOK(outbox), NEW d, Fresh(d)
  PROVE  /\ OutboxOK(QueuedDelivery(outbox, d))
         /\ outbox \subseteq QueuedDelivery(outbox, d)
BY DEF OutboxOK, Fresh, QueuedDelivery

\* Queueing what a page has to tell.
LEMMA PageOK ==
  ASSUME NEW outbox, OutboxOK(outbox), NEW tell, \A d \in tell : Fresh(d),
         \A d, e \in tell : d.id = e.id => d = e
  PROVE  OutboxOK(outbox \cup {d \in tell : \A x \in outbox : x.id # d.id})
BY DEF OutboxOK, Fresh

\* A delivery that is saved takes the place of the one it was.
LEMMA SavedOK ==
  ASSUME NEW outbox, OutboxOK(outbox), NEW d, DOMAIN d = DeliveryFields, d.sends \in 0..1,
         d.status = "pending" => d.sends = 0
  PROVE  OutboxOK(Saved(outbox, d)) /\ d \in Saved(outbox, d)
BY DEF OutboxOK, Saved

\* Withdrawing deliveries and opening the outbox again.
LEMMA RevisedOK ==
  ASSUME NEW outbox, OutboxOK(outbox), NEW chosen
  PROVE  /\ OutboxOK(Withdrawn(outbox, chosen))
         /\ \A id : ReservedIn(outbox, id) => ReservedIn(Withdrawn(outbox, chosen), id)
         /\ OutboxOK(ReopenedOutbox(outbox))
<1>. DEFINE W(d) == IF d \in chosen /\ d.status = "pending"
                    THEN [d EXCEPT !.status = "revoked"] ELSE d
            R(d) == IF d.status = "sending" THEN [d EXCEPT !.status = "unknown"] ELSE d
<1>1. ASSUME NEW d \in outbox
      PROVE  /\ DOMAIN W(d) = DeliveryFields /\ W(d).id = d.id /\ W(d).sends = d.sends
             /\ W(d).status \in {d.status, "revoked"}
             /\ d.status # "pending" => W(d) = d
             /\ DOMAIN R(d) = DeliveryFields /\ R(d).id = d.id /\ R(d).sends = d.sends
             /\ R(d).status \in {d.status, "unknown"}
  BY DEF OutboxOK, DeliveryFields
<1>2. /\ Withdrawn(outbox, chosen) = {W(d) : d \in outbox}
      /\ ReopenedOutbox(outbox) = {R(d) : d \in outbox}
  BY DEF Withdrawn, ReopenedOutbox
<1>. HIDE DEF W, R
<1>3. OutboxOK({W(d) : d \in outbox})
  BY <1>1 DEF OutboxOK
<1>4. OutboxOK({R(d) : d \in outbox})
  BY <1>1 DEF OutboxOK
<1>5. \A id : ReservedIn(outbox, id) => ReservedIn({W(d) : d \in outbox}, id)
  BY <1>1 DEF ReservedIn
<1>. QED  BY <1>2, <1>3, <1>4, <1>5

-----------------------------------------------------------------------------
\* Challenges and operations.

\* Challenges that change and keep their ids and operations.
LEMMA ChallengesRevised ==
  ASSUME NEW chs, ChallengesOK(chs), NEW ops, UsedUp(ops, chs), NEW T,
         \A c \in chs : \E t \in T : t.id = c.id /\ t.operation = c.operation,
         \A t \in T : \E c \in chs : t.id = c.id,
         \A t, u \in T : t.id = u.id => t = u,
         \A t \in T : DOMAIN t = ChallengeFields
  PROVE  ChallengesOK(T) /\ UsedUp(ops, T)
<1>1. Numbered(T)
  BY SameNumbers DEF ChallengesOK
<1>. QED  BY <1>1 DEF ChallengesOK, UsedUp

\* One challenge that changes.
LEMMA ChallengeSet ==
  ASSUME NEW chs, ChallengesOK(chs), NEW c \in chs, NEW d, d.id = c.id,
         DOMAIN d = ChallengeFields
  PROVE  /\ ChallengesOK((chs \ {c}) \cup {d})
         /\ \A x \in chs : x.id # c.id => x \in (chs \ {c}) \cup {d}
         /\ \A ops : UsedUp(ops, chs) /\ d.operation = c.operation
                     => UsedUp(ops, (chs \ {c}) \cup {d})
<1>. DEFINE T == (chs \ {c}) \cup {d}
<1>1. \A s, t \in chs : s.id = t.id => s = t
  BY DEF ChallengesOK, Numbered
<1>2. \A t, u \in T : t.id = u.id => t = u
  BY <1>1
<1>3. /\ \A x \in chs : \E t \in T : t.id = x.id
      /\ \A t \in T : \E x \in chs : t.id = x.id
  OBVIOUS
<1>4. Numbered(T)
  BY <1>2, <1>3, SameNumbers DEF ChallengesOK
<1>. QED  BY <1>4 DEF ChallengesOK, UsedUp

\* Challenges that are revoked, withdrawn or expire keep their operation.
LEMMA RevokedOK ==
  ASSUME NEW l, ChallengesOK(l.challenges), NEW ops, UsedUp(ops, l.challenges), NEW owner
  PROVE  ChallengesOK(RevokedChallenges(l, owner)) /\ UsedUp(ops, RevokedChallenges(l, owner))
<1>. DEFINE R(c) == IF c.owner = owner /\ c.state = "pending"
                    THEN [c EXCEPT !.state = "revoked"] ELSE c
            chs == l.challenges
<1>1. \A c \in chs : /\ R(c).id = c.id /\ R(c).operation = c.operation
                     /\ DOMAIN R(c) = ChallengeFields
  BY DEF ChallengesOK, ChallengeFields
<1>2. RevokedChallenges(l, owner) = {R(c) : c \in chs}
  BY DEF RevokedChallenges
<1>3. \A s, t \in chs : s.id = t.id => s = t
  BY DEF ChallengesOK, Numbered
<1>. HIDE DEF R, chs
<1>. DEFINE T == {R(c) : c \in chs}
<1>4. /\ \A c \in chs : \E t \in T : t.id = c.id /\ t.operation = c.operation
      /\ \A t \in T : \E c \in chs : t.id = c.id
      /\ \A t, u \in T : t.id = u.id => t = u
      /\ \A t \in T : DOMAIN t = ChallengeFields
  BY <1>1, <1>3
<1>. HIDE DEF T
<1>5. ChallengesOK(T) /\ UsedUp(ops, T)
  BY <1>4, ChallengesRevised DEF chs
<1>. QED  BY <1>2, <1>5 DEF T

\* Operations whose state changes.
LEMMA OperationsRevised ==
  ASSUME NEW ops, NEW r, OperationsOK(ops, r), NEW chs, UsedUp(ops, chs), NEW T,
         \A o \in ops : \E t \in T : t.id = o.id,
         \A t \in T : \E o \in ops :
           t.id = o.id /\ t.challenge = o.challenge /\ t.submits = o.submits,
         \A t, u \in T : t.id = u.id => t = u,
         \A t \in T : DOMAIN t = OperationFields
  PROVE  OperationsOK(T, r) /\ UsedUp(T, chs)
<1>1. Numbered(T)
  BY SameNumbers DEF OperationsOK
<1>. QED  BY <1>1 DEF OperationsOK, UsedUp

\* Store::confirm: the operation it adds has the next number, nobody has submitted it, and
\* its challenge had none.
LEMMA ConfirmedOK ==
  ASSUME NEW l, DOMAIN l = LedgerFields, OperationsOK(l.operations, 0),
         ChallengesOK(l.challenges), UsedUp(l.operations, l.challenges),
         NEW c \in l.challenges, NEW m, NEW short
  PROVE  LET k == Confirmed(l, c, m, short)
             r == IF k.operations = l.operations THEN 0 ELSE Cardinality(k.operations)
         IN  /\ DOMAIN k = LedgerFields /\ k.outbox = l.outbox
             /\ OperationsOK(k.operations, r)
             /\ ChallengesOK(k.challenges)
             /\ UsedUp(k.operations, k.challenges)
<1>. DEFINE k == Confirmed(l, c, m, short)
            key == <<"confirm", c.owner, c.gen, m>>
            op == [id |-> Cardinality(l.operations) + 1, challenge |-> c.id, gen |-> c.gen,
                   owner |-> c.owner, state |-> "submitting", invocation |-> 0,
                   ambiguous |-> FALSE, submits |-> 0, short |-> short]
            d == [c EXCEPT !.state = "confirmed", !.operation = op.id]
            ops == l.operations \cup {op}
            chs == (l.challenges \ {c}) \cup {d}
            grown == [l EXCEPT !.operations = ops, !.challenges = chs]
<1>1. /\ DOMAIN Journal(l, key, c.id) = LedgerFields
      /\ Journal(l, key, c.id).operations = l.operations
      /\ Journal(l, key, c.id).challenges = l.challenges
      /\ Journal(l, key, c.id).outbox = l.outbox
  BY DEF Journal, LedgerFields
<1>2. CASE k = l
  BY <1>2
<1>3. CASE k = Journal(l, key, c.id)
  BY <1>1, <1>3
<1>4. CASE k = Journal(grown, key, c.id) /\ c.operation = 0
  <2>1. /\ DOMAIN k = LedgerFields /\ k.outbox = l.outbox
        /\ k.operations = ops /\ k.challenges = chs
    BY <1>4 DEF Journal, LedgerFields
  <2>2. Numbered(l.operations) /\ op.id = Cardinality(l.operations) + 1
    BY DEF OperationsOK
  <2>3. /\ DOMAIN op = OperationFields /\ op.submits = 0 /\ op.challenge = c.id
    BY DEF OperationFields
  <2>4. DOMAIN d = ChallengeFields /\ d.id = c.id /\ d.operation = op.id
    BY DEF ChallengesOK, ChallengeFields
  <2>. HIDE DEF op, d, k
  <2>5. /\ Numbered(ops) /\ op \notin l.operations /\ op.id # 0
        /\ Cardinality(ops) = op.id
        /\ \A o \in l.operations : o.id # op.id
    BY <2>2, NextNumber
  <2>6. OperationsOK(ops, Cardinality(ops))
    BY <2>3, <2>5 DEF OperationsOK
  <2>7. k.operations # l.operations
    BY <2>1, <2>5
  <2>8. /\ ChallengesOK(chs)
        /\ \A x \in l.challenges : x.id # c.id => x \in chs
    BY <2>4, ChallengeSet
  <2>9. UsedUp(ops, chs)
    <3>1. ASSUME NEW o \in l.operations
          PROVE  \E x \in chs : x.id = o.challenge /\ x.operation = o.id
      <4>1. PICK x \in l.challenges : x.id = o.challenge /\ x.operation = o.id
        BY DEF UsedUp
      <4>2. \A s, t \in l.challenges : s.id = t.id => s = t
        BY DEF ChallengesOK, Numbered
      <4>3. o.id # 0
        BY DEF OperationsOK, Numbered
      <4>4. x.id # c.id
        BY <1>4, <4>1, <4>2, <4>3
      <4>. QED  BY <2>8, <4>1, <4>4
    <3>2. \E x \in chs : x.id = op.challenge /\ x.operation = op.id
      BY <2>3, <2>4
    <3>. QED  BY <3>1, <3>2 DEF UsedUp
  <2>. QED  BY <2>1, <2>6, <2>7, <2>8, <2>9 DEF k
<1>5. k = l \/ k = Journal(l, key, c.id)
      \/ (k = Journal(grown, key, c.id) /\ c.operation = 0)
  BY DEF Confirmed
<1>. QED  BY <1>2, <1>3, <1>4, <1>5

-----------------------------------------------------------------------------
\* The steps.

\* What a step keeps when the polling thread is left alone.
LEMMA PollLeftAlone ==
  ASSUME PollOK, poll' = poll,
         \A id : ReservedIn(ledger.outbox, id) => ReservedIn(ledger'.outbox, id)
  PROVE  PollOK'
BY DEF PollOK, ReservedIn

\* A step that changes neither operations, challenges nor deliveries.
LEMMA LeftAlone ==
  ASSUME BridgeInv, DOMAIN ledger' = LedgerFields, rpc' = rpc,
         ledger'.operations = ledger.operations, ledger'.challenges = ledger.challenges,
         ledger'.outbox = ledger.outbox, PollOK'
  PROVE  BridgeInv'
BY DEF BridgeInv, OperationsOK, ChallengesOK, UsedUp, OutboxOK, Numbered

\* Preparing an input.
LEMMA PrepareKeepsInv ==
  ASSUME BridgeInv, NEW m, PrepareInput(m)
  PROVE  BridgeInv'
<1>. DEFINE key == <<"input", Owner, Route.gen, m>>
            fresh == [id |-> Cardinality(ledger.challenges) + 1, owner |-> Owner,
                      gen |-> Route.gen, message |-> m, state |-> "pending",
                      expired |-> FALSE, operation |-> 0]
            known == {c \in ledger.challenges : Journaled(key) /\ c.id = Entry(key).value}
            Prepared(c) == IF known # {} THEN ledger
                           ELSE Journal([ledger EXCEPT !.challenges = @ \cup {c}], key, c.id)
<1>1. PICK c \in IF known # {} THEN known ELSE {fresh}, show \in BOOLEAN :
        ledger' = IF show
                  THEN [Prepared(c) EXCEPT !.outbox = QueuedDelivery(@, Preview(c))]
                  ELSE Prepared(c)
  BY DEF PrepareInput
<1>2. /\ DOMAIN ledger = LedgerFields /\ OutboxOK(ledger.outbox) /\ PollOK
      /\ OperationsOK(ledger.operations, rpc)
      /\ ChallengesOK(ledger.challenges) /\ UsedUp(ledger.operations, ledger.challenges)
  BY DEF BridgeInv
<1>. DEFINE P == Prepared(c)
<1>3. /\ DOMAIN P = LedgerFields /\ P.operations = ledger.operations
      /\ P.outbox = ledger.outbox
      /\ P.challenges = ledger.challenges
         \/ P.challenges = ledger.challenges \cup {fresh}
  BY <1>1, <1>2 DEF Journal, LedgerFields
<1>. HIDE DEF P
<1>4. ledger' = IF show THEN [P EXCEPT !.outbox = QueuedDelivery(@, Preview(c))] ELSE P
  BY <1>1 DEF P
<1>5. /\ DOMAIN ledger' = LedgerFields
      /\ ledger'.operations = ledger.operations
      /\ ledger'.outbox \in {ledger.outbox, QueuedDelivery(ledger.outbox, Preview(c))}
      /\ ledger'.challenges = ledger.challenges
         \/ ledger'.challenges = ledger.challenges \cup {fresh}
  BY <1>3, <1>4 DEF LedgerFields
<1>6. Fresh(Preview(c))
  BY DEF Preview, Fresh, DeliveryFields
<1>7. /\ OutboxOK(ledger'.outbox)
      /\ \A id : ReservedIn(ledger.outbox, id) => ReservedIn(ledger'.outbox, id)
  BY <1>2, <1>5, <1>6, QueuedOK DEF ReservedIn
<1>8. ChallengesOK(ledger'.challenges) /\ UsedUp(ledger.operations, ledger'.challenges)
  <2>1. fresh.id = Cardinality(ledger.challenges) + 1 /\ DOMAIN fresh = ChallengeFields
    BY DEF ChallengeFields
  <2>. HIDE DEF fresh
  <2>2. Numbered(ledger.challenges \cup {fresh})
    BY <1>2, <2>1, NextNumber DEF ChallengesOK
  <2>. QED  BY <1>2, <1>5, <2>1, <2>2 DEF ChallengesOK, UsedUp
<1>9. rpc' = rpc /\ poll' = poll
  BY DEF PrepareInput
<1>10. PollOK'
  BY <1>2, <1>7, <1>9, PollLeftAlone
<1>. QED  BY <1>2, <1>5, <1>7, <1>8, <1>9, <1>10 DEF BridgeInv

\* A confirmation, for a ledger that may have remembered a reply first.
LEMMA ConfirmKeepsInv ==
  ASSUME BridgeInv, Unlocked, NEW l, DOMAIN l = LedgerFields,
         l.operations = ledger.operations, l.challenges = ledger.challenges,
         l.outbox = ledger.outbox, NEW c \in ledger.challenges, NEW m, NEW short,
         ConfirmIn(l, c, m, short), poll' = poll
  PROVE  BridgeInv'
<1>1. rpc = 0
  BY DEF Unlocked
<1>2. /\ OperationsOK(l.operations, 0) /\ ChallengesOK(l.challenges)
      /\ UsedUp(l.operations, l.challenges)
  BY <1>1 DEF BridgeInv
<1>. DEFINE k == Confirmed(l, c, m, short)
<1>3. k = ledger'
      /\ rpc' = IF k.operations = l.operations THEN 0 ELSE Cardinality(k.operations)
  BY DEF ConfirmIn
<1>4. /\ DOMAIN k = LedgerFields /\ k.outbox = l.outbox
      /\ OperationsOK(k.operations,
                      IF k.operations = l.operations THEN 0 ELSE Cardinality(k.operations))
      /\ ChallengesOK(k.challenges)
      /\ UsedUp(k.operations, k.challenges)
  BY <1>2, ConfirmedOK
<1>. HIDE DEF k
<1>5. PollOK'
  BY <1>3, <1>4, PollLeftAlone DEF BridgeInv
<1>. QED  BY <1>3, <1>4, <1>5 DEF BridgeInv

\* A one-word reply.
LEMMA ReplyKeepsInv ==
  ASSUME BridgeInv, NEW r, ShortReply(r)
  PROVE  BridgeInv'
<1>. DEFINE l == Remembered(r)
<1>1. /\ DOMAIN l = LedgerFields /\ l.operations = ledger.operations
      /\ l.challenges = ledger.challenges /\ l.outbox = ledger.outbox
  BY DEF Remembered, Journal, BridgeInv, LedgerFields
<1>2. Choice(r) \subseteq ledger.challenges
  BY DEF Choice, Meant
<1>3. Unlocked /\ rpc = 0 /\ poll' = poll
  BY DEF ShortReply, Admitted, Unlocked
<1>. HIDE DEF l
<1>4. CASE ledger' = l /\ rpc' = 0
  <2>1. PollOK'
    BY <1>1, <1>3, <1>4, PollLeftAlone DEF BridgeInv
  <2>. QED  BY <1>1, <1>3, <1>4, <2>1, LeftAlone
<1>5. ASSUME NEW c \in Choice(r), ConfirmIn(l, c, r.message, r.message)
      PROVE  BridgeInv'
  BY <1>1, <1>2, <1>3, <1>5, ConfirmKeepsInv
<1>. QED  BY <1>4, <1>5 DEF ShortReply, l

\* The requests of the chat host.
LEMMA RequestKeepsInv == ASSUME BridgeInv, Requests PROVE BridgeInv'
<1>1. DOMAIN ledger = LedgerFields /\ PollOK
  BY DEF BridgeInv
<1>2. ASSUME NEW m, ConfirmInput(m) PROVE BridgeInv'
  <2>1. PICK c \in ledger.challenges : ConfirmIn(ledger, c, m, 0)
    BY <1>2 DEF ConfirmInput
  <2>. QED  BY <1>1, <1>2, <2>1, ConfirmKeepsInv DEF ConfirmInput, Admitted
<1>3. ASSUME NEW m, ReceiveReply(m) PROVE BridgeInv'
  <2>1. ledger' = ledger /\ rpc' = rpc /\ poll' = poll
    BY <1>3 DEF ReceiveReply
  <2>2. PollOK'
    BY <1>1, <2>1, PollLeftAlone
  <2>. QED  BY <1>1, <2>1, <2>2, LeftAlone
<1>4. CASE CancelInput
  <2>1. PICK c \in ledger.challenges : ledger' = Cancelled(ledger, c)
    BY <1>4 DEF CancelInput
  <2>2. rpc' = rpc /\ poll' = poll
    BY <1>4 DEF CancelInput
  <2>. DEFINE d == [c EXCEPT !.state = "cancelled"]
              T == (ledger.challenges \ {c}) \cup {d}
  <2>3. d.id = c.id /\ d.operation = c.operation /\ DOMAIN d = ChallengeFields
    BY DEF BridgeInv, ChallengesOK, ChallengeFields
  <2>. HIDE DEF d
  <2>4. ChallengesOK(T) /\ UsedUp(ledger.operations, T)
    BY <2>3, ChallengeSet DEF BridgeInv
  <2>5. /\ DOMAIN ledger' = LedgerFields
        /\ ledger'.operations = ledger.operations /\ ledger'.outbox = ledger.outbox
        /\ ledger'.challenges \in {ledger.challenges, T}
    BY <1>1, <2>1 DEF Cancelled, SetChallenge, LedgerFields, d
  <2>6. PollOK'
    BY <1>1, <2>2, <2>5, PollLeftAlone
  <2>. QED  BY <2>2, <2>4, <2>5, <2>6 DEF BridgeInv
<1>5. CASE SubmitOperation
  <2>1. PICK o \in ledger.operations, given \in BOOLEAN, ok \in BOOLEAN :
          /\ o.id = rpc
          /\ ledger' = [ledger EXCEPT !.operations = (@ \ {o}) \cup
               {[o EXCEPT !.submits = @ + (IF given THEN 1 ELSE 0),
                          !.state = IF ok THEN @ ELSE "unknown"]}]
    BY <1>5 DEF SubmitOperation
  <2>2. rpc # 0 /\ rpc' = 0 /\ poll' = poll
    BY <1>5 DEF SubmitOperation
  <2>. DEFINE q == [o EXCEPT !.submits = @ + (IF given THEN 1 ELSE 0),
                             !.state = IF ok THEN @ ELSE "unknown"]
              T == (ledger.operations \ {o}) \cup {q}
  <2>3. DOMAIN o = OperationFields /\ o.submits = 0
    BY <2>1 DEF BridgeInv, OperationsOK
  <2>4. /\ q.id = o.id /\ q.challenge = o.challenge /\ DOMAIN q = OperationFields
        /\ q.submits \in 0..1
    BY <2>3 DEF OperationFields
  <2>5. /\ DOMAIN ledger' = LedgerFields /\ ledger'.operations = T
        /\ ledger'.challenges = ledger.challenges /\ ledger'.outbox = ledger.outbox
    BY <1>1, <2>1 DEF LedgerFields
  <2>. HIDE DEF q
  <2>6. \A x, y \in ledger.operations : x.id = y.id => x = y
    BY DEF BridgeInv, OperationsOK, Numbered
  <2>7. Numbered(T)
    <3>1. \A x, y \in T : x.id = y.id => x = y
      BY <2>4, <2>6
    <3>2. /\ \A x \in ledger.operations : \E t \in T : t.id = x.id
          /\ \A t \in T : \E x \in ledger.operations : t.id = x.id
      BY <2>4
    <3>. QED  BY <3>1, <3>2, SameNumbers DEF BridgeInv, OperationsOK
  <2>8. \A x \in T : x.id # 0
    <3>1. \A x \in ledger.operations : x.id # 0
      BY DEF BridgeInv, OperationsOK, Numbered
    <3>. QED  BY <2>4, <3>1
  <2>9. OperationsOK(T, 0) /\ UsedUp(T, ledger.challenges)
    BY <2>4, <2>7, <2>8 DEF BridgeInv, OperationsOK, UsedUp
  <2>10. PollOK'
    BY <1>1, <2>2, <2>5, PollLeftAlone
  <2>. QED  BY <2>2, <2>5, <2>9, <2>10 DEF BridgeInv
<1>. QED  BY <1>2, <1>3, <1>4, <1>5, PrepareKeepsInv, ReplyKeepsInv DEF Requests

-----------------------------------------------------------------------------
\* A step that leaves the operations alone.
LEMMA OperationsLeftAlone ==
  ASSUME BridgeInv, DOMAIN ledger' = LedgerFields, rpc' = rpc,
         ledger'.operations = ledger.operations, ChallengesOK(ledger'.challenges),
         UsedUp(ledger.operations, ledger'.challenges), OutboxOK(ledger'.outbox), PollOK'
  PROVE  BridgeInv'
BY DEF BridgeInv, OperationsOK, ChallengesOK, UsedUp, OutboxOK, Numbered

\* A new generation of the route.
LEMMA ReroutedOK ==
  ASSUME NEW l, DOMAIN l = LedgerFields, NEW enabled, NEW input, NEW notices, NEW baseline
  PROVE  LET k == Rerouted(l, enabled, input, notices, baseline)
         IN  /\ DOMAIN k = LedgerFields /\ k.operations = l.operations
             /\ k.outbox = l.outbox /\ k.challenges = RevokedChallenges(l, 0)
BY DEF Rerouted, LedgerFields

\* The end of a grant.
LEMMA EndedOK ==
  ASSUME BridgeInv, NEW id
  PROVE  LET k == Ended(ledger, id)
         IN  /\ DOMAIN k = LedgerFields /\ k.operations = ledger.operations
             /\ ChallengesOK(k.challenges) /\ UsedUp(ledger.operations, k.challenges)
             /\ OutboxOK(k.outbox)
             /\ \A i : ReservedIn(ledger.outbox, i) => ReservedIn(k.outbox, i)
<1>. DEFINE k == Ended(ledger, id)
            chosen == {d \in ledger.outbox : d.kind = "binding" /\ d.of = id}
<1>1. /\ DOMAIN ledger = LedgerFields /\ OutboxOK(ledger.outbox)
      /\ ChallengesOK(ledger.challenges) /\ UsedUp(ledger.operations, ledger.challenges)
  BY DEF BridgeInv
<1>2. /\ DOMAIN k = LedgerFields /\ k.operations = ledger.operations
      /\ k.challenges \in {ledger.challenges, RevokedChallenges(ledger, id)}
      /\ k.outbox \in {ledger.outbox, Withdrawn(ledger.outbox, chosen)}
  BY <1>1 DEF Ended, LedgerFields
<1>. HIDE DEF k, chosen
<1>3. ChallengesOK(k.challenges) /\ UsedUp(ledger.operations, k.challenges)
  BY <1>1, <1>2, RevokedOK
<1>4. /\ OutboxOK(k.outbox)
      /\ \A i : ReservedIn(ledger.outbox, i) => ReservedIn(k.outbox, i)
  BY <1>1, <1>2, RevisedOK
<1>. QED  BY <1>2, <1>3, <1>4 DEF k

\* The end of the application: what was being submitted or sent is in doubt.
LEMMA RestartKeepsInv == ASSUME BridgeInv, RestartBridge PROVE BridgeInv'
<1>. DEFINE U(o) == IF o.state \in {"submitting", "running"}
                    THEN [o EXCEPT !.state = "unknown"] ELSE o
            T == {U(o) : o \in ledger.operations}
<1>1. /\ DOMAIN ledger = LedgerFields /\ OutboxOK(ledger.outbox)
      /\ OperationsOK(ledger.operations, rpc)
      /\ ChallengesOK(ledger.challenges) /\ UsedUp(ledger.operations, ledger.challenges)
  BY DEF BridgeInv
<1>2. /\ DOMAIN ledger' = LedgerFields /\ ledger'.operations = T
      /\ ledger'.challenges = ledger.challenges
      /\ ledger'.outbox = ReopenedOutbox(ledger.outbox)
  BY <1>1 DEF RestartBridge, LedgerFields
<1>3. rpc' = 0 /\ poll' = Idle
  BY DEF RestartBridge
<1>4. \A o \in ledger.operations :
        /\ DOMAIN U(o) = OperationFields /\ U(o).id = o.id
        /\ U(o).challenge = o.challenge /\ U(o).submits = o.submits
  BY <1>1 DEF OperationsOK, OperationFields
<1>5. \A o, q \in ledger.operations : o.id = q.id => o = q
  BY <1>1 DEF OperationsOK, Numbered
<1>. HIDE DEF U
<1>6. /\ \A o \in ledger.operations : \E t \in T : t.id = o.id
      /\ \A t \in T : \E o \in ledger.operations :
           t.id = o.id /\ t.challenge = o.challenge /\ t.submits = o.submits
      /\ \A t, u \in T : t.id = u.id => t = u
      /\ \A t \in T : DOMAIN t = OperationFields
  BY <1>4, <1>5
<1>. HIDE DEF T
<1>7. OperationsOK(ledger.operations, 0)
  <2>1. \A o \in ledger.operations : o.id # 0
    BY <1>1 DEF OperationsOK, Numbered
  <2>. QED  BY <1>1, <2>1 DEF OperationsOK
<1>8. OperationsOK(T, 0) /\ UsedUp(T, ledger.challenges)
  BY <1>1, <1>6, <1>7, OperationsRevised
<1>9. OutboxOK(ledger'.outbox)
  BY <1>1, <1>2, RevisedOK
<1>10. PollOK'
  BY <1>3 DEF PollOK, Idle, PollFields
<1>. QED  BY <1>1, <1>2, <1>3, <1>8, <1>9, <1>10 DEF BridgeInv

\* Changes of the authorizations, and of the processes.
LEMMA AdministrationKeepsInv == ASSUME BridgeInv, Administration PROVE BridgeInv'
<1>1. /\ DOMAIN ledger = LedgerFields /\ PollOK /\ OutboxOK(ledger.outbox)
      /\ ChallengesOK(ledger.challenges) /\ UsedUp(ledger.operations, ledger.challenges)
  BY DEF BridgeInv
<1>2. ASSUME rpc' = rpc, poll' = poll, NEW enabled, NEW input, NEW notices, NEW baseline,
             ledger' = Rerouted(ledger, enabled, input, notices, baseline)
      PROVE  BridgeInv'
  <2>1. /\ DOMAIN ledger' = LedgerFields /\ ledger'.operations = ledger.operations
        /\ ledger'.outbox = ledger.outbox
        /\ ledger'.challenges = RevokedChallenges(ledger, 0)
    BY <1>1, <1>2, ReroutedOK
  <2>2. PollOK'
    BY <1>1, <1>2, <2>1, PollLeftAlone
  <2>. QED  BY <1>1, <1>2, <2>1, <2>2, RevokedOK, OperationsLeftAlone
<1>3. CASE ApproveRoute
  BY <1>2, <1>3 DEF ApproveRoute
<1>4. CASE DisableRoute
  BY <1>2, <1>4 DEF DisableRoute
<1>5. CASE ReplaceCredentials
  <2>. DEFINE k == Rerouted(ledger, FALSE, Route.input, Route.notices, 0)
  <2>1. /\ DOMAIN k = LedgerFields /\ k.operations = ledger.operations
        /\ k.outbox = ledger.outbox /\ k.challenges = RevokedChallenges(ledger, 0)
    BY <1>1 DEF Rerouted, LedgerFields
  <2>2. /\ ledger' = [k EXCEPT !.outbox = Withdrawn(@, ledger.outbox)]
        /\ rpc' = rpc /\ poll' = poll
    BY <1>5 DEF ReplaceCredentials
  <2>. HIDE DEF k
  <2>3. /\ DOMAIN ledger' = LedgerFields /\ ledger'.operations = ledger.operations
        /\ ledger'.outbox = Withdrawn(ledger.outbox, ledger.outbox)
        /\ ledger'.challenges = RevokedChallenges(ledger, 0)
    BY <2>1, <2>2 DEF LedgerFields
  <2>4. /\ OutboxOK(ledger'.outbox)
        /\ \A id : ReservedIn(ledger.outbox, id) => ReservedIn(ledger'.outbox, id)
    BY <1>1, <2>3, RevisedOK
  <2>5. PollOK'
    BY <1>1, <2>2, <2>4, PollLeftAlone
  <2>. QED  BY <1>1, <2>2, <2>3, <2>4, <2>5, RevokedOK, OperationsLeftAlone
<1>6. ASSUME rpc' = rpc, poll' = poll, NEW account,
             ledger' = [ledger EXCEPT !.account = account] \/ ledger' = ledger
      PROVE  BridgeInv'
  <2>1. /\ DOMAIN ledger' = LedgerFields /\ ledger'.operations = ledger.operations
        /\ ledger'.outbox = ledger.outbox /\ ledger'.challenges = ledger.challenges
    BY <1>1, <1>6 DEF LedgerFields
  <2>2. PollOK'
    BY <1>1, <1>6, <2>1, PollLeftAlone
  <2>. QED  BY <1>6, <2>1, <2>2, LeftAlone
<1>7. CASE StopHost
  BY <1>6, <1>7 DEF StopHost
<1>8. CASE StartHost
  BY <1>6, <1>8 DEF StartHost
<1>9. ASSUME NEW k, k = Ended(ledger, ledger.binding.id), rpc' = rpc, poll' = poll, NEW b,
             \/ ledger' = [k EXCEPT !.binding = b]
             \/ ledger' = [k EXCEPT !.binding = b,
                                    !.outbox = QueuedDelivery(@, Greeting(b))]
      PROVE  BridgeInv'
  <2>1. /\ DOMAIN k = LedgerFields /\ k.operations = ledger.operations
        /\ ChallengesOK(k.challenges) /\ UsedUp(ledger.operations, k.challenges)
        /\ OutboxOK(k.outbox)
        /\ \A i : ReservedIn(ledger.outbox, i) => ReservedIn(k.outbox, i)
    BY <1>9, EndedOK
  <2>2. /\ DOMAIN ledger' = LedgerFields /\ ledger'.operations = ledger.operations
        /\ ledger'.challenges = k.challenges
        /\ ledger'.outbox \in {k.outbox, QueuedDelivery(k.outbox, Greeting(b))}
    BY <1>9, <2>1 DEF LedgerFields
  <2>3. Fresh(Greeting(b))
    BY DEF Fresh, Greeting, DeliveryFields
  <2>4. /\ OutboxOK(ledger'.outbox)
        /\ \A i : ReservedIn(ledger.outbox, i) => ReservedIn(ledger'.outbox, i)
    BY <2>1, <2>2, <2>3, QueuedOK DEF ReservedIn
  <2>5. PollOK'
    BY <1>1, <1>9, <2>4, PollLeftAlone
  <2>. QED  BY <1>9, <2>1, <2>2, <2>4, <2>5, OperationsLeftAlone
<1>10. CASE BindSession
  BY <1>9, <1>10 DEF BindSession
<1>11. CASE DetachSession
  BY <1>9, <1>11 DEF DetachSession
<1>12. CASE ChallengeExpires
  <2>1. PICK c \in ledger.challenges :
          ledger' = SetChallenge(ledger, c, [c EXCEPT !.expired = TRUE])
    BY <1>12 DEF ChallengeExpires
  <2>2. rpc' = rpc /\ poll' = poll
    BY <1>12 DEF ChallengeExpires
  <2>. DEFINE d == [c EXCEPT !.expired = TRUE]
              T == (ledger.challenges \ {c}) \cup {d}
  <2>3. d.id = c.id /\ d.operation = c.operation /\ DOMAIN d = ChallengeFields
    BY <1>1 DEF ChallengesOK, ChallengeFields
  <2>4. /\ DOMAIN ledger' = LedgerFields /\ ledger'.operations = ledger.operations
        /\ ledger'.outbox = ledger.outbox /\ ledger'.challenges = T
    BY <1>1, <2>1 DEF SetChallenge, LedgerFields
  <2>. HIDE DEF d
  <2>5. ChallengesOK(T) /\ UsedUp(ledger.operations, T)
    BY <1>1, <2>3, ChallengeSet
  <2>6. PollOK'
    BY <1>1, <2>2, <2>4, PollLeftAlone
  <2>. QED  BY <1>1, <2>2, <2>4, <2>5, <2>6, OperationsLeftAlone
<1>. QED
  BY <1>3, <1>4, <1>5, <1>7, <1>8, <1>10, <1>11, <1>12, RestartKeepsInv DEF Administration

\* Events of the session.
LEMMA ReportKeepsInv == ASSUME BridgeInv, SessionReports PROVE BridgeInv'
<1>1. ledger' = ledger /\ rpc' = rpc /\ poll' = poll
  BY DEF SessionReports
<1>2. PollOK'
  BY <1>1, PollLeftAlone DEF BridgeInv
<1>. QED  BY <1>1, <1>2, LeftAlone DEF BridgeInv

-----------------------------------------------------------------------------
\* The polling thread.

\* A thread that has nothing to send, at any place but "finish".
LEMMA NothingToSend ==
  ASSUME NEW p, p = poll', DOMAIN p = PollFields, p.pc \notin {"send", "finish"}
  PROVE  PollOK'
BY DEF PollOK

\* Reading pages of the session's events.
LEMMA ReadKeepsInv ==
  ASSUME BridgeInv, ReadPage \/ ReadGrantPage \/ BeginPage \/ ReadWake \/ StartJudgement
  PROVE  BridgeInv'
<1>1. /\ ledger' = ledger /\ rpc' = rpc
      /\ DOMAIN poll' = PollFields /\ poll'.pc \notin {"send", "finish"}
  <2>1. DOMAIN poll = PollFields
    BY DEF BridgeInv, PollOK
  <2>2. CASE ReadPage
    BY <2>2 DEF ReadPage, AtPoll, Idle, PollFields
  <2>3. CASE ReadGrantPage
    BY <2>3 DEF ReadGrantPage, AtPoll, Idle, PollFields
  <2>4. CASE BeginPage
    BY <2>1, <2>4 DEF BeginPage, AtPoll, Polled, Idle, PollFields
  <2>5. CASE ReadWake
    BY <2>5 DEF ReadWake, AtPoll, Idle, PollFields
  <2>6. CASE StartJudgement
    BY <2>6 DEF StartJudgement, AtPoll, Idle, PollFields
  <2>. QED  BY <2>2, <2>3, <2>4, <2>5, <2>6
<1>2. PollOK'
  BY <1>1, NothingToSend
<1>. QED  BY <1>1, <1>2, LeftAlone DEF BridgeInv

\* An event changes the state of its operation and nothing else of it.
LEMMA ObserveKeepsInv == ASSUME BridgeInv, ObserveEvent PROVE BridgeInv'
<1>. DEFINE e == events[poll.at + 1]
            U(o) == IF o.id = e.operation THEN Observed(o, e) ELSE o
            T == {U(o) : o \in ledger.operations}
<1>1. /\ DOMAIN ledger = LedgerFields /\ DOMAIN poll = PollFields /\ poll.pc = "observe"
      /\ OperationsOK(ledger.operations, rpc) /\ UsedUp(ledger.operations, ledger.challenges)
  BY DEF BridgeInv, PollOK, ObserveEvent, AtPoll
<1>2. /\ DOMAIN ledger' = LedgerFields /\ ledger'.operations = T
      /\ ledger'.challenges = ledger.challenges /\ ledger'.outbox = ledger.outbox
  BY <1>1 DEF ObserveEvent, LedgerFields
<1>3. rpc' = rpc /\ DOMAIN poll' = PollFields /\ poll'.pc = "observe"
  BY <1>1 DEF ObserveEvent, AtPoll, PollFields
<1>4. \A o \in ledger.operations :
        /\ DOMAIN U(o) = OperationFields /\ U(o).id = o.id
        /\ U(o).challenge = o.challenge /\ U(o).submits = o.submits
  <2>. HIDE DEF e
  <2>. QED  BY <1>1 DEF OperationsOK, OperationFields, Observed
<1>5. \A o, q \in ledger.operations : o.id = q.id => o = q
  BY <1>1 DEF OperationsOK, Numbered
<1>. HIDE DEF U
<1>6. /\ \A o \in ledger.operations : \E t \in T : t.id = o.id
      /\ \A t \in T : \E o \in ledger.operations :
           t.id = o.id /\ t.challenge = o.challenge /\ t.submits = o.submits
      /\ \A t, u \in T : t.id = u.id => t = u
      /\ \A t \in T : DOMAIN t = OperationFields
  BY <1>4, <1>5
<1>. HIDE DEF T
<1>7. OperationsOK(T, rpc) /\ UsedUp(T, ledger.challenges)
  BY <1>1, <1>6, OperationsRevised
<1>8. PollOK'
  BY <1>3, NothingToSend
<1>. QED  BY <1>2, <1>3, <1>7, <1>8 DEF BridgeInv, ChallengesOK, OutboxOK, Numbered

\* The cursor moves, and what the page has to tell is queued.
LEMMA CommitKeepsInv == ASSUME BridgeInv, CommitPage PROVE BridgeInv'
<1>1. /\ DOMAIN ledger = LedgerFields /\ OutboxOK(ledger.outbox)
      /\ rpc' = rpc /\ poll' = Idle
  BY DEF BridgeInv, CommitPage, AtPoll
<1>2. PollOK'
  BY <1>1 DEF PollOK, Idle, PollFields
<1>3. CASE ledger' = [ledger EXCEPT !.binding.seen = poll.upto]
  <2>1. /\ DOMAIN ledger' = LedgerFields /\ ledger'.operations = ledger.operations
        /\ ledger'.challenges = ledger.challenges /\ ledger'.outbox = ledger.outbox
    BY <1>1, <1>3 DEF LedgerFields
  <2>. QED  BY <1>1, <1>2, <2>1, LeftAlone
<1>4. ASSUME NEW from, NEW upto, NEW tell, tell \in {Outcomes(from, upto), {}},
             ledger' = PageStored(ledger, from, upto, tell)
      PROVE  BridgeInv'
  <2>1. /\ DOMAIN ledger' = LedgerFields /\ ledger'.operations = ledger.operations
        /\ ledger'.challenges = ledger.challenges
        /\ ledger'.outbox =
             ledger.outbox \cup {d \in tell : \A x \in ledger.outbox : x.id # d.id}
    BY <1>1, <1>4 DEF PageStored, LedgerFields
  <2>2. \A i, j : LET d == Outcome(events[i])
                      e == Outcome(events[j])
                  IN  Fresh(d) /\ (d.id = e.id => d = e)
    <3>. SUFFICES ASSUME NEW i, NEW j
                  PROVE  LET d == Outcome(events[i])
                             e == Outcome(events[j])
                         IN  Fresh(d) /\ (d.id = e.id => d = e)
      OBVIOUS
    <3>. QED  BY DEF Outcome, Fresh, DeliveryFields
  <2>3. \A d \in tell : \E i : d = Outcome(events[i])
    BY <1>4 DEF Outcomes
  <2>4. /\ \A d \in tell : Fresh(d)
        /\ \A d, e \in tell : d.id = e.id => d = e
    BY <2>2, <2>3
  <2>5. OutboxOK(ledger'.outbox)
    <3>. DEFINE outbox == ledger.outbox
    <3>1. OutboxOK(outbox)
      BY <1>1
    <3>. HIDE DEF outbox
    <3>2. OutboxOK(outbox \cup {d \in tell : \A x \in outbox : x.id # d.id})
      BY <2>4, <3>1, PageOK
    <3>. QED  BY <2>1, <3>2 DEF outbox
  <2>. QED  BY <1>1, <1>2, <2>1, <2>5, OperationsLeftAlone DEF BridgeInv
<1>. QED  BY <1>3, <1>4 DEF CommitPage

\* A step of the thread that saves one delivery.
LEMMA SaveKeepsInv ==
  ASSUME BridgeInv, NEW d, DOMAIN d = DeliveryFields, d.sends \in 0..1,
         d.status = "pending" => d.sends = 0,
         ledger' = [ledger EXCEPT !.outbox = Saved(@, d)], rpc' = rpc,
         DOMAIN poll' = PollFields,
         poll'.pc = "send" => poll'.delivery = d.id /\ d.status # "pending" /\ d.sends = 0,
         poll'.pc = "finish" => poll'.receipt # "pending"
  PROVE  BridgeInv'
<1>1. /\ DOMAIN ledger' = LedgerFields /\ ledger'.operations = ledger.operations
      /\ ledger'.challenges = ledger.challenges
      /\ ledger'.outbox = Saved(ledger.outbox, d)
  BY DEF BridgeInv, LedgerFields
<1>2. OutboxOK(ledger'.outbox) /\ d \in ledger'.outbox
  BY <1>1, SavedOK DEF BridgeInv
<1>3. PollOK'
  BY <1>2 DEF PollOK, ReservedIn
<1>. QED  BY <1>1, <1>2, <1>3, OperationsLeftAlone DEF BridgeInv

\* A delivery is reserved before it goes out, goes out once, and never waits again.
LEMMA SendKeepsInv ==
  ASSUME BridgeInv, ReserveNext \/ SendDelivery \/ FinishSend PROVE BridgeInv'
<1>1. /\ DOMAIN ledger = LedgerFields /\ OutboxOK(ledger.outbox) /\ PollOK
      /\ DOMAIN poll = PollFields /\ rpc' = rpc
  BY DEF BridgeInv, PollOK, ReserveNext, SendDelivery, FinishSend, AtPoll
<1>2. CASE ReserveNext
  <2>1. PICK d \in ledger.outbox :
          /\ d.status = "pending"
          /\ LET r == ReservedDelivery(d, Authorized(d) /\ d.host \in {0, host})
             IN  /\ ledger' = [ledger EXCEPT !.outbox = Saved(@, r)]
                 /\ poll' = IF r.status = "revoked" THEN Idle
                            ELSE [Idle EXCEPT !.pc = "send", !.delivery = d.id,
                                              !.host = host]
    BY <1>2 DEF ReserveNext
  <2>. DEFINE r == ReservedDelivery(d, Authorized(d) /\ d.host \in {0, host})
  <2>2. DOMAIN d = DeliveryFields /\ d.sends = 0
    BY <1>1, <2>1 DEF OutboxOK
  <2>3. /\ DOMAIN r = DeliveryFields /\ r.id = d.id /\ r.sends = 0
        /\ r.status # "pending"
    BY <2>2 DEF ReservedDelivery, DeliveryFields
  <2>4. /\ DOMAIN poll' = PollFields /\ poll'.pc # "finish"
        /\ poll'.pc = "send" => poll'.delivery = d.id
    BY <2>1 DEF Idle, PollFields
  <2>5. ledger' = [ledger EXCEPT !.outbox = Saved(@, r)]
    BY <2>1
  <2>. HIDE DEF r
  <2>. QED  BY <1>1, <2>3, <2>4, <2>5, SaveKeepsInv
<1>3. CASE SendDelivery
  <2>1. PICK d \in ledger.outbox, went \in BOOLEAN, receipt \in {"sent", "not_sent", "unknown"} :
          /\ d.id = poll.delivery
          /\ ledger' = IF went THEN [ledger EXCEPT !.outbox =
                                       Saved(@, [d EXCEPT !.sends = @ + 1])] ELSE ledger
          /\ poll' = [poll EXCEPT !.pc = "finish", !.receipt = receipt]
    BY <1>3 DEF SendDelivery
  <2>2. DOMAIN d = DeliveryFields /\ d.status # "pending" /\ d.sends = 0
    BY <1>1, <1>3, <2>1 DEF OutboxOK, PollOK, ReservedIn, SendDelivery, AtPoll
  <2>3. /\ DOMAIN poll' = PollFields /\ poll'.pc = "finish"
        /\ poll'.receipt # "pending"
    BY <1>1, <2>1 DEF PollFields
  <2>4. CASE went
    <3>. DEFINE s == [d EXCEPT !.sends = @ + 1]
    <3>1. /\ DOMAIN s = DeliveryFields /\ s.id = d.id /\ s.sends = 1
          /\ s.status # "pending"
      BY <2>2 DEF DeliveryFields
    <3>2. ledger' = [ledger EXCEPT !.outbox = Saved(@, s)]
      BY <2>1, <2>4
    <3>. HIDE DEF s
    <3>. QED  BY <1>1, <2>3, <3>1, <3>2, SaveKeepsInv
  <2>5. CASE ~went
    <3>1. ledger' = ledger
      BY <2>1, <2>5
    <3>2. PollOK'
      BY <2>3 DEF PollOK
    <3>. QED  BY <1>1, <3>1, <3>2, LeftAlone
  <2>. QED  BY <2>4, <2>5
<1>4. CASE FinishSend
  <2>1. PICK d \in ledger.outbox :
          ledger' = [ledger EXCEPT !.outbox = Saved(@, FinishedDelivery(d, poll.receipt,
                       poll.host = host /\ ledger.account /\ Authorized(d)))]
    BY <1>4 DEF FinishSend
  <2>. DEFINE f == FinishedDelivery(d, poll.receipt,
                     poll.host = host /\ ledger.account /\ Authorized(d))
  <2>2. /\ DOMAIN d = DeliveryFields /\ d.sends \in 0..1
        /\ d.status = "pending" => d.sends = 0
    BY <1>1 DEF OutboxOK
  <2>3. poll.receipt # "pending" /\ poll' = Idle
    BY <1>1, <1>4 DEF FinishSend, AtPoll, PollOK
  <2>4. /\ DOMAIN f = DeliveryFields /\ f.sends = d.sends
        /\ f.status = "pending" => d.status = "pending"
    BY <2>2, <2>3 DEF FinishedDelivery, DeliveryFields
  <2>5. DOMAIN poll' = PollFields /\ poll'.pc \notin {"send", "finish"}
    BY <2>3 DEF Idle, PollFields
  <2>6. ledger' = [ledger EXCEPT !.outbox = Saved(@, f)]
    BY <2>1
  <2>. HIDE DEF f
  <2>. QED  BY <1>1, <2>2, <2>4, <2>5, <2>6, SaveKeepsInv
<1>. QED  BY <1>2, <1>3, <1>4

\* Decisions of a grant, and the notices they lead to.
LEMMA JudgeKeepsInv ==
  ASSUME BridgeInv, JournalWake \/ FinishJudgement PROVE BridgeInv'
<1>1. /\ DOMAIN ledger = LedgerFields /\ OutboxOK(ledger.outbox)
      /\ rpc' = rpc /\ poll' = Idle
  BY DEF BridgeInv, JournalWake, FinishJudgement, AtPoll
<1>2. PollOK'
  BY <1>1 DEF PollOK, Idle, PollFields
<1>3. CASE JournalWake
  <2>1. /\ DOMAIN ledger' = LedgerFields /\ ledger'.operations = ledger.operations
        /\ ledger'.challenges = ledger.challenges /\ ledger'.outbox = ledger.outbox
    BY <1>1, <1>3 DEF JournalWake, WakeJournaled, LedgerFields
  <2>. QED  BY <1>1, <1>2, <2>1, LeftAlone
<1>4. CASE FinishJudgement
  <2>1. PICK d \in ledger.decisions, verdict \in {"notify", "silent", "pending"} :
          \/ ledger' = ledger
          \/ ledger' = [ledger EXCEPT
               !.decisions = (@ \ {d}) \cup {[d EXCEPT !.state = verdict]},
               !.outbox = IF verdict = "notify" THEN QueuedDelivery(@, Notice(d)) ELSE @]
    BY <1>4 DEF FinishJudgement
  <2>2. /\ DOMAIN ledger' = LedgerFields /\ ledger'.operations = ledger.operations
        /\ ledger'.challenges = ledger.challenges
        /\ ledger'.outbox \in {ledger.outbox, QueuedDelivery(ledger.outbox, Notice(d))}
    BY <1>1, <2>1 DEF LedgerFields
  <2>3. Fresh(Notice(d))
    BY DEF Fresh, Notice, DeliveryFields
  <2>4. OutboxOK(ledger'.outbox)
    BY <1>1, <2>2, <2>3, QueuedOK
  <2>. QED  BY <1>1, <1>2, <2>2, <2>4, OperationsLeftAlone DEF BridgeInv
<1>. QED  BY <1>3, <1>4

-----------------------------------------------------------------------------
\* The bridge starts with nothing to submit and nothing to send.
LEMMA BridgeInitInv == BridgeInit => BridgeInv
<1>. SUFFICES ASSUME BridgeInit PROVE BridgeInv
  OBVIOUS
<1>1. /\ DOMAIN ledger = LedgerFields /\ ledger.operations = {}
      /\ ledger.challenges = {} /\ ledger.outbox = {} /\ poll = Idle
  BY DEF BridgeInit, LedgerFields
<1>2. Numbered({})
  <2>1. {s.id : s \in {}} = 1..0
    OBVIOUS
  <2>. QED  BY <2>1 DEF Numbered
<1>. QED
  BY <1>1, <1>2 DEF BridgeInv, OperationsOK, ChallengesOK, UsedUp, OutboxOK, PollOK, Idle,
     PollFields

\* Every step of the bridge keeps the invariant.
LEMMA BridgeStepInv == BridgeInv /\ [BridgeNext]_bridgeVars => BridgeInv'
<1>. SUFFICES ASSUME BridgeInv, [BridgeNext]_bridgeVars PROVE BridgeInv'
  OBVIOUS
<1>1. CASE Requests
  BY <1>1, RequestKeepsInv
<1>2. CASE Administration
  BY <1>2, AdministrationKeepsInv
<1>3. CASE SessionReports
  BY <1>3, ReportKeepsInv
<1>4. CASE Polling
  BY <1>4, ReadKeepsInv, ObserveKeepsInv, CommitKeepsInv, SendKeepsInv, JudgeKeepsInv
     DEF Polling
<1>5. CASE UNCHANGED bridgeVars
  <2>1. ledger' = ledger /\ rpc' = rpc /\ poll' = poll
    BY <1>5 DEF bridgeVars
  <2>2. PollOK'
    BY <2>1, PollLeftAlone DEF BridgeInv
  <2>. QED  BY <2>1, <2>2, LeftAlone DEF BridgeInv
<1>. QED  BY <1>1, <1>2, <1>3, <1>4, <1>5 DEF BridgeNext

\* The invariant: ids are numbers given once; the operation a request is about to submit
\* has not been submitted; every operation has used up its own challenge; a delivery that
\* waits has not gone out, and neither has the one the polling thread has reserved.
THEOREM BridgeInvariant == BridgeSpec => []BridgeInv
BY BridgeInitInv, BridgeStepInv, PTL DEF BridgeSpec

\* An input the user has confirmed reaches the session at most once, for any number of
\* inputs, redelivered confirmations and one-word replies, hosts and restarts.
THEOREM InputsAreSubmittedOnce == BridgeSpec => []SubmittedOnce
<1>1. BridgeInv => SubmittedOnce
  <2>. SUFFICES ASSUME BridgeInv PROVE SubmittedOnce
    OBVIOUS
  <2>1. \A o \in ledger.operations : o.submits <= 1
    BY DEF BridgeInv, OperationsOK
  <2>2. ASSUME NEW o \in ledger.operations, NEW p \in ledger.operations,
               o.challenge = p.challenge
        PROVE  o = p
    <3>1. PICK c \in ledger.challenges : c.id = o.challenge /\ c.operation = o.id
      BY DEF BridgeInv, UsedUp
    <3>2. PICK d \in ledger.challenges : d.id = p.challenge /\ d.operation = p.id
      BY DEF BridgeInv, UsedUp
    <3>3. c = d
      BY <2>2, <3>1, <3>2 DEF BridgeInv, ChallengesOK, Numbered
    <3>. QED  BY <3>1, <3>2, <3>3 DEF BridgeInv, OperationsOK, Numbered
  <2>. QED  BY <2>1, <2>2 DEF SubmittedOnce
<1>. QED  BY <1>1, BridgeInvariant, PTL

\* A delivery goes out at most once, for any number of restarts, of hosts that are replaced
\* while they send and of answers that do not come.
THEOREM DeliveriesAreSentOnce == BridgeSpec => []SentOnce
<1>1. BridgeInv => SentOnce
  BY DEF BridgeInv, OutboxOK, SentOnce
<1>. QED  BY <1>1, BridgeInvariant, PTL

-----------------------------------------------------------------------------
(* What the other invariants depend on, and the steps that leave it alone.  *)

UsedFields == {"limit", "hosts", "restarts", "grants", "sends", "expiries"}
ChatFields == {"replies", "shown"}
BindingFields == {"id", "gen", "cursor", "seen", "start"}
DecisionFields == {"id", "binding", "from", "upto", "state"}
RouteFields == {"gen", "enabled", "input", "notices"}

\* q is the operation o later: the same input of the same challenge.
SameInput(q, o) ==
  /\ q.id = o.id /\ q.gen = o.gen /\ q.owner = o.owner
  /\ q.challenge = o.challenge /\ q.short = o.short

\* ... which no event has touched; it may be in doubt now.
Undisturbed(q, o) ==
  /\ SameInput(q, o) /\ q.invocation = o.invocation /\ q.ambiguous = o.ambiguous
  /\ q.state \in {o.state, "unknown"}

\* An operation that was not there, of the generation g.
NewIn(q, ops, g) ==
  /\ \A o \in ops : o.id # q.id
  /\ q.gen = g /\ q.ambiguous = FALSE /\ q.state = "submitting"

\* The operations T come from the operations `ops'.
Carried(ops, T) ==
  /\ \A o \in ops : \E q \in T : Undisturbed(q, o)
  /\ \A q \in T : \E o \in ops : Undisturbed(q, o)

\* Every delivery of the outbox is still in it, under its id.
StillQueued(outbox, later) == \A d \in outbox : \E e \in later : e.id = d.id

\* A step that leaves the route, its cursor and the events alone.
Quiet ==
  /\ ledger'.route = ledger.route /\ ledger'.cursors = ledger.cursors
  /\ events' = events /\ used'.limit = used.limit
  /\ StillQueued(ledger.outbox, ledger'.outbox)
  /\ \A c \in ledger'.challenges :
       c.gen = Route.gen \/ \E x \in ledger.challenges : c.gen = x.gen
  /\ poll' = poll \/ poll'.pc \notin {"page", "observe"}

\* A step that leaves the grant and its decisions alone.
SameGrant ==
  /\ ledger'.binding = ledger.binding /\ ledger'.decisions = ledger.decisions
  /\ used'.grants = used.grants /\ DOMAIN used' = DOMAIN used
  /\ poll' = poll \/ poll'.pc # "decide"

\* A step that leaves what is known of one-word replies alone.
SameReplies ==
  /\ ledger.journal \subseteq ledger'.journal
  /\ \A j \in ledger'.journal : j \in ledger.journal \/ j.key[1] # "short"
  /\ chat.replies \subseteq chat'.replies /\ DOMAIN chat' = DOMAIN chat

\* Operations that do not change are carried.
LEMMA CarriedAsTheyAre == \A ops : Carried(ops, ops)
BY DEF Carried, Undisturbed, SameInput

\* One operation that changes is carried.
LEMMA CarriedOne ==
  ASSUME NEW ops, NEW o \in ops, NEW q, Undisturbed(q, o)
  PROVE  Carried(ops, (ops \ {o}) \cup {q})
<1>1. \A x : Undisturbed(x, x)
  BY DEF Undisturbed, SameInput
<1>. QED  BY <1>1 DEF Carried

\* Deliveries stay queued.
LEMMA OutboxKept ==
  ASSUME NEW outbox, OutboxOK(outbox), NEW d, NEW chosen
  PROVE  /\ StillQueued(outbox, outbox)
         /\ StillQueued(outbox, QueuedDelivery(outbox, d))
         /\ StillQueued(outbox, Saved(outbox, d))
         /\ StillQueued(outbox, Withdrawn(outbox, chosen))
         /\ StillQueued(outbox, ReopenedOutbox(outbox))
<1>. DEFINE W(x) == IF x \in chosen /\ x.status = "pending"
                    THEN [x EXCEPT !.status = "revoked"] ELSE x
            R(x) == IF x.status = "sending" THEN [x EXCEPT !.status = "unknown"] ELSE x
<1>1. \A x \in outbox : W(x).id = x.id /\ R(x).id = x.id
  BY DEF OutboxOK, DeliveryFields
<1>2. /\ Withdrawn(outbox, chosen) = {W(x) : x \in outbox}
      /\ ReopenedOutbox(outbox) = {R(x) : x \in outbox}
  BY DEF Withdrawn, ReopenedOutbox
<1>. HIDE DEF W, R
<1>. QED  BY <1>1, <1>2 DEF StillQueued, QueuedDelivery, Saved

\* Revoking keeps the generations.
LEMMA RevokedGens ==
  ASSUME NEW l, ChallengesOK(l.challenges), NEW owner
  PROVE  \A c \in RevokedChallenges(l, owner) : \E x \in l.challenges : c.gen = x.gen
<1>. DEFINE R(c) == IF c.owner = owner /\ c.state = "pending"
                    THEN [c EXCEPT !.state = "revoked"] ELSE c
            chs == l.challenges
<1>1. \A c \in chs : R(c).gen = c.gen
  BY DEF ChallengesOK, ChallengeFields
<1>2. RevokedChallenges(l, owner) = {R(c) : c \in chs}
  BY DEF RevokedChallenges
<1>. HIDE DEF R, chs
<1>. QED  BY <1>1, <1>2 DEF chs

\* Store::confirm in these terms: it adds at most one operation, for a challenge that is
\* open and has none.
LEMMA ConfirmedFrame ==
  ASSUME NEW l, DOMAIN l = LedgerFields, OperationsOK(l.operations, 0),
         ChallengesOK(l.challenges), NEW c \in l.challenges, NEW m, NEW short
  PROVE  LET k == Confirmed(l, c, m, short)
         IN  /\ k.route = l.route /\ k.cursors = l.cursors /\ k.outbox = l.outbox
             /\ k.binding = l.binding /\ k.decisions = l.decisions
             /\ l.journal \subseteq k.journal
             /\ \A j \in k.journal : j \in l.journal \/ j.key[1] = "confirm"
             /\ \A x \in k.challenges : \E y \in l.challenges : x.gen = y.gen
             /\ \/ k.operations = l.operations
                \/ \E op : /\ k.operations = l.operations \cup {op}
                           /\ NewIn(op, l.operations, c.gen)
                           /\ op.challenge = c.id /\ op.short = short /\ Open(c)
<1>. DEFINE k == Confirmed(l, c, m, short)
            key == <<"confirm", c.owner, c.gen, m>>
            op == [id |-> Cardinality(l.operations) + 1, challenge |-> c.id, gen |-> c.gen,
                   owner |-> c.owner, state |-> "submitting", invocation |-> 0,
                   ambiguous |-> FALSE, submits |-> 0, short |-> short]
            d == [c EXCEPT !.state = "confirmed", !.operation = op.id]
            grown == [l EXCEPT !.operations = @ \cup {op},
                               !.challenges = (@ \ {c}) \cup {d}]
            J(x) == x.journal \cup {[key |-> key, value |-> c.id]}
<1>1. \A j \in J(l) : j \in l.journal \/ j.key[1] = "confirm"
  OBVIOUS
<1>2. CASE k = l
  BY <1>2
<1>3. CASE k = Journal(l, key, c.id)
  <2>1. /\ k.route = l.route /\ k.cursors = l.cursors /\ k.outbox = l.outbox
        /\ k.binding = l.binding /\ k.decisions = l.decisions /\ k.journal = J(l)
        /\ k.operations = l.operations /\ k.challenges = l.challenges
    BY <1>3 DEF Journal, LedgerFields
  <2>. QED  BY <1>1, <2>1
<1>4. CASE k = Journal(grown, key, c.id) /\ Open(c)
  <2>1. /\ k.route = l.route /\ k.cursors = l.cursors /\ k.outbox = l.outbox
        /\ k.binding = l.binding /\ k.decisions = l.decisions /\ k.journal = J(l)
        /\ k.operations = l.operations \cup {op}
        /\ k.challenges = (l.challenges \ {c}) \cup {d}
    BY <1>4 DEF Journal, LedgerFields
  <2>2. d.gen = c.gen
    BY DEF ChallengesOK, ChallengeFields
  <2>3. \A o \in l.operations : o.id # op.id
    <3>1. Numbered(l.operations) /\ op.id = Cardinality(l.operations) + 1
      BY DEF OperationsOK
    <3>. HIDE DEF op
    <3>. QED  BY <3>1, NextNumber
  <2>4. NewIn(op, l.operations, c.gen) /\ op.challenge = c.id /\ op.short = short
    BY <2>3 DEF NewIn
  <2>. HIDE DEF op, d, k
  <2>5. \A x \in k.challenges : \E y \in l.challenges : x.gen = y.gen
    BY <2>1, <2>2
  <2>. QED  BY <1>1, <1>4, <2>1, <2>4, <2>5 DEF k
<1>5. k = l \/ k = Journal(l, key, c.id) \/ (k = Journal(grown, key, c.id) /\ Open(c))
  BY DEF Confirmed
<1>. QED  BY <1>2, <1>3, <1>4, <1>5

\* A request that prepares, cancels or submits an input, or receives a reply.
LEMMA RequestFrame ==
  ASSUME BridgeInv,
         \/ \E m : PrepareInput(m) \/ ReceiveReply(m)
         \/ CancelInput \/ SubmitOperation
  PROVE  /\ Quiet /\ SameGrant /\ SameReplies
         /\ Carried(ledger.operations, ledger'.operations)
<1>1. /\ DOMAIN ledger = LedgerFields /\ OutboxOK(ledger.outbox)
      /\ ChallengesOK(ledger.challenges) /\ OperationsOK(ledger.operations, rpc)
  BY DEF BridgeInv
<1>2. poll' = poll /\ used' = used /\ events' = events
  BY DEF PrepareInput, ReceiveReply, CancelInput, SubmitOperation
<1>. DEFINE Same(f) == ledger'[f] = ledger[f]
            Rest == /\ Same("route") /\ Same("cursors") /\ Same("binding")
                    /\ Same("decisions")
<1>3. ASSUME Rest, StillQueued(ledger.outbox, ledger'.outbox),
             \A c \in ledger'.challenges :
               c.gen = Route.gen \/ \E x \in ledger.challenges : c.gen = x.gen
      PROVE  Quiet /\ SameGrant
  BY <1>2, <1>3 DEF Quiet, SameGrant
<1>4. ASSUME NEW m, PrepareInput(m)
      PROVE  /\ Quiet /\ SameGrant /\ SameReplies
             /\ Carried(ledger.operations, ledger'.operations)
  <2>. DEFINE key == <<"input", Owner, Route.gen, m>>
              fresh == [id |-> Cardinality(ledger.challenges) + 1, owner |-> Owner,
                        gen |-> Route.gen, message |-> m, state |-> "pending",
                        expired |-> FALSE, operation |-> 0]
              known == {c \in ledger.challenges : Journaled(key) /\ c.id = Entry(key).value}
              Prepared(c) == IF known # {} THEN ledger
                             ELSE Journal([ledger EXCEPT !.challenges = @ \cup {c}], key, c.id)
  <2>1. PICK c \in IF known # {} THEN known ELSE {fresh}, show \in BOOLEAN :
          ledger' = IF show
                    THEN [Prepared(c) EXCEPT !.outbox = QueuedDelivery(@, Preview(c))]
                    ELSE Prepared(c)
    BY <1>4 DEF PrepareInput
  <2>. DEFINE P == Prepared(c)
  <2>2. /\ DOMAIN P = LedgerFields /\ P.operations = ledger.operations
        /\ P.outbox = ledger.outbox /\ P.route = ledger.route
        /\ P.cursors = ledger.cursors /\ P.binding = ledger.binding
        /\ P.decisions = ledger.decisions
        /\ P.challenges = ledger.challenges
           \/ P.challenges = ledger.challenges \cup {fresh}
        /\ P.journal \in {ledger.journal, ledger.journal \cup {[key |-> key, value |-> c.id]}}
    BY <1>1, <2>1 DEF Journal, LedgerFields
  <2>. HIDE DEF P
  <2>3. ledger' = IF show THEN [P EXCEPT !.outbox = QueuedDelivery(@, Preview(c))] ELSE P
    BY <2>1 DEF P
  <2>4. /\ Rest /\ ledger'.operations = ledger.operations
        /\ ledger'.outbox \in {ledger.outbox, QueuedDelivery(ledger.outbox, Preview(c))}
        /\ ledger'.challenges = ledger.challenges
           \/ ledger'.challenges = ledger.challenges \cup {fresh}
        /\ ledger'.journal \in {ledger.journal,
                                ledger.journal \cup {[key |-> key, value |-> c.id]}}
    BY <2>2, <2>3 DEF LedgerFields
  <2>5. key[1] # "short" /\ chat' = chat
    BY <1>4 DEF PrepareInput
  <2>. HIDE DEF key
  <2>6. SameReplies
    BY <2>4, <2>5 DEF SameReplies
  <2>7. fresh.gen = Route.gen
    OBVIOUS
  <2>. HIDE DEF fresh
  <2>8. StillQueued(ledger.outbox, ledger'.outbox)
    BY <1>1, <2>4, OutboxKept
  <2>. QED  BY <1>3, <2>4, <2>6, <2>7, <2>8, CarriedAsTheyAre
<1>5. ASSUME NEW m, ReceiveReply(m)
      PROVE  /\ Quiet /\ SameGrant /\ SameReplies
             /\ Carried(ledger.operations, ledger'.operations)
  <2>1. ledger' = ledger
    BY <1>5 DEF ReceiveReply
  <2>2. chat.replies \subseteq chat'.replies /\ DOMAIN chat' = DOMAIN chat
    <3>. PICK r : chat' = [chat EXCEPT !.replies = @ \cup {r}]
      BY <1>5 DEF ReceiveReply
    <3>. QED  OBVIOUS
  <2>. QED  BY <1>1, <1>3, <2>1, <2>2, CarriedAsTheyAre, OutboxKept DEF SameReplies
<1>6. CASE CancelInput
  <2>1. PICK c \in ledger.challenges : ledger' = Cancelled(ledger, c)
    BY <1>6 DEF CancelInput
  <2>. DEFINE d == [c EXCEPT !.state = "cancelled"]
              T == (ledger.challenges \ {c}) \cup {d}
  <2>2. d.gen = c.gen
    BY <1>1 DEF ChallengesOK, ChallengeFields
  <2>3. /\ Rest /\ ledger'.operations = ledger.operations
        /\ ledger'.outbox = ledger.outbox /\ ledger'.journal = ledger.journal
        /\ ledger'.challenges \in {ledger.challenges, T}
    BY <1>1, <2>1 DEF Cancelled, SetChallenge, LedgerFields
  <2>. HIDE DEF d
  <2>4. chat' = chat
    BY <1>6 DEF CancelInput
  <2>. QED  BY <1>1, <1>3, <2>2, <2>3, <2>4, CarriedAsTheyAre, OutboxKept DEF SameReplies
<1>7. CASE SubmitOperation
  <2>1. PICK o \in ledger.operations, given \in BOOLEAN, ok \in BOOLEAN :
          ledger' = [ledger EXCEPT !.operations = (@ \ {o}) \cup
               {[o EXCEPT !.submits = @ + (IF given THEN 1 ELSE 0),
                          !.state = IF ok THEN @ ELSE "unknown"]}]
    BY <1>7 DEF SubmitOperation
  <2>. DEFINE q == [o EXCEPT !.submits = @ + (IF given THEN 1 ELSE 0),
                             !.state = IF ok THEN @ ELSE "unknown"]
  <2>2. Undisturbed(q, o)
    BY <1>1 DEF OperationsOK, OperationFields, Undisturbed, SameInput
  <2>3. /\ Rest /\ ledger'.operations = (ledger.operations \ {o}) \cup {q}
        /\ ledger'.outbox = ledger.outbox /\ ledger'.journal = ledger.journal
        /\ ledger'.challenges = ledger.challenges
    BY <1>1, <2>1 DEF LedgerFields
  <2>4. chat' = chat
    BY <1>7 DEF SubmitOperation
  <2>. HIDE DEF q
  <2>. QED  BY <1>1, <1>3, <2>2, <2>3, <2>4, CarriedOne, OutboxKept DEF SameReplies
<1>. QED  BY <1>4, <1>5, <1>6, <1>7

\* A change of the processes, the expiry of a challenge and the end of the application.
LEMMA ProcessFrame ==
  ASSUME BridgeInv, DOMAIN used = UsedFields,
         StopHost \/ StartHost \/ ChallengeExpires \/ RestartBridge
  PROVE  /\ Quiet /\ SameGrant /\ SameReplies
         /\ Carried(ledger.operations, ledger'.operations)
<1>1. /\ DOMAIN ledger = LedgerFields /\ OutboxOK(ledger.outbox)
      /\ ChallengesOK(ledger.challenges) /\ OperationsOK(ledger.operations, rpc)
  BY DEF BridgeInv
<1>2. /\ used'.limit = used.limit /\ used'.grants = used.grants
      /\ DOMAIN used' = DOMAIN used /\ chat' = chat /\ events' = events
  BY DEF UsedFields, StopHost, StartHost, ChallengeExpires, RestartBridge
<1>3. ASSUME ledger'.route = ledger.route, ledger'.cursors = ledger.cursors,
             ledger'.binding = ledger.binding, ledger'.decisions = ledger.decisions,
             ledger'.journal = ledger.journal, StillQueued(ledger.outbox, ledger'.outbox),
             \A c \in ledger'.challenges :
               c.gen = Route.gen \/ \E x \in ledger.challenges : c.gen = x.gen,
             poll' = poll \/ poll' = Idle
      PROVE  Quiet /\ SameGrant /\ SameReplies
  BY <1>2, <1>3 DEF Quiet, SameGrant, SameReplies, Idle
<1>4. CASE StopHost \/ StartHost
  <2>1. ledger' = ledger \/ \E a : ledger' = [ledger EXCEPT !.account = a]
    BY <1>4 DEF StopHost, StartHost
  <2>2. /\ ledger'.route = ledger.route /\ ledger'.cursors = ledger.cursors
        /\ ledger'.binding = ledger.binding /\ ledger'.decisions = ledger.decisions
        /\ ledger'.journal = ledger.journal /\ ledger'.outbox = ledger.outbox
        /\ ledger'.challenges = ledger.challenges
        /\ ledger'.operations = ledger.operations
    BY <1>1, <2>1 DEF LedgerFields
  <2>3. poll' = poll
    BY <1>4 DEF StopHost, StartHost
  <2>. QED  BY <1>1, <1>3, <2>2, <2>3, OutboxKept, CarriedAsTheyAre
<1>5. CASE ChallengeExpires
  <2>1. PICK c \in ledger.challenges :
          ledger' = SetChallenge(ledger, c, [c EXCEPT !.expired = TRUE])
    BY <1>5 DEF ChallengeExpires
  <2>. DEFINE d == [c EXCEPT !.expired = TRUE]
  <2>2. d.gen = c.gen
    BY <1>1 DEF ChallengesOK, ChallengeFields
  <2>3. /\ ledger'.route = ledger.route /\ ledger'.cursors = ledger.cursors
        /\ ledger'.binding = ledger.binding /\ ledger'.decisions = ledger.decisions
        /\ ledger'.journal = ledger.journal /\ ledger'.outbox = ledger.outbox
        /\ ledger'.challenges = (ledger.challenges \ {c}) \cup {d}
        /\ ledger'.operations = ledger.operations
    BY <1>1, <2>1 DEF SetChallenge, LedgerFields
  <2>. HIDE DEF d
  <2>4. poll' = poll
    BY <1>5 DEF ChallengeExpires
  <2>. QED  BY <1>1, <1>3, <2>2, <2>3, <2>4, OutboxKept, CarriedAsTheyAre
<1>6. CASE RestartBridge
  <2>. DEFINE U(o) == IF o.state \in {"submitting", "running"}
                      THEN [o EXCEPT !.state = "unknown"] ELSE o
  <2>1. \A o \in ledger.operations : Undisturbed(U(o), o)
    BY <1>1 DEF OperationsOK, OperationFields, Undisturbed, SameInput
  <2>2. /\ ledger'.route = ledger.route /\ ledger'.cursors = ledger.cursors
        /\ ledger'.binding = ledger.binding /\ ledger'.decisions = ledger.decisions
        /\ ledger'.journal = ledger.journal
        /\ ledger'.outbox = ReopenedOutbox(ledger.outbox)
        /\ ledger'.challenges = ledger.challenges
        /\ ledger'.operations = {U(o) : o \in ledger.operations}
    BY <1>1, <1>6 DEF RestartBridge, LedgerFields
  <2>3. poll' = Idle
    BY <1>6 DEF RestartBridge
  <2>. HIDE DEF U
  <2>4. Carried(ledger.operations, ledger'.operations)
    BY <2>1, <2>2 DEF Carried
  <2>. QED  BY <1>1, <1>3, <2>2, <2>3, <2>4, OutboxKept
<1>. QED  BY <1>4, <1>5, <1>6

\* A new generation of the route.
LEMMA RerouteFrame ==
  ASSUME BridgeInv, ApproveRoute \/ DisableRoute \/ ReplaceCredentials
  PROVE  /\ SameGrant /\ SameReplies /\ ledger'.operations = ledger.operations
         /\ MayReroute /\ events' = events /\ used' = used /\ poll' = poll
         /\ StillQueued(ledger.outbox, ledger'.outbox)
         /\ \A c \in ledger'.challenges : \E x \in ledger.challenges : c.gen = x.gen
         /\ \E baseline \in {0, Len(events)} :
              ledger'.cursors = [ledger.cursors EXCEPT ![Route.gen + 1] = baseline]
         /\ \E enabled, input, notices :
              ledger'.route = [gen |-> Route.gen + 1, enabled |-> enabled,
                               input |-> input, notices |-> notices]
<1>1. /\ DOMAIN ledger = LedgerFields /\ OutboxOK(ledger.outbox)
      /\ ChallengesOK(ledger.challenges)
  BY DEF BridgeInv
<1>2. PICK enabled, input, notices, baseline :
        /\ baseline \in {0, Len(events)}
        /\ \/ ledger' = Rerouted(ledger, enabled, input, notices, baseline)
           \/ ledger' = [Rerouted(ledger, enabled, input, notices, baseline)
                           EXCEPT !.outbox = Withdrawn(@, ledger.outbox)]
  <2>1. CASE ApproveRoute
    BY <2>1 DEF ApproveRoute
  <2>2. CASE DisableRoute
    BY <2>2 DEF DisableRoute
  <2>3. CASE ReplaceCredentials
    BY <2>3 DEF ReplaceCredentials
  <2>. QED  BY <2>1, <2>2, <2>3
<1>3. /\ MayReroute /\ events' = events /\ used' = used /\ poll' = poll /\ chat' = chat
  BY DEF ApproveRoute, DisableRoute, ReplaceCredentials
<1>. DEFINE k == Rerouted(ledger, enabled, input, notices, baseline)
<1>4. /\ DOMAIN k = LedgerFields
      /\ k.operations = ledger.operations /\ k.outbox = ledger.outbox
      /\ k.challenges = RevokedChallenges(ledger, 0) /\ k.journal = ledger.journal
      /\ k.binding = ledger.binding /\ k.decisions = ledger.decisions
      /\ k.cursors = [ledger.cursors EXCEPT ![Route.gen + 1] = baseline]
      /\ k.route = [gen |-> Route.gen + 1, enabled |-> enabled, input |-> input,
                    notices |-> notices]
  BY <1>1 DEF Rerouted, LedgerFields, Route
<1>. HIDE DEF k
<1>5. ledger' = k \/ ledger' = [k EXCEPT !.outbox = Withdrawn(@, ledger.outbox)]
  BY <1>2 DEF k
<1>6. /\ ledger'.operations = ledger.operations
      /\ ledger'.outbox \in {ledger.outbox, Withdrawn(ledger.outbox, ledger.outbox)}
      /\ ledger'.challenges = RevokedChallenges(ledger, 0)
      /\ ledger'.journal = ledger.journal
      /\ ledger'.binding = ledger.binding /\ ledger'.decisions = ledger.decisions
      /\ ledger'.cursors = [ledger.cursors EXCEPT ![Route.gen + 1] = baseline]
      /\ ledger'.route = [gen |-> Route.gen + 1, enabled |-> enabled, input |-> input,
                          notices |-> notices]
  BY <1>4, <1>5 DEF LedgerFields
<1>7. StillQueued(ledger.outbox, ledger'.outbox)
  BY <1>1, <1>6, OutboxKept
<1>8. \A c \in ledger'.challenges : \E x \in ledger.challenges : c.gen = x.gen
  BY <1>1, <1>6, RevokedGens
<1>9. SameGrant /\ SameReplies
  BY <1>3, <1>6 DEF SameGrant, SameReplies
<1>10. \E b \in {0, Len(events)} :
         ledger'.cursors = [ledger.cursors EXCEPT ![Route.gen + 1] = b]
  BY <1>2, <1>6
<1>11. \E x, y, z : ledger'.route = [gen |-> Route.gen + 1, enabled |-> x, input |-> y,
                                     notices |-> z]
  BY <1>6
<1>. QED  BY <1>3, <1>6, <1>7, <1>8, <1>9, <1>10, <1>11

\* A session is granted, or taken back.
LEMMA GrantFrame ==
  ASSUME BridgeInv, DOMAIN used = UsedFields, BindSession \/ DetachSession
  PROVE  /\ Quiet /\ SameReplies /\ ledger'.operations = ledger.operations /\ poll' = poll
         /\ DOMAIN used' = UsedFields
         /\ ledger'.decisions \in
              {ledger.decisions,
               {IF d.binding = ledger.binding.id /\ d.state = "pending"
                THEN [d EXCEPT !.state = "revoked"] ELSE d : d \in ledger.decisions}}
         /\ \/ ledger'.binding = NoBinding /\ used' = used
            \/ /\ used'.grants = used.grants + 1
               /\ \E last \in Nat :
                    ledger'.binding = [id |-> used.grants + 1, gen |-> Route.gen,
                                       cursor |-> last, seen |-> last, start |-> last]
<1>. DEFINE id == ledger.binding.id
            k == Ended(ledger, id)
            chosen == {d \in ledger.outbox : d.kind = "binding" /\ d.of = id}
            D == {IF d.binding = id /\ d.state = "pending"
                  THEN [d EXCEPT !.state = "revoked"] ELSE d : d \in ledger.decisions}
<1>1. /\ DOMAIN ledger = LedgerFields /\ OutboxOK(ledger.outbox)
      /\ ChallengesOK(ledger.challenges)
  BY DEF BridgeInv
<1>2. /\ DOMAIN k = LedgerFields /\ k.operations = ledger.operations
      /\ k.challenges \in {ledger.challenges, RevokedChallenges(ledger, id)}
      /\ k.outbox \in {ledger.outbox, Withdrawn(ledger.outbox, chosen)}
      /\ k.decisions \in {ledger.decisions, D}
      /\ k.route = ledger.route /\ k.cursors = ledger.cursors
      /\ k.journal = ledger.journal
  BY <1>1 DEF Ended, LedgerFields
<1>. HIDE DEF k, chosen, D, id
<1>3. /\ StillQueued(ledger.outbox, k.outbox) /\ OutboxOK(k.outbox)
      /\ \A c \in k.challenges : \E x \in ledger.challenges : c.gen = x.gen
  BY <1>1, <1>2, OutboxKept, RevisedOK, RevokedGens
<1>4. ASSUME NEW b, \/ ledger' = [k EXCEPT !.binding = b]
                    \/ ledger' = [k EXCEPT !.binding = b,
                                           !.outbox = QueuedDelivery(@, Greeting(b))],
             poll' = poll, chat' = chat, events' = events, used'.limit = used.limit
      PROVE  /\ Quiet /\ SameReplies /\ ledger'.operations = ledger.operations
             /\ ledger'.decisions \in {ledger.decisions, D} /\ ledger'.binding = b
  <2>1. /\ ledger'.operations = ledger.operations /\ ledger'.binding = b
        /\ ledger'.decisions = k.decisions /\ ledger'.challenges = k.challenges
        /\ ledger'.outbox \in {k.outbox, QueuedDelivery(k.outbox, Greeting(b))}
        /\ ledger'.route = ledger.route /\ ledger'.cursors = ledger.cursors
        /\ ledger'.journal = ledger.journal
    BY <1>2, <1>4 DEF LedgerFields
  <2>2. StillQueued(ledger.outbox, ledger'.outbox)
    <3>1. StillQueued(k.outbox, ledger'.outbox)
      BY <1>3, <2>1, OutboxKept
    <3>. QED  BY <1>3, <3>1 DEF StillQueued
  <2>. QED  BY <1>2, <1>3, <1>4, <2>1, <2>2 DEF Quiet, SameReplies
<1>5. CASE BindSession
  <2>1. PICK last \in 0..Len(events) :
          LET b == [id |-> used.grants + 1, gen |-> Route.gen, cursor |-> last,
                    seen |-> last, start |-> last]
          IN  ledger' = [k EXCEPT !.binding = b, !.outbox = QueuedDelivery(@, Greeting(b))]
    BY <1>5 DEF BindSession, k, id
  <2>. DEFINE b == [id |-> used.grants + 1, gen |-> Route.gen, cursor |-> last,
                    seen |-> last, start |-> last]
  <2>2. /\ used'.grants = used.grants + 1 /\ used'.limit = used.limit
        /\ DOMAIN used' = UsedFields
        /\ poll' = poll /\ chat' = chat /\ events' = events
    BY <1>5 DEF BindSession, UsedFields
  <2>3. ledger' = [k EXCEPT !.binding = b, !.outbox = QueuedDelivery(@, Greeting(b))]
    BY <2>1
  <2>. HIDE DEF b
  <2>4. /\ Quiet /\ SameReplies /\ ledger'.operations = ledger.operations
        /\ ledger'.decisions \in {ledger.decisions, D} /\ ledger'.binding = b
    BY <1>4, <2>2, <2>3
  <2>5. last \in Nat
    BY <2>1
  <2>. QED  BY <2>2, <2>4, <2>5 DEF b, D, id
<1>6. CASE DetachSession
  <2>1. /\ ledger' = [k EXCEPT !.binding = NoBinding]
        /\ poll' = poll /\ chat' = chat /\ events' = events /\ used' = used
    BY <1>6 DEF DetachSession, k, id
  <2>. QED  BY <1>4, <2>1 DEF D, id
<1>. QED  BY <1>5, <1>6

\* The steps of the polling thread that do not read or commit a page.
LEMMA SendFrame ==
  ASSUME BridgeInv, DOMAIN used = UsedFields, DOMAIN chat = ChatFields,
         \/ ReserveNext \/ SendDelivery \/ FinishSend \/ ReadWake \/ JournalWake
         \/ StartJudgement \/ FinishJudgement
  PROVE  /\ Quiet /\ SameReplies /\ ledger'.operations = ledger.operations
         /\ used'.grants = used.grants /\ DOMAIN used' = DOMAIN used
         /\ \/ SameGrant
            \/ ReadWake \/ JournalWake \/ FinishJudgement
<1>1. /\ DOMAIN ledger = LedgerFields /\ OutboxOK(ledger.outbox) /\ DOMAIN poll = PollFields
  BY DEF BridgeInv, PollOK
<1>2. /\ used'.limit = used.limit /\ used'.grants = used.grants
      /\ DOMAIN used' = DOMAIN used /\ events' = events
  BY DEF UsedFields, ReserveNext, SendDelivery, FinishSend, ReadWake, JournalWake,
         StartJudgement, FinishJudgement, AtPoll
<1>3. chat.replies = chat'.replies /\ DOMAIN chat' = DOMAIN chat
  <2>1. CASE SendDelivery
    <3>1. chat' = chat \/ \E S : chat' = [chat EXCEPT !.shown = S]
      BY <2>1 DEF SendDelivery
    <3>. QED  BY <3>1 DEF ChatFields
  <2>. QED  BY <2>1 DEF ReserveNext, FinishSend, ReadWake, JournalWake, StartJudgement,
                        FinishJudgement
<1>4. /\ poll'.pc \notin {"page", "observe"}
      /\ poll'.pc = "decide" => ReadWake
  <2>1. Idle.pc = "idle" /\ DOMAIN Idle = PollFields
    BY DEF Idle, PollFields
  <2>2. CASE ReserveNext
    <3>1. poll' = Idle \/ \E x, y : poll' = [Idle EXCEPT !.pc = "send", !.delivery = x, !.host = y]
      BY <2>2 DEF ReserveNext
    <3>. QED  BY <2>1, <3>1 DEF PollFields
  <2>3. CASE SendDelivery
    <3>1. \E x : poll' = [poll EXCEPT !.pc = "finish", !.receipt = x]
      BY <2>3 DEF SendDelivery
    <3>. QED  BY <1>1, <3>1 DEF PollFields
  <2>4. CASE FinishSend \/ JournalWake \/ FinishJudgement
    <3>1. poll' = Idle
      BY <2>4 DEF FinishSend, JournalWake, FinishJudgement
    <3>. QED  BY <2>1, <3>1
  <2>5. CASE ReadWake
    <3>1. \E x, y : poll' = [Idle EXCEPT !.pc = "decide", !.binding = x, !.upto = y]
      BY <2>5 DEF ReadWake
    <3>. QED  BY <2>1, <2>5, <3>1 DEF PollFields
  <2>6. CASE StartJudgement
    <3>1. \E x : poll' = [Idle EXCEPT !.pc = "judging", !.decision = x]
      BY <2>6 DEF StartJudgement
    <3>. QED  BY <2>1, <3>1 DEF PollFields
  <2>. QED  BY <2>2, <2>3, <2>4, <2>5, <2>6
<1>5. ASSUME ledger'.route = ledger.route, ledger'.cursors = ledger.cursors,
             ledger'.journal = ledger.journal, ledger'.challenges = ledger.challenges,
             StillQueued(ledger.outbox, ledger'.outbox)
      PROVE  Quiet /\ SameReplies
  BY <1>2, <1>3, <1>4, <1>5 DEF Quiet, SameReplies
<1>6. CASE ReserveNext \/ SendDelivery \/ FinishSend
  <2>1. ledger' = ledger \/ \E d : ledger' = [ledger EXCEPT !.outbox = Saved(@, d)]
    BY <1>6 DEF ReserveNext, SendDelivery, FinishSend
  <2>2. /\ ledger'.operations = ledger.operations /\ ledger'.route = ledger.route
        /\ ledger'.cursors = ledger.cursors /\ ledger'.journal = ledger.journal
        /\ ledger'.challenges = ledger.challenges /\ ledger'.binding = ledger.binding
        /\ ledger'.decisions = ledger.decisions
        /\ ledger'.outbox = ledger.outbox \/ \E d : ledger'.outbox = Saved(ledger.outbox, d)
    BY <1>1, <2>1 DEF LedgerFields
  <2>3. StillQueued(ledger.outbox, ledger'.outbox)
    BY <1>1, <2>2, OutboxKept
  <2>. QED  BY <1>2, <1>4, <1>5, <2>2, <2>3 DEF SameGrant
<1>7. CASE ReadWake
  BY <1>1, <1>2, <1>5, <1>7, OutboxKept DEF ReadWake
<1>8. CASE StartJudgement
  <2>1. ledger' = ledger /\ poll'.pc # "decide"
    BY <1>8 DEF StartJudgement, Idle
  <2>. QED  BY <1>1, <1>2, <1>5, <2>1, OutboxKept DEF SameGrant
<1>9. CASE JournalWake
  <2>1. /\ ledger'.operations = ledger.operations /\ ledger'.route = ledger.route
        /\ ledger'.cursors = ledger.cursors /\ ledger'.journal = ledger.journal
        /\ ledger'.challenges = ledger.challenges /\ ledger'.outbox = ledger.outbox
    BY <1>1, <1>9 DEF JournalWake, WakeJournaled, LedgerFields
  <2>. QED  BY <1>1, <1>2, <1>5, <1>9, <2>1, OutboxKept
<1>10. CASE FinishJudgement
  <2>1. PICK d \in ledger.decisions, verdict \in {"notify", "silent", "pending"} :
          \/ ledger' = ledger
          \/ ledger' = [ledger EXCEPT
               !.decisions = (@ \ {d}) \cup {[d EXCEPT !.state = verdict]},
               !.outbox = IF verdict = "notify" THEN QueuedDelivery(@, Notice(d)) ELSE @]
    BY <1>10 DEF FinishJudgement
  <2>2. /\ ledger'.operations = ledger.operations /\ ledger'.route = ledger.route
        /\ ledger'.cursors = ledger.cursors /\ ledger'.journal = ledger.journal
        /\ ledger'.challenges = ledger.challenges
        /\ ledger'.outbox \in {ledger.outbox, QueuedDelivery(ledger.outbox, Notice(d))}
    BY <1>1, <2>1 DEF LedgerFields
  <2>3. StillQueued(ledger.outbox, ledger'.outbox)
    BY <1>1, <2>2, OutboxKept
  <2>. QED  BY <1>1, <1>2, <1>5, <1>10, <2>2, <2>3
<1>. QED  BY <1>6, <1>7, <1>8, <1>9, <1>10

\* The session reports, and the polling thread takes up a page of its events.
LEMMA PageFrame ==
  ASSUME BridgeInv, SessionReports \/ ReadPage \/ ReadGrantPage \/ BeginPage \/ ObserveEvent
  PROVE  /\ SameGrant /\ SameReplies /\ used' = used
         /\ \A q \in ledger'.operations : \E o \in ledger.operations : SameInput(q, o)
<1>1. /\ DOMAIN ledger = LedgerFields /\ OperationsOK(ledger.operations, rpc)
      /\ DOMAIN poll = PollFields
  BY DEF BridgeInv, PollOK
<1>2. Idle.pc = "idle" /\ DOMAIN Idle = PollFields
  BY DEF Idle, PollFields
<1>3. used' = used /\ chat' = chat
  BY DEF SessionReports, ReadPage, ReadGrantPage, BeginPage, ObserveEvent
<1>4. CASE SessionReports
  BY <1>3, <1>4 DEF SessionReports, SameGrant, SameReplies, SameInput
<1>5. CASE ReadPage \/ ReadGrantPage \/ BeginPage
  <2>1. ledger' = ledger
    BY <1>5 DEF ReadPage, ReadGrantPage, BeginPage
  <2>2. poll'.pc # "decide"
    <3>1. CASE ReadPage
      BY <1>2, <3>1 DEF ReadPage, PollFields
    <3>2. CASE ReadGrantPage
      BY <1>2, <3>2 DEF ReadGrantPage, PollFields
    <3>3. CASE BeginPage
      <4>1. poll' = Idle \/ poll' = [poll EXCEPT !.pc = "observe"]
        BY <3>3 DEF BeginPage, Polled
      <4>. QED  BY <1>1, <1>2, <4>1 DEF PollFields
    <3>. QED  BY <1>5, <3>1, <3>2, <3>3
  <2>. QED  BY <1>3, <2>1, <2>2 DEF SameGrant, SameReplies, SameInput
<1>6. CASE ObserveEvent
  <2>. DEFINE e == events[poll.at + 1]
              U(o) == IF o.id = e.operation THEN Observed(o, e) ELSE o
  <2>1. \A o \in ledger.operations : SameInput(U(o), o)
    <3>. HIDE DEF e
    <3>. QED  BY <1>1 DEF OperationsOK, OperationFields, Observed, SameInput
  <2>2. ledger' = [ledger EXCEPT !.operations = {U(o) : o \in ledger.operations}]
    BY <1>6 DEF ObserveEvent
  <2>. HIDE DEF U
  <2>3. /\ ledger'.operations = {U(o) : o \in ledger.operations}
        /\ ledger'.binding = ledger.binding /\ ledger'.decisions = ledger.decisions
        /\ ledger'.journal = ledger.journal
    BY <1>1, <2>2 DEF LedgerFields
  <2>4. poll'.pc # "decide"
    BY <1>1, <1>6 DEF ObserveEvent, AtPoll, PollFields
  <2>. QED  BY <1>3, <2>1, <2>3, <2>4 DEF SameGrant, SameReplies
<1>. QED  BY <1>3, <1>4, <1>5, <1>6

\* A page is committed: the cursor of the grant is not the one its decisions follow.
LEMMA CommitFrame ==
  ASSUME BridgeInv, DOMAIN ledger.binding = BindingFields, CommitPage
  PROVE  /\ SameReplies /\ used' = used /\ events' = events /\ poll' = Idle
         /\ ledger'.operations = ledger.operations
         /\ ledger'.decisions = ledger.decisions
         /\ ledger'.binding \in {ledger.binding, [ledger.binding EXCEPT !.seen = poll.upto]}
<1>1. DOMAIN ledger = LedgerFields
  BY DEF BridgeInv
<1>2. chat' = chat /\ used' = used /\ events' = events /\ poll' = Idle
  BY DEF CommitPage, AtPoll
<1>3. CASE ledger' = [ledger EXCEPT !.binding.seen = poll.upto]
  <2>1. /\ ledger'.operations = ledger.operations
        /\ ledger'.decisions = ledger.decisions /\ ledger'.journal = ledger.journal
        /\ ledger'.binding = [ledger.binding EXCEPT !.seen = poll.upto]
    BY <1>1, <1>3 DEF LedgerFields
  <2>. QED  BY <1>2, <2>1 DEF SameReplies
<1>4. CASE \E from, tell : ledger' = PageStored(ledger, from, poll.upto, tell)
  <2>1. /\ ledger'.operations = ledger.operations
        /\ ledger'.decisions = ledger.decisions /\ ledger'.journal = ledger.journal
        /\ ledger'.binding = ledger.binding
    BY <1>1, <1>4 DEF LedgerFields, PageStored
  <2>. QED  BY <1>2, <2>1 DEF SameReplies
<1>. QED  BY <1>3, <1>4 DEF CommitPage

-----------------------------------------------------------------------------
(* The decisions of a grant.                                                *)

\* The decisions D of the grant b cover the events from its start to its cursor, each
\* event once, and one at most waits.
Covered(D, b) ==
  LET own == {d \in D : d.binding = b.id}
  IN  /\ \A n \in (b.start + 1)..b.cursor : \E d \in own : d.from < n /\ n <= d.upto
      /\ \A d, e \in own, n \in (b.start + 1)..b.cursor :
           (d.from < n /\ n <= d.upto /\ e.from < n /\ n <= e.upto) => d = e
      /\ \A d \in own : d.upto <= b.cursor
      /\ \A d, e \in own : (d.state = "pending" /\ e.state = "pending") => d = e

NonePending(D, b) == \A d \in D : d.binding = b.id => d.state # "pending"

GrantPage == poll.pc \in {"page", "observe"} /\ ~OfRoute => poll.upto \in Nat

\* The grant is the last one given, its decisions cover its events, and the thread that
\* is about to add one read its page when none was waiting.
GrantsInv ==
  /\ DOMAIN used = UsedFields /\ used.grants \in Nat /\ DOMAIN chat = ChatFields
  /\ DOMAIN ledger.binding = BindingFields /\ ledger.binding.id \in 0..used.grants
  /\ ledger.binding.cursor \in Nat /\ ledger.binding.seen \in Nat
  /\ ledger.binding.start \in Nat
  /\ ledger.binding.start <= ledger.binding.cursor
  /\ \A d \in ledger.decisions : /\ DOMAIN d = DecisionFields
                                 /\ d.binding \in 1..used.grants
                                 /\ d.from \in Nat /\ d.upto \in Nat
  /\ ledger.binding.id # 0 => Covered(ledger.decisions, ledger.binding)
  /\ poll.pc = "decide" =>
       /\ poll.binding.id \in 1..used.grants
       /\ poll.binding.cursor \in Nat /\ poll.upto \in Nat
       /\ poll.binding.cursor < poll.upto
       /\ poll.binding.id = ledger.binding.id => NonePending(ledger.decisions, poll.binding)
  /\ GrantPage

\* Decisions that are judged or revoked cover what they covered.
LEMMA DecisionsRevised ==
  ASSUME NEW D, NEW b, Covered(D, b), NEW T,
         \A n \in D : \E t \in T : t.binding = n.binding /\ t.from = n.from /\ t.upto = n.upto,
         \A t, u \in T : \E d, e \in D :
           /\ t.binding = d.binding /\ t.from = d.from /\ t.upto = d.upto
           /\ u.binding = e.binding /\ u.from = e.from /\ u.upto = e.upto
           /\ t.state = "pending" => d.state = "pending"
           /\ u.state = "pending" => e.state = "pending"
           /\ d = e => t = u
  PROVE  Covered(T, b)
<1>. DEFINE own == {d \in D : d.binding = b.id}
            later == {t \in T : t.binding = b.id}
<1>1. ASSUME NEW n \in (b.start + 1)..b.cursor
      PROVE  \E t \in later : t.from < n /\ n <= t.upto
  <2>1. PICK d \in own : d.from < n /\ n <= d.upto
    BY DEF Covered
  <2>2. PICK t \in T : t.binding = d.binding /\ t.from = d.from /\ t.upto = d.upto
    BY <2>1
  <2>3. t \in later
    BY <2>1, <2>2
  <2>. HIDE DEF own, later
  <2>. QED  BY <2>1, <2>2, <2>3
<1>2. ASSUME NEW t \in later, NEW u \in later, NEW n \in (b.start + 1)..b.cursor,
             t.from < n, n <= t.upto, u.from < n, n <= u.upto
      PROVE  t = u
  <2>1. PICK d \in D, e \in D :
          /\ t.binding = d.binding /\ t.from = d.from /\ t.upto = d.upto
          /\ u.binding = e.binding /\ u.from = e.from /\ u.upto = e.upto
          /\ d = e => t = u
    BY <1>2
  <2>2. d \in own /\ e \in own /\ d.from < n /\ n <= d.upto /\ e.from < n /\ n <= e.upto
    BY <1>2, <2>1
  <2>3. d = e
    BY <2>2 DEF Covered
  <2>. QED  BY <2>1, <2>3
<1>3. ASSUME NEW t \in later PROVE t.upto <= b.cursor
  BY <1>3 DEF Covered
<1>4. ASSUME NEW t \in later, NEW u \in later, t.state = "pending", u.state = "pending"
      PROVE  t = u
  <2>1. PICK d \in D, e \in D :
          /\ t.binding = d.binding /\ u.binding = e.binding
          /\ d.state = "pending" /\ e.state = "pending" /\ (d = e => t = u)
    BY <1>4
  <2>2. d \in own /\ e \in own
    BY <2>1
  <2>3. d = e
    BY <2>1, <2>2 DEF Covered
  <2>. QED  BY <2>1, <2>3
<1>. QED  BY <1>1, <1>2, <1>3, <1>4 DEF Covered

\* A step that leaves the grant and its decisions alone.
LEMMA GrantsKept ==
  ASSUME GrantsInv, SameGrant, DOMAIN chat' = DOMAIN chat, GrantPage'
  PROVE  GrantsInv'
BY DEF GrantsInv, SameGrant

\* A grant that ends takes its waiting decision with it; a new one has none.
LEMMA BindKeepsGrants ==
  ASSUME BridgeInv, GrantsInv, BindSession \/ DetachSession
  PROVE  GrantsInv'
<1>. DEFINE id == ledger.binding.id
            R(d) == IF d.binding = id /\ d.state = "pending"
                    THEN [d EXCEPT !.state = "revoked"] ELSE d
            D == {R(d) : d \in ledger.decisions}
<1>1. /\ DOMAIN used' = UsedFields /\ DOMAIN chat' = ChatFields /\ poll' = poll
      /\ ledger'.decisions \in {ledger.decisions, D}
      /\ \/ ledger'.binding = NoBinding /\ used' = used
         \/ /\ used'.grants = used.grants + 1
            /\ \E last \in Nat :
                 ledger'.binding = [id |-> used.grants + 1, gen |-> Route.gen,
                                    cursor |-> last, seen |-> last, start |-> last]
  BY GrantFrame DEF GrantsInv, SameReplies
<1>2. \A d \in ledger.decisions : /\ DOMAIN R(d) = DecisionFields /\ R(d).binding = d.binding
                                  /\ R(d).from = d.from /\ R(d).upto = d.upto
  BY DEF GrantsInv, DecisionFields
<1>. HIDE DEF R, id
<1>3. \A t \in ledger'.decisions : /\ DOMAIN t = DecisionFields
                                   /\ t.binding \in 1..used.grants
                                   /\ t.from \in Nat /\ t.upto \in Nat
  BY <1>1, <1>2 DEF GrantsInv
<1>4. used.grants \in Nat
  BY DEF GrantsInv
<1>5. /\ used'.grants \in Nat /\ used'.grants >= used.grants
      /\ DOMAIN ledger'.binding = BindingFields /\ ledger'.binding.id \in 0..used'.grants
      /\ ledger'.binding.cursor \in Nat /\ ledger'.binding.seen \in Nat
      /\ ledger'.binding.start \in Nat
      /\ ledger'.binding.start = ledger'.binding.cursor
      /\ ledger'.binding.id = 0 \/ ledger'.binding.id = used.grants + 1
  <2>1. CASE ledger'.binding = NoBinding /\ used' = used
    BY <1>4, <2>1 DEF NoBinding, BindingFields
  <2>2. ASSUME used'.grants = used.grants + 1, NEW last \in Nat,
               ledger'.binding = [id |-> used.grants + 1, gen |-> Route.gen,
                                  cursor |-> last, seen |-> last, start |-> last]
        PROVE  /\ used'.grants \in Nat /\ used'.grants >= used.grants
               /\ DOMAIN ledger'.binding = BindingFields
               /\ ledger'.binding.id \in 0..used'.grants
               /\ ledger'.binding.cursor \in Nat /\ ledger'.binding.seen \in Nat
               /\ ledger'.binding.start \in Nat
               /\ ledger'.binding.start = ledger'.binding.cursor
               /\ ledger'.binding.id = 0 \/ ledger'.binding.id = used.grants + 1
    BY <1>4, <2>2 DEF BindingFields
  <2>. QED  BY <1>1, <2>1, <2>2
<1>6. \A t \in ledger'.decisions : t.binding # used.grants + 1 /\ t.binding \in 1..used'.grants
  BY <1>3, <1>4, <1>5
<1>7. ledger'.binding.id # 0 => Covered(ledger'.decisions, ledger'.binding)
  BY <1>5, <1>6 DEF Covered
<1>8. poll.pc = "decide" => poll.binding.id \in 1..used.grants
  BY DEF GrantsInv
<1>9. poll.pc = "decide" => /\ poll.binding.id \in 1..used'.grants
                            /\ poll.binding.id # ledger'.binding.id
  BY <1>4, <1>5, <1>8
<1>10. GrantPage'
  BY <1>1 DEF GrantsInv, GrantPage, OfRoute
<1>. QED  BY <1>1, <1>3, <1>5, <1>6, <1>7, <1>9, <1>10 DEF GrantsInv

\* The thread reads a page to decide about when no decision waits.
LEMMA ReadWakeKeepsGrants == ASSUME BridgeInv, GrantsInv, ReadWake PROVE GrantsInv'
<1>1. /\ ledger' = ledger /\ used' = used /\ chat' = chat /\ Bound
      /\ ~\E d \in ledger.decisions : d.binding = ledger.binding.id /\ d.state = "pending"
  BY DEF ReadWake
<1>2. PICK upto \in (ledger.binding.cursor + 1)..Len(events) :
        poll' = [Idle EXCEPT !.pc = "decide", !.binding = ledger.binding, !.upto = upto]
  BY DEF ReadWake
<1>3. poll'.pc = "decide" /\ poll'.binding = ledger.binding /\ poll'.upto = upto
  BY <1>2 DEF Idle
<1>4. /\ ledger.binding.cursor \in Nat /\ ledger.binding.id \in 0..used.grants
      /\ ledger.binding.id # 0
  BY <1>1 DEF GrantsInv, Bound
<1>5. upto \in Nat /\ ledger.binding.cursor < upto
  BY <1>4
<1>6. NonePending(ledger.decisions, ledger.binding)
  BY <1>1 DEF NonePending
<1>7. GrantPage'
  BY <1>3 DEF GrantPage
<1>. QED  BY <1>1, <1>3, <1>4, <1>5, <1>6, <1>7 DEF GrantsInv

\* A decision is journaled with the cursor, for the grant and the cursor it was made for.
LEMMA JournalWakeKeepsGrants == ASSUME BridgeInv, GrantsInv, JournalWake PROVE GrantsInv'
<1>1. /\ DOMAIN ledger = LedgerFields /\ poll.pc = "decide" /\ poll' = Idle
      /\ used' = used /\ chat' = chat
  BY DEF BridgeInv, JournalWake, AtPoll
<1>2. poll'.pc = "idle" /\ GrantPage'
  BY <1>1 DEF Idle, GrantPage
<1>3. CASE ledger' = ledger
  BY <1>1, <1>2, <1>3, GrantsKept DEF SameGrant, GrantsInv
<1>4. ASSUME NEW state \in {"pending", "silent"},
             poll.binding.id = ledger.binding.id, poll.binding.cursor = ledger.binding.cursor,
             ledger' = [ledger EXCEPT
               !.decisions = @ \cup {Decision(poll.binding, poll.upto, state)},
               !.binding.cursor = Decision(poll.binding, poll.upto, state).upto]
      PROVE  GrantsInv'
  <2>. DEFINE b == ledger.binding
              k == ledger'.binding
              x == Decision(poll.binding, poll.upto, state)
              D == ledger.decisions
  <2>1. /\ DOMAIN x = DecisionFields /\ x.binding = b.id /\ x.from = b.cursor
        /\ x.upto = poll.upto
    BY <1>4 DEF Decision, DecisionFields
  <2>. HIDE DEF x
  <2>2. ledger' = [ledger EXCEPT !.decisions = @ \cup {x}, !.binding.cursor = x.upto]
    BY <1>4 DEF x
  <2>3. /\ ledger'.decisions = D \cup {x}
        /\ k = [b EXCEPT !.cursor = poll.upto]
    BY <1>1, <2>1, <2>2 DEF LedgerFields
  <2>4. /\ DOMAIN k = BindingFields /\ k.id = b.id /\ k.seen = b.seen /\ k.start = b.start
        /\ k.cursor = poll.upto
    BY <2>3 DEF GrantsInv, BindingFields
  <2>5. /\ b.id \in 1..used.grants /\ b.cursor \in Nat /\ poll.upto \in Nat
        /\ b.cursor < poll.upto /\ b.start \in Nat /\ b.start <= b.cursor
        /\ NonePending(D, b) /\ Covered(D, b)
        /\ \A d \in D : d.from \in Nat /\ d.upto \in Nat
    BY <1>1, <1>4 DEF GrantsInv, NonePending
  <2>. HIDE DEF D, b, k
  <2>6. Covered(D \cup {x}, k)
    <3>. DEFINE own == {d \in D : d.binding = b.id}
                later == {d \in D \cup {x} : d.binding = k.id}
    <3>1. later = own \cup {x}
      BY <2>1, <2>4
    <3>2. /\ \A n \in (b.start + 1)..b.cursor : \E d \in own : d.from < n /\ n <= d.upto
          /\ \A d, e \in own, n \in (b.start + 1)..b.cursor :
               (d.from < n /\ n <= d.upto /\ e.from < n /\ n <= e.upto) => d = e
          /\ \A d \in own : d.upto <= b.cursor
      BY <2>5 DEF Covered
    <3>. HIDE DEF later
    <3>3. ASSUME NEW n \in (k.start + 1)..k.cursor
          PROVE  \E d \in later : d.from < n /\ n <= d.upto
      <4>1. CASE n <= b.cursor
        BY <2>4, <2>5, <3>1, <3>2, <4>1
      <4>2. CASE b.cursor < n
        BY <2>1, <2>4, <2>5, <3>1, <4>2
      <4>. QED  BY <2>4, <2>5, <4>1, <4>2
    <3>4. ASSUME NEW d \in later, NEW e \in later, NEW n \in (k.start + 1)..k.cursor,
                 d.from < n, n <= d.upto, e.from < n, n <= e.upto
          PROVE  d = e
      <4>1. CASE n <= b.cursor
        <5>1. d # x /\ e # x /\ n \in (b.start + 1)..b.cursor
          BY <2>1, <2>4, <2>5, <3>4, <4>1
        <5>. QED  BY <3>1, <3>2, <3>4, <5>1
      <4>2. CASE b.cursor < n
        <5>1. \A f \in own : ~(n <= f.upto)
          BY <2>5, <3>2, <4>2
        <5>. QED  BY <3>1, <3>4, <5>1
      <4>. QED  BY <2>4, <2>5, <4>1, <4>2
    <3>5. \A d \in later : d.upto <= k.cursor
      BY <2>1, <2>4, <2>5, <3>1, <3>2
    <3>6. \A d, e \in later : (d.state = "pending" /\ e.state = "pending") => d = e
      BY <2>5, <3>1 DEF NonePending
    <3>. QED  BY <3>3, <3>4, <3>5, <3>6 DEF Covered, later
  <2>. QED  BY <1>1, <1>2, <2>1, <2>3, <2>4, <2>5, <2>6 DEF GrantsInv, k, b, D
<1>. QED  BY <1>3, <1>4 DEF JournalWake, WakeJournaled

\* A decision is judged.
LEMMA JudgeKeepsGrants == ASSUME BridgeInv, GrantsInv, FinishJudgement PROVE GrantsInv'
<1>1. /\ DOMAIN ledger = LedgerFields /\ poll' = Idle /\ used' = used /\ chat' = chat
  BY DEF BridgeInv, FinishJudgement
<1>2. poll'.pc = "idle" /\ GrantPage'
  BY <1>1 DEF Idle, GrantPage
<1>3. PICK d \in ledger.decisions, verdict \in {"notify", "silent", "pending"} :
        \/ ledger' = ledger
        \/ /\ d.state = "pending"
           /\ ledger' = [ledger EXCEPT
                !.decisions = (@ \ {d}) \cup {[d EXCEPT !.state = verdict]},
                !.outbox = IF verdict = "notify" THEN QueuedDelivery(@, Notice(d)) ELSE @]
  BY DEF FinishJudgement
<1>4. CASE ledger' = ledger
  BY <1>1, <1>2, <1>4, GrantsKept DEF SameGrant, GrantsInv
<1>5. CASE ledger' # ledger
  <2>. DEFINE x == [d EXCEPT !.state = verdict]
              D == ledger.decisions
              T == (D \ {d}) \cup {x}
  <2>1. /\ DOMAIN x = DecisionFields /\ x.binding = d.binding /\ x.from = d.from
        /\ x.upto = d.upto /\ d.state = "pending"
    BY <1>3, <1>5 DEF GrantsInv, DecisionFields
  <2>2. ledger'.decisions = T /\ ledger'.binding = ledger.binding
    BY <1>1, <1>3, <1>5 DEF LedgerFields
  <2>. HIDE DEF x
  <2>3. /\ \A n \in D : \E t \in T :
             t.binding = n.binding /\ t.from = n.from /\ t.upto = n.upto
        /\ \A t, u \in T : \E p, e \in D :
             /\ t.binding = p.binding /\ t.from = p.from /\ t.upto = p.upto
             /\ u.binding = e.binding /\ u.from = e.from /\ u.upto = e.upto
             /\ t.state = "pending" => p.state = "pending"
             /\ u.state = "pending" => e.state = "pending"
             /\ p = e => t = u
    <3>1. \A n \in D : \E t \in T :
             t.binding = n.binding /\ t.from = n.from /\ t.upto = n.upto
      BY <2>1
    <3>2. ASSUME NEW t \in T, NEW u \in T
          PROVE  \E p, e \in D :
                   /\ t.binding = p.binding /\ t.from = p.from /\ t.upto = p.upto
                   /\ u.binding = e.binding /\ u.from = e.from /\ u.upto = e.upto
                   /\ t.state = "pending" => p.state = "pending"
                   /\ u.state = "pending" => e.state = "pending"
                   /\ p = e => t = u
      <4>1. CASE t = x /\ u = x
        BY <2>1, <4>1
      <4>2. CASE t = x /\ u # x
        BY <2>1, <4>2
      <4>3. CASE t # x /\ u = x
        BY <2>1, <4>3
      <4>4. CASE t # x /\ u # x
        BY <4>4
      <4>. QED  BY <4>1, <4>2, <4>3, <4>4
    <3>. QED  BY <3>1, <3>2
  <2>4. Covered(D, ledger.binding) => Covered(T, ledger.binding)
    <3>. HIDE DEF T, D
    <3>. QED  BY <2>3, DecisionsRevised
  <2>. QED  BY <1>1, <1>2, <2>1, <2>2, <2>4 DEF GrantsInv
<1>. QED  BY <1>4, <1>5

\* What a confirmation or a one-word reply leaves alone.
LEMMA ConfirmFrame ==
  ASSUME BridgeInv,
         (\E m : ConfirmInput(m)) \/ (\E r \in chat.replies : ShortReply(r))
  PROVE  /\ Quiet /\ SameGrant /\ chat' = chat
         /\ \/ ledger'.operations = ledger.operations
            \/ \E op : /\ ledger'.operations = ledger.operations \cup {op}
                       /\ NewIn(op, ledger.operations, Route.gen)
<1>1. /\ DOMAIN ledger = LedgerFields /\ OutboxOK(ledger.outbox)
      /\ ChallengesOK(ledger.challenges) /\ OperationsOK(ledger.operations, rpc)
  BY DEF BridgeInv
<1>2. /\ poll' = poll /\ used' = used /\ events' = events /\ chat' = chat /\ rpc = 0
  BY DEF ConfirmInput, ShortReply, Admitted, Unlocked
<1>3. ASSUME NEW l, DOMAIN l = LedgerFields, l.operations = ledger.operations,
             l.challenges = ledger.challenges, l.outbox = ledger.outbox,
             l.route = ledger.route, l.cursors = ledger.cursors,
             l.binding = ledger.binding, l.decisions = ledger.decisions,
             NEW c \in ledger.challenges, c.gen = Route.gen, NEW m, NEW short,
             ledger' = Confirmed(l, c, m, short)
      PROVE  /\ Quiet /\ SameGrant
             /\ \/ ledger'.operations = ledger.operations
                \/ \E op : /\ ledger'.operations = ledger.operations \cup {op}
                           /\ NewIn(op, ledger.operations, Route.gen)
  <2>. DEFINE k == Confirmed(l, c, m, short)
  <2>1. /\ k.route = l.route /\ k.cursors = l.cursors /\ k.outbox = l.outbox
        /\ k.binding = l.binding /\ k.decisions = l.decisions
        /\ \A x \in k.challenges : \E y \in l.challenges : x.gen = y.gen
        /\ \/ k.operations = l.operations
           \/ \E op : /\ k.operations = l.operations \cup {op}
                      /\ NewIn(op, l.operations, c.gen)
    BY <1>1, <1>2, <1>3, ConfirmedFrame
  <2>2. ledger' = k
    BY <1>3
  <2>. HIDE DEF k
  <2>3. StillQueued(ledger.outbox, ledger'.outbox)
    BY <1>1, <1>3, <2>1, <2>2, OutboxKept
  <2>. QED  BY <1>2, <1>3, <2>1, <2>2, <2>3 DEF Quiet, SameGrant
<1>4. ASSUME NEW m, ConfirmInput(m)
      PROVE  /\ Quiet /\ SameGrant
             /\ \/ ledger'.operations = ledger.operations
                \/ \E op : /\ ledger'.operations = ledger.operations \cup {op}
                           /\ NewIn(op, ledger.operations, Route.gen)
  <2>1. PICK c \in ledger.challenges : Reachable(c) /\ ConfirmIn(ledger, c, m, 0)
    BY <1>4 DEF ConfirmInput
  <2>2. ledger' = Confirmed(ledger, c, m, 0) /\ c.gen = Route.gen
    BY <2>1 DEF ConfirmIn, Reachable
  <2>. QED  BY <1>1, <1>3, <2>2
<1>5. ASSUME NEW r, ShortReply(r)
      PROVE  /\ Quiet /\ SameGrant
             /\ \/ ledger'.operations = ledger.operations
                \/ \E op : /\ ledger'.operations = ledger.operations \cup {op}
                           /\ NewIn(op, ledger.operations, Route.gen)
  <2>. DEFINE l == Remembered(r)
  <2>1. /\ DOMAIN l = LedgerFields /\ l.operations = ledger.operations
        /\ l.challenges = ledger.challenges /\ l.outbox = ledger.outbox
        /\ l.route = ledger.route /\ l.cursors = ledger.cursors
        /\ l.binding = ledger.binding /\ l.decisions = ledger.decisions
    BY <1>1 DEF Remembered, Journal, LedgerFields
  <2>2. \/ ledger' = l
        \/ \E c \in Choice(r) : ledger' = Confirmed(l, c, r.message, r.message)
    BY <1>5 DEF ShortReply, ConfirmIn
  <2>. HIDE DEF l
  <2>3. CASE ledger' = l
    BY <1>1, <1>2, <2>1, <2>3, OutboxKept DEF Quiet, SameGrant
  <2>4. ASSUME NEW c \in Choice(r), ledger' = Confirmed(l, c, r.message, r.message)
        PROVE  /\ Quiet /\ SameGrant
               /\ \/ ledger'.operations = ledger.operations
                  \/ \E op : /\ ledger'.operations = ledger.operations \cup {op}
                             /\ NewIn(op, ledger.operations, Route.gen)
    <3>1. c \in ledger.challenges /\ c.gen = Route.gen
      BY DEF Choice, Meant, Reachable
    <3>. QED  BY <1>3, <2>1, <2>4, <3>1
  <2>. QED  BY <2>2, <2>3, <2>4
<1>. QED  BY <1>2, <1>4, <1>5

\* Every step keeps the grant and its decisions in order.
LEMMA GrantsStep ==
  ASSUME BridgeInv, GrantsInv, [BridgeNext]_bridgeVars PROVE GrantsInv'
<1>1. DOMAIN used = UsedFields /\ DOMAIN chat = ChatFields /\ GrantPage
  BY DEF GrantsInv
<1>2. ASSUME Quiet PROVE GrantPage'
  BY <1>1, <1>2 DEF Quiet, GrantPage, OfRoute
<1>3. CASE Requests
  <2>1. Quiet /\ SameGrant /\ DOMAIN chat' = DOMAIN chat
    BY <1>3, RequestFrame, ConfirmFrame DEF Requests, SameReplies
  <2>. QED  BY <1>2, <2>1, GrantsKept
<1>4. CASE StopHost \/ StartHost \/ ChallengeExpires \/ RestartBridge
  BY <1>1, <1>2, <1>4, ProcessFrame, GrantsKept DEF SameReplies
<1>5. CASE ApproveRoute \/ DisableRoute \/ ReplaceCredentials
  <2>1. SameGrant /\ SameReplies /\ poll' = poll
    BY <1>5, RerouteFrame
  <2>2. GrantPage'
    BY <1>1, <2>1 DEF GrantPage, OfRoute
  <2>. QED  BY <2>1, <2>2, GrantsKept DEF SameReplies
<1>6. CASE SessionReports
  <2>1. SameGrant /\ SameReplies /\ poll' = poll
    BY <1>6, PageFrame DEF SessionReports
  <2>2. GrantPage'
    BY <1>1, <2>1 DEF GrantPage, OfRoute
  <2>. QED  BY <2>1, <2>2, GrantsKept DEF SameReplies
<1>7. CASE ReadPage \/ ReadGrantPage \/ BeginPage \/ ObserveEvent
  <2>1. SameGrant /\ SameReplies
    BY <1>7, PageFrame
  <2>2. DOMAIN poll = PollFields
    BY DEF BridgeInv, PollOK
  <2>3. CASE ReadPage
    <3>1. poll'.binding = NoBinding
      BY <2>3 DEF ReadPage, Idle
    <3>. QED  BY <2>1, <3>1, GrantsKept DEF GrantPage, OfRoute, SameReplies
  <2>4. CASE ReadGrantPage
    <3>1. PICK upto \in (ledger.binding.seen + 1)..Len(events) :
            poll' = [Idle EXCEPT !.pc = "page", !.binding = ledger.binding,
                                 !.at = ledger.binding.seen, !.upto = upto]
      BY <2>4 DEF ReadGrantPage
    <3>2. poll'.upto = upto /\ ledger.binding.seen \in Nat
      BY <3>1 DEF Idle, GrantsInv
    <3>3. upto \in Nat
      BY <3>2
    <3>. QED  BY <2>1, <3>2, <3>3, GrantsKept DEF GrantPage, SameReplies
  <2>5. CASE BeginPage
    <3>1. poll.pc = "page" /\ (poll' = [poll EXCEPT !.pc = "observe"] \/ poll' = Idle)
      BY <2>5 DEF BeginPage, AtPoll, Polled
    <3>2. \/ poll'.binding = poll.binding /\ poll'.upto = poll.upto
          \/ poll'.pc = "idle"
      BY <2>2, <3>1 DEF PollFields, Idle
    <3>3. GrantPage'
      BY <1>1, <3>1, <3>2 DEF GrantPage, OfRoute
    <3>. QED  BY <2>1, <3>3, GrantsKept DEF SameReplies
  <2>6. CASE ObserveEvent
    <3>1. poll.pc = "observe" /\ poll' = [poll EXCEPT !.at = @ + 1]
      BY <2>6 DEF ObserveEvent, AtPoll
    <3>2. poll'.binding = poll.binding /\ poll'.upto = poll.upto
      BY <2>2, <3>1 DEF PollFields
    <3>3. GrantPage'
      BY <1>1, <3>1, <3>2 DEF GrantPage, OfRoute
    <3>. QED  BY <2>1, <3>3, GrantsKept DEF SameReplies
  <2>. QED  BY <1>7, <2>3, <2>4, <2>5, <2>6
<1>8. CASE CommitPage
  <2>1. /\ SameReplies /\ used' = used /\ poll' = Idle
        /\ ledger'.decisions = ledger.decisions
        /\ ledger'.binding \in {ledger.binding, [ledger.binding EXCEPT !.seen = poll.upto]}
    BY <1>8, CommitFrame DEF GrantsInv
  <2>2. poll'.pc = "idle"
    BY <2>1 DEF Idle
  <2>3. CASE ledger'.binding = ledger.binding
    <3>1. SameGrant
      BY <2>1, <2>2, <2>3 DEF SameGrant
    <3>. QED  BY <2>1, <2>2, <3>1, GrantsKept DEF GrantPage, SameReplies
  <2>4. CASE ledger'.binding # ledger.binding
    <3>. DEFINE b == ledger.binding
                k == ledger'.binding
    <3>1. poll.upto \in Nat
      <4>1. DOMAIN ledger = LedgerFields /\ poll.pc = "observe"
        BY <1>8 DEF CommitPage, AtPoll, BridgeInv
      <4>2. ASSUME OfRoute PROVE ledger'.binding = ledger.binding
        <5>1. \E from, tell : ledger' = PageStored(ledger, from, poll.upto, tell)
          BY <1>8, <4>2 DEF CommitPage
        <5>. QED  BY <4>1, <5>1 DEF PageStored, LedgerFields
      <4>. QED  BY <1>1, <2>4, <4>1, <4>2 DEF GrantPage
    <3>2. k = [b EXCEPT !.seen = poll.upto] /\ DOMAIN b = BindingFields
      BY <2>1, <2>4 DEF GrantsInv
    <3>3. /\ DOMAIN k = BindingFields /\ k.id = b.id /\ k.start = b.start
          /\ k.cursor = b.cursor /\ k.seen \in Nat
      BY <3>1, <3>2 DEF BindingFields
    <3>. HIDE DEF b, k
    <3>4. Covered(ledger.decisions, b) => Covered(ledger.decisions, k)
      BY <3>3 DEF Covered
    <3>. QED  BY <2>1, <2>2, <3>3, <3>4 DEF GrantsInv, GrantPage, SameReplies, b, k
  <2>. QED  BY <2>3, <2>4
<1>9. CASE ReserveNext \/ SendDelivery \/ FinishSend \/ StartJudgement
  <2>1. Quiet /\ SameReplies /\ (SameGrant \/ ReadWake \/ JournalWake \/ FinishJudgement)
    BY <1>1, <1>9, SendFrame
  <2>. QED
    BY <1>2, <2>1, GrantsKept, ReadWakeKeepsGrants, JournalWakeKeepsGrants, JudgeKeepsGrants
       DEF SameReplies
<1>10. CASE UNCHANGED bridgeVars
  BY <1>1, <1>10, GrantsKept DEF bridgeVars, SameGrant, GrantPage, OfRoute
<1>. QED
  BY <1>3, <1>4, <1>5, <1>6, <1>7, <1>8, <1>9, <1>10, BindKeepsGrants, ReadWakeKeepsGrants,
     JournalWakeKeepsGrants, JudgeKeepsGrants DEF BridgeNext, Administration, Polling

-----------------------------------------------------------------------------
(* The events of the session, and what the cursors have passed.             *)

SessionEvents == [operation : Nat, inv : 1..2, stage : {"started", "completed", "unknown"}]

\* An operation has seen the event: it is the one of its invocation, or the operation
\* knows that there was more than one.
Seen(o, e) == o.ambiguous \/ o.invocation = e.inv
SeenUpTo(o, evs, n) == \A i \in 1..n : evs[i].operation = o.id => Seen(o, evs[i])

OperationOK(o) ==
  /\ o.ambiguous \in BOOLEAN
  /\ o.ambiguous => o.state # "completed"
  /\ o.state = "completed" => o.invocation # 0

\* The id of what is told of an event, as the operations `ops' and the route's
\* generation have it.
OutcomeId(e, ops, gen) ==
  <<"outcome", gen, e.operation, e.inv,
    IF \E o \in ops : o.id = e.operation /\ o.owner = 0 /\ o.gen = gen
    THEN e.stage ELSE "terminal">>

\* The ends among the first n events of inputs of this generation are in the outbox.
Told(ops, evs, n, gen, outbox) ==
  \A o \in ops, i \in 1..n :
    (o.gen = gen /\ evs[i].operation = o.id /\ evs[i].stage # "started") =>
      \E d \in outbox : d.id = OutcomeId(evs[i], ops, gen)

OnPage == poll.pc \in {"page", "observe"}

\* The page the thread has is one of the log, and of the route as it is read.
PageInv ==
  OnPage =>
    /\ poll.at \in Nat /\ poll.upto \in Nat /\ poll.at <= poll.upto
    /\ poll.upto <= Len(events)
    /\ OfRoute => /\ poll.gen \in Nat /\ poll.gen <= Route.gen
                  /\ poll.gen = Route.gen => poll.notices = Route.notices
                  /\ poll.pc = "observe" => poll.gen = Route.gen

\* Events and operations name each other, and every event a cursor has passed, or the
\* thread on its way to it, has been seen by its operation.
EventsInv ==
  /\ DOMAIN Route = RouteFields
  /\ Route.gen \in Nat /\ used.limit.generations \in Nat
  /\ 1 <= Route.gen /\ Route.gen <= used.limit.generations
  /\ ledger.cursors \in [1..used.limit.generations -> Nat]
  /\ \A g \in 1..used.limit.generations : ledger.cursors[g] <= Len(events)
  /\ events \in Seq(SessionEvents)
  /\ \A i \in 1..Len(events) :
       events[i].operation # 0 => \E o \in ledger.operations : o.id = events[i].operation
  /\ \A c \in ledger.challenges : c.gen \in 1..Route.gen
  /\ \A o \in ledger.operations :
       /\ o.gen \in 1..Route.gen /\ OperationOK(o)
       /\ SeenUpTo(o, events, ledger.cursors[o.gen])
       /\ OnPage /\ OfRoute /\ poll.gen = o.gen => SeenUpTo(o, events, poll.at)

\* What the route's cursor has passed is told, unless a grant speaks for the session.
ToldInv ==
  Route.notices /\ used.grants = 0 =>
    Told(ledger.operations, events, ledger.cursors[Route.gen], Route.gen, ledger.outbox)

\* The ids of deliveries, as the model computes them.
LEMMA OutcomeHasId ==
  \A i : Outcome(events[i]).id = OutcomeId(events[i], ledger.operations, Route.gen)
BY DEF Outcome, OutcomeId

\* The invariant says what the property says.
LEMMA ToldIsQueued == ToldInv <=> OutcomesAreQueued
BY OutcomeHasId DEF ToldInv, Told, OutcomesAreQueued

\* What is told stays told when operations change or are added.
LEMMA StaysTold ==
  ASSUME NEW ops, NEW evs, NEW n \in Nat, NEW gen, NEW outbox, Told(ops, evs, n, gen, outbox),
         NEW T, NEW later, StillQueued(outbox, later),
         \A o \in ops : \E q \in T : SameInput(q, o),
         \A q \in T : \/ \E o \in ops : SameInput(q, o)
                      \/ \A o \in ops : o.id # q.id,
         \A q \in T : q.id # 0,
         \A i \in 1..n : evs[i].operation # 0 => \E o \in ops : o.id = evs[i].operation
  PROVE  Told(T, evs, n, gen, later)
<1>. SUFFICES ASSUME NEW q \in T, NEW i \in 1..n, q.gen = gen, evs[i].operation = q.id,
                     evs[i].stage # "started"
              PROVE  \E d \in later : d.id = OutcomeId(evs[i], T, gen)
  BY DEF Told
<1>1. PICK o \in ops : SameInput(q, o)
  OBVIOUS
<1>2. PICK d \in outbox : d.id = OutcomeId(evs[i], ops, gen)
  BY <1>1 DEF Told, SameInput
<1>3. (\E x \in T : x.id = evs[i].operation /\ x.owner = 0 /\ x.gen = gen)
      <=> (\E x \in ops : x.id = evs[i].operation /\ x.owner = 0 /\ x.gen = gen)
  BY <1>1 DEF SameInput
<1>4. OutcomeId(evs[i], T, gen) = OutcomeId(evs[i], ops, gen)
  BY <1>3 DEF OutcomeId
<1>. QED  BY <1>2, <1>4 DEF StillQueued

\* observe_operation: the event is seen, and whatever was seen before still is.
LEMMA ObservedSees ==
  ASSUME NEW o, DOMAIN o = OperationFields, OperationOK(o), NEW e \in SessionEvents
  PROVE  LET q == Observed(o, e)
         IN  /\ SameInput(q, o) /\ OperationOK(q) /\ Seen(q, e)
             /\ \A x \in SessionEvents : Seen(o, x) => Seen(q, x)
<1>. DEFINE q == Observed(o, e)
<1>1. e.inv \in 1..2 /\ \A x \in SessionEvents : x.inv \in 1..2
  BY DEF SessionEvents
<1>2. CASE o.ambiguous \/ o.invocation \notin {0, e.inv}
  <2>1. q = [o EXCEPT !.ambiguous = TRUE, !.state = "unknown"]
    BY <1>2 DEF Observed
  <2>2. SameInput(q, o) /\ q.ambiguous = TRUE /\ q.state = "unknown"
    BY <2>1 DEF OperationFields, SameInput
  <2>. QED  BY <2>2 DEF OperationOK, Seen
<1>3. CASE ~(o.ambiguous \/ o.invocation \notin {0, e.inv}) /\ o.state = "completed"
  <2>1. q = o
    BY <1>3 DEF Observed
  <2>2. o.invocation = e.inv
    BY <1>3 DEF OperationOK
  <2>. QED  BY <2>1, <2>2 DEF SameInput, Seen
<1>4. CASE ~(o.ambiguous \/ o.invocation \notin {0, e.inv}) /\ o.state # "completed"
  <2>1. q = [o EXCEPT !.invocation = e.inv,
                      !.state = IF e.stage = "started" THEN "running" ELSE e.stage]
    BY <1>4 DEF Observed
  <2>2. SameInput(q, o) /\ q.ambiguous = o.ambiguous /\ q.invocation = e.inv
    BY <2>1 DEF OperationFields, SameInput
  <2>3. OperationOK(q)
    BY <1>1, <1>4, <2>2 DEF OperationOK
  <2>4. ASSUME NEW x \in SessionEvents, Seen(o, x) PROVE Seen(q, x)
    BY <1>1, <1>4, <2>2, <2>4 DEF Seen
  <2>. QED  BY <2>2, <2>3, <2>4 DEF Seen
<1>. QED  BY <1>2, <1>3, <1>4

\* The ids of operations are not 0.
LEMMA IdsAreNotZero ==
  ASSUME NEW ops, NEW r, OperationsOK(ops, r) PROVE \A o \in ops : o.id \in Nat \ {0}
BY DEF OperationsOK, Numbered

\* A step that leaves route, cursors and events alone, and adds at most operations of
\* the route's generation.
LEMMA QuietKeepsEvents ==
  ASSUME BridgeInv, BridgeInv', EventsInv, PageInv, ToldInv, Quiet,
         used'.grants = 0 => used.grants = 0,
         \A o \in ledger.operations : \E q \in ledger'.operations : Undisturbed(q, o),
         \A q \in ledger'.operations :
           \/ \E o \in ledger.operations : Undisturbed(q, o)
           \/ NewIn(q, ledger.operations, Route.gen)
  PROVE  EventsInv' /\ PageInv' /\ ToldInv'
<1>. DEFINE ops == ledger.operations
            T == ledger'.operations
            n == ledger.cursors[Route.gen]
<1>1. /\ ledger'.route = ledger.route /\ ledger'.cursors = ledger.cursors
      /\ events' = events /\ used'.limit = used.limit
      /\ poll' = poll \/ ~OnPage'
  BY DEF Quiet, OnPage
<1>2. \A q \in T : q.id \in Nat \ {0}
  BY IdsAreNotZero DEF BridgeInv
<1>3. /\ Route.gen \in 1..used.limit.generations
      /\ Route.gen \in Nat /\ used.limit.generations \in Nat
      /\ \A g \in 1..used.limit.generations :
           ledger.cursors[g] \in Nat /\ ledger.cursors[g] <= Len(events)
      /\ \A i \in 1..Len(events) :
           events[i].operation # 0 => \E o \in ops : o.id = events[i].operation
      /\ Len(events) \in Nat
  BY DEF EventsInv
<1>4. OnPage => poll.at \in Nat /\ poll.at <= Len(events)
  BY <1>3 DEF PageInv
<1>5. ASSUME NEW q \in T, NEW k \in Nat, k <= Len(events), NEW o \in ops, Undisturbed(q, o),
             SeenUpTo(o, events, k)
      PROVE  SeenUpTo(q, events, k)
  BY <1>5 DEF SeenUpTo, Seen, Undisturbed, SameInput
<1>6. ASSUME NEW q \in T, NEW k \in Nat, k <= Len(events), NewIn(q, ops, Route.gen)
      PROVE  SeenUpTo(q, events, k)
  BY <1>2, <1>3, <1>6 DEF SeenUpTo, NewIn
<1>7. ASSUME NEW q \in T
      PROVE  /\ q.gen \in 1..Route.gen /\ OperationOK(q)
             /\ SeenUpTo(q, events, ledger.cursors[q.gen])
             /\ OnPage /\ OfRoute /\ poll.gen = q.gen => SeenUpTo(q, events, poll.at)
  <2>1. CASE NewIn(q, ops, Route.gen)
    <3>1. q.gen = Route.gen /\ OperationOK(q)
      BY <2>1 DEF NewIn, OperationOK
    <3>. QED  BY <1>3, <1>4, <1>6, <2>1, <3>1
  <2>2. ASSUME NEW o \in ops, Undisturbed(q, o)
        PROVE  /\ q.gen \in 1..Route.gen /\ OperationOK(q)
               /\ SeenUpTo(q, events, ledger.cursors[q.gen])
               /\ OnPage /\ OfRoute /\ poll.gen = q.gen => SeenUpTo(q, events, poll.at)
    <3>1. /\ o.gen \in 1..Route.gen /\ OperationOK(o)
          /\ SeenUpTo(o, events, ledger.cursors[o.gen])
          /\ OnPage /\ OfRoute /\ poll.gen = o.gen => SeenUpTo(o, events, poll.at)
      BY DEF EventsInv
    <3>2. q.gen = o.gen /\ OperationOK(q)
      BY <2>2, <3>1 DEF Undisturbed, SameInput, OperationOK
    <3>3. o.gen \in 1..used.limit.generations
      BY <1>3, <3>1
    <3>. QED  BY <1>3, <1>4, <1>5, <2>2, <3>1, <3>2, <3>3
  <2>. QED  BY <2>1, <2>2
<1>8. \A i \in 1..Len(events) :
        events[i].operation # 0 => \E q \in T : q.id = events[i].operation
  BY <1>3 DEF Undisturbed, SameInput
<1>9. \A c \in ledger'.challenges : c.gen \in 1..Route.gen
  BY DEF Quiet, EventsInv
<1>10. EventsInv'
  <2>1. Route' = Route /\ (OnPage' => OnPage /\ poll' = poll /\ (OfRoute' <=> OfRoute))
    BY <1>1 DEF Route, OnPage, OfRoute
  <2>2. \A q \in T :
          /\ SeenUpTo(q, events', ledger'.cursors[q.gen])
          /\ OnPage' /\ OfRoute' /\ poll'.gen = q.gen => SeenUpTo(q, events', poll'.at)
    BY <1>1, <1>7, <2>1
  <2>. QED  BY <1>1, <1>7, <1>8, <1>9, <2>1, <2>2 DEF EventsInv
<1>11. PageInv'
  BY <1>1 DEF PageInv, OnPage, OfRoute, Route
<1>12. ToldInv'
  <2>1. CASE Route.notices /\ used.grants = 0
    <3>1. Told(ops, events, n, Route.gen, ledger.outbox)
      BY <2>1 DEF ToldInv
    <3>2. /\ StillQueued(ledger.outbox, ledger'.outbox)
          /\ \A o \in ops : \E q \in T : SameInput(q, o)
          /\ \A q \in T : \/ \E o \in ops : SameInput(q, o)
                          \/ \A o \in ops : o.id # q.id
          /\ \A q \in T : q.id # 0
      BY <1>2 DEF Quiet, Undisturbed, NewIn
    <3>3. /\ n \in Nat
          /\ \A i \in 1..n : events[i].operation # 0 => \E o \in ops : o.id = events[i].operation
      BY <1>3
    <3>. HIDE DEF ops, T, n
    <3>4. Told(T, events, n, Route.gen, ledger'.outbox)
      BY <3>1, <3>2, <3>3, StaysTold
    <3>. QED  BY <1>1, <3>4 DEF ToldInv, Route, ops, T, n
  <2>. QED  BY <1>1, <2>1 DEF ToldInv, Route, Quiet
<1>. QED  BY <1>10, <1>11, <1>12

\* A new generation of the route has no operation yet.
LEMMA RerouteKeepsEvents ==
  ASSUME BridgeInv, EventsInv, PageInv, ApproveRoute \/ DisableRoute \/ ReplaceCredentials
  PROVE  EventsInv' /\ PageInv' /\ ToldInv'
<1>1. /\ ledger'.operations = ledger.operations
      /\ MayReroute /\ events' = events /\ used' = used /\ poll' = poll
      /\ \A c \in ledger'.challenges : \E x \in ledger.challenges : c.gen = x.gen
  BY RerouteFrame
<1>2. PICK baseline \in {0, Len(events)} :
        ledger'.cursors = [ledger.cursors EXCEPT ![Route.gen + 1] = baseline]
  BY RerouteFrame
<1>3. ledger'.route.gen = Route.gen + 1 /\ DOMAIN ledger'.route = RouteFields
  <2>1. PICK x, y, z : ledger'.route = [gen |-> Route.gen + 1, enabled |-> x, input |-> y,
                                        notices |-> z]
    BY RerouteFrame
  <2>. QED  BY <2>1 DEF RouteFields
<1>. DEFINE G == used.limit.generations
            g == Route.gen
<1>4. /\ g \in Nat /\ G \in Nat /\ 1 <= g /\ g < G
      /\ ledger.cursors \in [1..G -> Nat]
      /\ \A h \in 1..G : ledger.cursors[h] <= Len(events)
      /\ Len(events) \in Nat /\ baseline \in Nat /\ baseline <= Len(events)
      /\ poll.pc # "observe"
  BY <1>1 DEF EventsInv, MayReroute, Unlocked
<1>5. /\ ledger'.cursors \in [1..G -> Nat]
      /\ \A h \in 1..G : ledger'.cursors[h] <= Len(events)
      /\ \A h \in 1..g : ledger'.cursors[h] = ledger.cursors[h]
  BY <1>2, <1>4
<1>6. Route' = ledger'.route
  BY DEF Route
<1>7. \A o \in ledger.operations : o.gen \in 1..g
  BY DEF EventsInv
<1>8. EventsInv'
  <2>1. \A o \in ledger.operations :
          /\ o.gen \in 1..Route'.gen /\ OperationOK(o)
          /\ SeenUpTo(o, events, ledger'.cursors[o.gen])
          /\ OnPage /\ OfRoute /\ poll.gen = o.gen => SeenUpTo(o, events, poll.at)
    BY <1>3, <1>4, <1>5, <1>6, <1>7 DEF EventsInv
  <2>2. \A c \in ledger'.challenges : c.gen \in 1..Route'.gen
    BY <1>1, <1>3, <1>4, <1>6 DEF EventsInv
  <2>3. /\ DOMAIN Route' = RouteFields /\ Route'.gen \in Nat /\ 1 <= Route'.gen
        /\ Route'.gen <= G
    BY <1>3, <1>4, <1>6
  <2>4. /\ events \in Seq(SessionEvents)
        /\ \A i \in 1..Len(events) :
             events[i].operation # 0 => \E o \in ledger.operations : o.id = events[i].operation
    BY DEF EventsInv
  <2>5. (OnPage' <=> OnPage) /\ (OfRoute' <=> OfRoute)
    BY <1>1 DEF OnPage, OfRoute
  <2>. QED  BY <1>1, <1>4, <1>5, <2>1, <2>2, <2>3, <2>4, <2>5 DEF EventsInv
<1>9. PageInv'
  BY <1>1, <1>3, <1>4, <1>6 DEF PageInv, OnPage, OfRoute
<1>10. ToldInv'
  BY <1>1, <1>3, <1>4, <1>6, <1>7 DEF ToldInv, Told
<1>. QED  BY <1>8, <1>9, <1>10

\* The session reports of operations it was given.
LEMMA ReportKeepsEvents ==
  ASSUME BridgeInv, EventsInv, PageInv, ToldInv, SessionReports
  PROVE  EventsInv' /\ PageInv' /\ ToldInv'
<1>1. ledger' = ledger /\ used'.grants = used.grants /\ used' = used /\ poll' = poll
  BY DEF SessionReports
<1>2. PICK id \in {0} \cup {o.id : o \in {o \in ledger.operations : o.submits > 0}},
           inv \in 1..2, stage \in {"started", "completed", "unknown"} :
        events' = Append(events, [operation |-> id, inv |-> inv, stage |-> stage])
  BY DEF SessionReports
<1>. DEFINE e == [operation |-> id, inv |-> inv, stage |-> stage]
<1>3. e \in SessionEvents /\ (e.operation # 0 => \E o \in ledger.operations : o.id = e.operation)
  <2>1. \A o \in ledger.operations : o.id \in Nat
    BY IdsAreNotZero DEF BridgeInv
  <2>. QED  BY <2>1 DEF SessionEvents
<1>. HIDE DEF e
<1>4. /\ events \in Seq(SessionEvents) /\ events' = Append(events, e)
      /\ Len(events) \in Nat
  BY <1>2 DEF EventsInv, e
<1>5. /\ events' \in Seq(SessionEvents) /\ Len(events') = Len(events) + 1
      /\ \A i \in 1..Len(events) : events'[i] = events[i]
      /\ events'[Len(events) + 1] = e
  BY <1>3, <1>4
<1>6. \A k \in Nat : k <= Len(events) =>
        /\ \A o : SeenUpTo(o, events, k) => SeenUpTo(o, events', k)
        /\ \A ops, gen, outbox :
             Told(ops, events, k, gen, outbox) => Told(ops, events', k, gen, outbox)
  <2>. SUFFICES ASSUME NEW k \in Nat, k <= Len(events)
                PROVE  /\ \A o : SeenUpTo(o, events, k) => SeenUpTo(o, events', k)
                       /\ \A ops, gen, outbox : Told(ops, events, k, gen, outbox)
                                                => Told(ops, events', k, gen, outbox)
    OBVIOUS
  <2>1. \A i \in 1..k : events'[i] = events[i]
    BY <1>4, <1>5
  <2>2. \A o : SeenUpTo(o, events, k) => SeenUpTo(o, events', k)
    BY <2>1 DEF SeenUpTo
  <2>3. \A ops, gen, outbox :
          Told(ops, events, k, gen, outbox) => Told(ops, events', k, gen, outbox)
    BY <2>1 DEF Told
  <2>. QED  BY <2>2, <2>3
<1>7. \A i \in 1..Len(events') :
        events'[i].operation # 0 => \E o \in ledger.operations : o.id = events'[i].operation
  <2>. SUFFICES ASSUME NEW i \in 1..Len(events'), events'[i].operation # 0
                PROVE  \E o \in ledger.operations : o.id = events'[i].operation
    OBVIOUS
  <2>1. i \in 1..Len(events) \/ i = Len(events) + 1
    BY <1>4, <1>5
  <2>. QED  BY <1>3, <1>5, <2>1 DEF EventsInv
<1>8. /\ Route.gen \in 1..used.limit.generations
      /\ \A g \in 1..used.limit.generations :
           ledger.cursors[g] \in Nat /\ ledger.cursors[g] <= Len(events)
      /\ \A o \in ledger.operations : o.gen \in 1..used.limit.generations
  BY <1>4 DEF EventsInv
<1>9. OnPage => poll.at \in Nat /\ poll.at <= Len(events)
  BY <1>4 DEF PageInv
<1>10. EventsInv'
  <2>1. \A g \in 1..used.limit.generations : ledger.cursors[g] <= Len(events')
    BY <1>4, <1>5, <1>8
  <2>2. \A o \in ledger.operations :
          /\ SeenUpTo(o, events', ledger.cursors[o.gen])
          /\ OnPage /\ OfRoute /\ poll.gen = o.gen => SeenUpTo(o, events', poll.at)
    BY <1>6, <1>8, <1>9 DEF EventsInv
  <2>. QED  BY <1>1, <1>5, <1>7, <2>1, <2>2 DEF EventsInv, OnPage, OfRoute, Route
<1>11. PageInv'
  <2>1. OnPage => poll.upto \in Nat /\ poll.upto <= Len(events')
    BY <1>4, <1>5 DEF PageInv
  <2>. QED  BY <1>1, <2>1 DEF PageInv, OnPage, OfRoute, Route
<1>12. ToldInv'
  BY <1>1, <1>6, <1>8 DEF ToldInv, Route
<1>. QED  BY <1>10, <1>11, <1>12

\* A step of the thread that changes nothing but the page it has.
LEMMA PageTaken ==
  ASSUME EventsInv, ToldInv, ledger' = ledger, events' = events, used' = used,
         PageInv',
         OnPage' /\ OfRoute' => \/ poll'.at = poll.at /\ poll'.gen = poll.gen /\ OnPage /\ OfRoute
                                \/ poll'.at = ledger.cursors[poll'.gen]
  PROVE  EventsInv' /\ PageInv' /\ ToldInv'
<1>1. Route' = Route
  BY DEF Route
<1>2. \A o \in ledger.operations :
        OnPage' /\ OfRoute' /\ poll'.gen = o.gen => SeenUpTo(o, events, poll'.at)
  BY DEF EventsInv
<1>3. EventsInv'
  BY <1>1, <1>2 DEF EventsInv
<1>. QED  BY <1>1, <1>3 DEF ToldInv

\* The thread reads a page, and looks at its authority again.
LEMMA ReadKeepsEvents ==
  ASSUME BridgeInv, GrantsInv, EventsInv, PageInv, ToldInv, ReadPage \/ ReadGrantPage \/ BeginPage
  PROVE  EventsInv' /\ PageInv' /\ ToldInv'
<1>1. /\ ledger' = ledger /\ events' = events /\ used' = used /\ Route' = Route
      /\ DOMAIN poll = PollFields
  BY DEF ReadPage, ReadGrantPage, BeginPage, AtPoll, Route, BridgeInv, PollOK
<1>2. /\ Route.gen \in Nat /\ 1 <= Route.gen /\ Len(events) \in Nat
      /\ ledger.cursors[Route.gen] \in Nat
  BY DEF EventsInv
<1>3. CASE ReadPage
  <2>1. PICK upto \in (ledger.cursors[Route.gen] + 1)..Len(events) :
          poll' = [Idle EXCEPT !.pc = "page", !.gen = Route.gen, !.notices = Route.notices,
                               !.at = ledger.cursors[Route.gen], !.upto = upto]
    BY <1>3 DEF ReadPage
  <2>2. /\ poll'.pc = "page" /\ poll'.gen = Route.gen /\ poll'.notices = Route.notices
        /\ poll'.at = ledger.cursors[Route.gen] /\ poll'.upto = upto
    BY <2>1 DEF Idle
  <2>3. upto \in Nat /\ ledger.cursors[Route.gen] <= upto /\ upto <= Len(events)
    BY <1>2
  <2>4. PageInv'
    BY <1>1, <1>2, <2>2, <2>3 DEF PageInv
  <2>. QED  BY <1>1, <2>2, <2>4, PageTaken
<1>4. CASE ReadGrantPage
  <2>1. PICK upto \in (ledger.binding.seen + 1)..Len(events) :
          poll' = [Idle EXCEPT !.pc = "page", !.binding = ledger.binding,
                               !.at = ledger.binding.seen, !.upto = upto]
    BY <1>4 DEF ReadGrantPage
  <2>2. /\ poll'.pc = "page" /\ poll'.binding = ledger.binding
        /\ poll'.at = ledger.binding.seen /\ poll'.upto = upto
    BY <2>1 DEF Idle
  <2>3. ledger.binding.seen \in Nat
    BY DEF GrantsInv
  <2>4. upto \in Nat /\ ledger.binding.seen <= upto /\ upto <= Len(events)
    BY <1>2, <2>3
  <2>5. ~OfRoute'
    <3>1. ledger.binding.id # 0
      BY <1>4 DEF ReadGrantPage, Bound
    <3>2. NoBinding.id = 0
      BY DEF NoBinding
    <3>. QED  BY <2>2, <3>1, <3>2 DEF OfRoute
  <2>6. PageInv'
    BY <1>1, <2>2, <2>3, <2>4, <2>5 DEF PageInv
  <2>. QED  BY <1>1, <2>5, <2>6, PageTaken
<1>5. CASE BeginPage
  <2>1. CASE poll' = Idle
    <3>1. ~OnPage'
      BY <2>1 DEF OnPage, Idle
    <3>. QED  BY <1>1, <3>1, PageTaken DEF PageInv
  <2>2. CASE poll' = [poll EXCEPT !.pc = "observe"] /\ (OfRoute => Route.gen = poll.gen)
    <3>1. /\ poll'.pc = "observe" /\ poll'.gen = poll.gen /\ poll'.notices = poll.notices
          /\ poll'.at = poll.at /\ poll'.upto = poll.upto /\ poll'.binding = poll.binding
      BY <1>1, <2>2 DEF PollFields
    <3>2. OnPage /\ (OfRoute' <=> OfRoute)
      BY <1>5, <3>1 DEF BeginPage, AtPoll, OnPage, OfRoute
    <3>3. PageInv'
      BY <1>1, <2>2, <3>1, <3>2 DEF PageInv
    <3>. QED  BY <1>1, <3>1, <3>2, <3>3, PageTaken
  <2>. QED  BY <1>5, <2>1, <2>2 DEF BeginPage, Polled
<1>. QED  BY <1>3, <1>4, <1>5

\* An event of the page is seen by its operation.
LEMMA ObserveKeepsEvents ==
  ASSUME BridgeInv, EventsInv, PageInv, ToldInv, ObserveEvent
  PROVE  EventsInv' /\ PageInv' /\ ToldInv'
<1>. DEFINE n == poll.at + 1
            e == events[n]
            U(o) == IF o.id = e.operation THEN Observed(o, e) ELSE o
            ops == ledger.operations
            T == {U(o) : o \in ops}
<1>1. /\ DOMAIN ledger = LedgerFields /\ OperationsOK(ops, rpc)
      /\ DOMAIN poll = PollFields
  BY DEF BridgeInv, PollOK
<1>2. /\ poll.pc = "observe" /\ poll.at < poll.upto /\ poll' = [poll EXCEPT !.at = @ + 1]
      /\ events' = events /\ used' = used
      /\ ledger' = [ledger EXCEPT !.operations = T]
  BY DEF ObserveEvent, AtPoll
<1>3. /\ poll'.pc = "observe" /\ poll'.at = n /\ poll'.upto = poll.upto
      /\ poll'.gen = poll.gen /\ poll'.notices = poll.notices /\ poll'.binding = poll.binding
  BY <1>1, <1>2 DEF PollFields
<1>4. /\ poll.at \in Nat /\ poll.upto \in Nat /\ poll.upto <= Len(events)
      /\ Len(events) \in Nat /\ n \in 1..Len(events) /\ n <= poll.upto
      /\ events \in Seq(SessionEvents) /\ e \in SessionEvents
  <2>1. poll.at \in Nat /\ poll.upto \in Nat /\ poll.upto <= Len(events)
    BY <1>2 DEF PageInv, OnPage
  <2>2. events \in Seq(SessionEvents) /\ Len(events) \in Nat
    BY DEF EventsInv
  <2>3. n \in 1..Len(events) /\ n <= poll.upto
    BY <1>2, <2>1, <2>2
  <2>. QED  BY <2>1, <2>2, <2>3
<1>5. ASSUME NEW o \in ops
      PROVE  /\ SameInput(U(o), o) /\ OperationOK(U(o))
             /\ o.id = e.operation => Seen(U(o), e)
             /\ \A x \in SessionEvents : Seen(o, x) => Seen(U(o), x)
  <2>1. DOMAIN o = OperationFields /\ OperationOK(o)
    BY <1>1 DEF OperationsOK, EventsInv
  <2>. HIDE DEF e
  <2>. QED  BY <1>4, <2>1, ObservedSees DEF SameInput
<1>6. /\ ledger'.operations = T /\ ledger'.route = ledger.route
      /\ ledger'.cursors = ledger.cursors /\ ledger'.challenges = ledger.challenges
      /\ ledger'.outbox = ledger.outbox
  BY <1>1, <1>2 DEF LedgerFields
<1>7. \A o \in ops, k \in Nat :
        k <= Len(events) /\ SeenUpTo(o, events, k) => SeenUpTo(U(o), events, k)
  <2>. SUFFICES ASSUME NEW o \in ops, NEW k \in Nat, k <= Len(events), SeenUpTo(o, events, k),
                       NEW i \in 1..k, events[i].operation = U(o).id
                PROVE  Seen(U(o), events[i])
    BY DEF SeenUpTo
  <2>1. events[i] \in SessionEvents
    BY <1>4
  <2>2. U(o).id = o.id
    BY <1>5 DEF SameInput
  <2>. HIDE DEF U
  <2>3. Seen(o, events[i])
    BY <2>2 DEF SeenUpTo
  <2>. QED  BY <1>5, <2>1, <2>3
<1>8. \A o \in ops : SeenUpTo(o, events, poll.at) => SeenUpTo(U(o), events, n)
  <2>. SUFFICES ASSUME NEW o \in ops, SeenUpTo(o, events, poll.at), NEW i \in 1..n,
                       events[i].operation = U(o).id
                PROVE  Seen(U(o), events[i])
    BY DEF SeenUpTo
  <2>1. U(o).id = o.id
    BY <1>5 DEF SameInput
  <2>2. CASE i = n
    BY <1>5, <2>1, <2>2
  <2>3. CASE i # n
    <3>1. i \in 1..poll.at
      BY <1>4, <2>3
    <3>2. SeenUpTo(U(o), events, poll.at)
      BY <1>4, <1>7
    <3>. QED  BY <3>1, <3>2 DEF SeenUpTo
  <2>. QED  BY <2>2, <2>3
<1>. HIDE DEF U, e, n
<1>9. \A q \in T :
        /\ q.gen \in 1..Route.gen /\ OperationOK(q)
        /\ SeenUpTo(q, events, ledger.cursors[q.gen])
        /\ OfRoute /\ poll.gen = q.gen => SeenUpTo(q, events, n)
  <2>. SUFFICES ASSUME NEW o \in ops
                PROVE  /\ U(o).gen \in 1..Route.gen /\ OperationOK(U(o))
                       /\ SeenUpTo(U(o), events, ledger.cursors[U(o).gen])
                       /\ OfRoute /\ poll.gen = U(o).gen => SeenUpTo(U(o), events, n)
    OBVIOUS
  <2>1. U(o).gen = o.gen /\ OperationOK(U(o))
    BY <1>5 DEF SameInput
  <2>2. /\ o.gen \in 1..Route.gen /\ SeenUpTo(o, events, ledger.cursors[o.gen])
        /\ OfRoute /\ poll.gen = o.gen => SeenUpTo(o, events, poll.at)
    BY <1>2 DEF EventsInv, OnPage
  <2>3. ledger.cursors[o.gen] \in Nat /\ ledger.cursors[o.gen] <= Len(events)
    BY <2>2 DEF EventsInv
  <2>. QED  BY <1>7, <1>8, <2>1, <2>2, <2>3
<1>10. Route' = Route /\ (OfRoute' <=> OfRoute) /\ OnPage /\ OnPage'
  BY <1>2, <1>3, <1>6 DEF Route, OfRoute, OnPage
<1>11. \A o \in ops : U(o).id = o.id
  BY <1>5 DEF SameInput
<1>12. EventsInv'
  <2>1. \A i \in 1..Len(events) :
          events[i].operation # 0 => \E q \in T : q.id = events[i].operation
    BY <1>11 DEF EventsInv
  <2>. HIDE DEF T
  <2>. QED  BY <1>2, <1>3, <1>6, <1>9, <1>10, <2>1 DEF EventsInv
<1>13. PageInv'
  <2>1. n \in Nat /\ n <= poll.upto
    BY <1>4 DEF n
  <2>. QED  BY <1>2, <1>3, <1>10, <2>1 DEF PageInv
<1>14. ToldInv'
  <2>1. CASE Route.notices /\ used.grants = 0
    <3>. DEFINE m == ledger.cursors[Route.gen]
    <3>1. Told(ops, events, m, Route.gen, ledger.outbox)
      BY <2>1 DEF ToldInv
    <3>2. /\ \A o \in ops : \E q \in T : SameInput(q, o)
          /\ \A q \in T : \E o \in ops : SameInput(q, o)
          /\ StillQueued(ledger.outbox, ledger.outbox)
      BY <1>5 DEF StillQueued
    <3>3. \A q \in T : q.id # 0
      BY <1>1, <1>11, IdsAreNotZero
    <3>4. /\ m \in Nat
          /\ \A i \in 1..m : events[i].operation # 0 => \E o \in ops : o.id = events[i].operation
      BY DEF EventsInv
    <3>. HIDE DEF ops, T, m
    <3>5. Told(T, events, m, Route.gen, ledger.outbox)
      BY <3>1, <3>2, <3>3, <3>4, StaysTold
    <3>. QED  BY <1>2, <1>6, <1>10, <3>5 DEF ToldInv, m
  <2>. QED  BY <1>2, <1>10, <2>1 DEF ToldInv
<1>. QED  BY <1>12, <1>13, <1>14

\* The cursor moves to the end of what was seen, with what there is to tell.
LEMMA CommitKeepsEvents ==
  ASSUME BridgeInv, GrantsInv, EventsInv, PageInv, ToldInv, CommitPage
  PROVE  EventsInv' /\ PageInv' /\ ToldInv'
<1>1. /\ DOMAIN ledger = LedgerFields /\ poll.pc = "observe" /\ poll.at = poll.upto
      /\ poll' = Idle /\ events' = events /\ used' = used
  BY DEF BridgeInv, CommitPage, AtPoll
<1>2. ~OnPage' /\ OnPage
  BY <1>1 DEF OnPage, Idle
<1>3. PageInv'
  BY <1>2 DEF PageInv
<1>4. CASE ledger' = [ledger EXCEPT !.binding.seen = poll.upto]
  <2>1. /\ ledger'.operations = ledger.operations /\ ledger'.route = ledger.route
        /\ ledger'.cursors = ledger.cursors /\ ledger'.challenges = ledger.challenges
        /\ ledger'.outbox = ledger.outbox
    BY <1>1, <1>4 DEF LedgerFields
  <2>2. Route' = Route
    BY <2>1 DEF Route
  <2>3. EventsInv'
    BY <1>1, <1>2, <2>1, <2>2 DEF EventsInv
  <2>4. ToldInv'
    BY <1>1, <2>1, <2>2 DEF ToldInv
  <2>. QED  BY <1>3, <2>3, <2>4
<1>5. CASE ~(ledger' = [ledger EXCEPT !.binding.seen = poll.upto])
  <2>. DEFINE g == poll.gen
              from == ledger.cursors[g]
              tell == IF poll.notices /\ ~Bound THEN Outcomes(from, poll.upto) ELSE {}
              ops == ledger.operations
              more == {d \in tell : \A x \in ledger.outbox : x.id # d.id}
  <2>1. OfRoute /\ ledger' = PageStored(ledger, from, poll.upto, tell)
    BY <1>5 DEF CommitPage
  <2>2. /\ ledger'.operations = ledger.operations /\ ledger'.route = ledger.route
        /\ ledger'.cursors = [ledger.cursors EXCEPT ![g] = poll.upto]
        /\ ledger'.challenges = ledger.challenges
        /\ ledger'.outbox = ledger.outbox \cup more
    BY <1>1, <2>1 DEF LedgerFields, PageStored
  <2>3. /\ poll.upto \in Nat /\ poll.upto <= Len(events)
        /\ g = Route.gen /\ poll.notices = Route.notices
    BY <1>1, <1>2, <2>1 DEF PageInv
  <2>4. /\ g \in 1..used.limit.generations
        /\ ledger.cursors \in [1..used.limit.generations -> Nat]
    BY <2>3 DEF EventsInv
  <2>5. /\ ledger'.cursors \in [1..used.limit.generations -> Nat]
        /\ ledger'.cursors[g] = poll.upto
        /\ \A h \in 1..used.limit.generations : h # g => ledger'.cursors[h] = ledger.cursors[h]
    BY <2>2, <2>3, <2>4
  <2>6. Route' = Route
    BY <2>2 DEF Route
  <2>7. EventsInv'
    <3>1. \A o \in ops : /\ o.gen \in 1..used.limit.generations
                         /\ o.gen = g => SeenUpTo(o, events, poll.upto)
                         /\ SeenUpTo(o, events, ledger.cursors[o.gen])
      BY <1>1, <1>2, <2>1 DEF EventsInv
    <3>2. \A o \in ops : SeenUpTo(o, events, ledger'.cursors[o.gen])
      BY <2>5, <3>1
    <3>3. \A h \in 1..used.limit.generations : ledger'.cursors[h] <= Len(events)
      BY <2>3, <2>5 DEF EventsInv
    <3>. QED  BY <1>1, <1>2, <2>2, <2>5, <2>6, <3>2, <3>3 DEF EventsInv
  <2>8. ToldInv'
    <3>. SUFFICES ASSUME Route.notices, used.grants = 0
                  PROVE  Told(ops, events, poll.upto, g, ledger.outbox \cup more)
      BY <1>1, <2>2, <2>3, <2>5, <2>6 DEF ToldInv
    <3>1. Told(ops, events, from, g, ledger.outbox) /\ from \in Nat
      BY <2>3, <2>4 DEF ToldInv
    <3>2. ~Bound
      BY DEF GrantsInv, Bound
    <3>3. ASSUME NEW i \in (from + 1)..poll.upto, events[i].stage # "started"
          PROVE  \E d \in ledger.outbox \cup more : d.id = OutcomeId(events[i], ops, g)
      <4>1. Outcome(events[i]) \in tell
        BY <2>3, <3>2, <3>3 DEF Outcomes
      <4>2. Outcome(events[i]).id = OutcomeId(events[i], ops, g)
        BY <2>3, OutcomeHasId
      <4>. HIDE DEF tell
      <4>. QED  BY <4>1, <4>2
    <3>. SUFFICES ASSUME NEW o \in ops, NEW i \in 1..poll.upto, o.gen = g,
                         events[i].operation = o.id, events[i].stage # "started"
                  PROVE  \E d \in ledger.outbox \cup more : d.id = OutcomeId(events[i], ops, g)
      BY DEF Told
    <3>4. CASE i \in 1..from
      BY <3>1, <3>4 DEF Told
    <3>5. CASE i \in (from + 1)..poll.upto
      BY <3>3, <3>5
    <3>. QED  BY <2>3, <3>1, <3>4, <3>5
  <2>. QED  BY <1>3, <2>7, <2>8
<1>. QED  BY <1>4, <1>5

\* Every step keeps what the cursors have passed seen and told.
LEMMA EventsStep ==
  ASSUME BridgeInv, BridgeInv', GrantsInv, EventsInv, PageInv, ToldInv,
         [BridgeNext]_bridgeVars
  PROVE  EventsInv' /\ PageInv' /\ ToldInv'
<1>1. DOMAIN used = UsedFields /\ DOMAIN chat = ChatFields /\ used.grants \in Nat
  BY DEF GrantsInv
<1>2. ASSUME Quiet, used'.grants = 0 => used.grants = 0,
             Carried(ledger.operations, ledger'.operations)
      PROVE  EventsInv' /\ PageInv' /\ ToldInv'
  BY <1>2, QuietKeepsEvents DEF Carried
<1>3. CASE Requests
  <2>1. CASE (\E m : ConfirmInput(m)) \/ (\E r \in chat.replies : ShortReply(r))
    <3>1. /\ Quiet /\ SameGrant
          /\ \/ ledger'.operations = ledger.operations
             \/ \E op : /\ ledger'.operations = ledger.operations \cup {op}
                        /\ NewIn(op, ledger.operations, Route.gen)
      BY <2>1, ConfirmFrame
    <3>2. \A o : Undisturbed(o, o)
      BY DEF Undisturbed, SameInput
    <3>3. used'.grants = 0 => used.grants = 0
      BY <3>1 DEF SameGrant
    <3>4. CASE ledger'.operations = ledger.operations
      BY <1>2, <3>1, <3>3, <3>4, CarriedAsTheyAre
    <3>5. ASSUME NEW op, ledger'.operations = ledger.operations \cup {op},
                 NewIn(op, ledger.operations, Route.gen)
          PROVE  EventsInv' /\ PageInv' /\ ToldInv'
      <4>1. /\ \A o \in ledger.operations : \E q \in ledger'.operations : Undisturbed(q, o)
            /\ \A q \in ledger'.operations :
                 \/ \E o \in ledger.operations : Undisturbed(q, o)
                 \/ NewIn(q, ledger.operations, Route.gen)
        BY <3>2, <3>5
      <4>. QED  BY <3>1, <3>3, <4>1, QuietKeepsEvents
    <3>. QED  BY <3>1, <3>4, <3>5
  <2>2. CASE \/ \E m : PrepareInput(m) \/ ReceiveReply(m)
             \/ CancelInput \/ SubmitOperation
    BY <1>2, <2>2, RequestFrame DEF SameGrant
  <2>. QED  BY <1>3, <2>1, <2>2 DEF Requests
<1>4. CASE StopHost \/ StartHost \/ ChallengeExpires \/ RestartBridge
  BY <1>1, <1>2, <1>4, ProcessFrame DEF SameGrant
<1>5. CASE BindSession \/ DetachSession
  <2>1. /\ Quiet /\ ledger'.operations = ledger.operations
        /\ used' = used \/ used'.grants = used.grants + 1
    BY <1>1, <1>5, GrantFrame
  <2>2. used'.grants = 0 => used.grants = 0
    BY <1>1, <2>1
  <2>. QED  BY <1>2, <2>1, <2>2, CarriedAsTheyAre
<1>6. CASE \/ ReserveNext \/ SendDelivery \/ FinishSend \/ ReadWake \/ JournalWake
           \/ StartJudgement \/ FinishJudgement
  BY <1>1, <1>2, <1>6, SendFrame, CarriedAsTheyAre
<1>7. CASE UNCHANGED bridgeVars
  <2>1. ledger' = ledger /\ events' = events /\ used' = used /\ poll' = poll
    BY <1>7 DEF bridgeVars
  <2>2. OutboxOK(ledger.outbox)
    BY DEF BridgeInv
  <2>3. Quiet
    BY <2>1, <2>2, OutboxKept DEF Quiet
  <2>. QED  BY <1>2, <2>1, <2>3, CarriedAsTheyAre
<1>. QED
  BY <1>3, <1>4, <1>5, <1>6, <1>7, RerouteKeepsEvents, ReportKeepsEvents, ReadKeepsEvents,
     ObserveKeepsEvents, CommitKeepsEvents DEF BridgeNext, Administration, Polling

-----------------------------------------------------------------------------
(* One-word replies.                                                        *)

\* An operation confirmed by a one-word reply is of the challenge journaled for the
\* reply, whose preview was in the chat.
RepliesInv ==
  /\ \A j, k \in ledger.journal : (j.key[1] = "short" /\ j.key = k.key) => j = k
  /\ \A o \in ledger.operations :
       o.short # 0 =>
         /\ \E j \in ledger.journal : j.key = <<"short", o.short>> /\ j.value = o.challenge
         /\ \E r \in chat.replies : r.message = o.short /\ o.challenge \in r.seen

\* A step that leaves what is known of replies alone.
LEMMA RepliesKept ==
  ASSUME RepliesInv, SameReplies,
         \A q \in ledger'.operations : \E o \in ledger.operations : SameInput(q, o)
  PROVE  RepliesInv'
<1>1. \A j, k \in ledger'.journal : (j.key[1] = "short" /\ j.key = k.key) => j = k
  BY DEF RepliesInv, SameReplies
<1>2. ASSUME NEW q \in ledger'.operations, q.short # 0
      PROVE  /\ \E j \in ledger'.journal : j.key = <<"short", q.short>> /\ j.value = q.challenge
             /\ \E r \in chat'.replies : r.message = q.short /\ q.challenge \in r.seen
  <2>1. PICK o \in ledger.operations : SameInput(q, o)
    OBVIOUS
  <2>2. q.short = o.short /\ q.challenge = o.challenge
    BY <2>1 DEF SameInput
  <2>3. /\ \E j \in ledger.journal : j.key = <<"short", q.short>> /\ j.value = q.challenge
        /\ \E r \in chat.replies : r.message = q.short /\ q.challenge \in r.seen
    BY <1>2, <2>2 DEF RepliesInv
  <2>. QED  BY <2>3 DEF SameReplies
<1>. QED  BY <1>1, <1>2 DEF RepliesInv

\* select_confirmation: the reply is remembered with the challenge it is about.
RemembersChoice(r, l, key) ==
  /\ ledger.journal \subseteq l.journal
  /\ \A j, k \in l.journal : (j.key[1] = "short" /\ j.key = k.key) => j = k
  /\ \A c \in Choice(r) : Open(c) =>
       /\ c.id \in r.seen
       /\ \E j \in l.journal : j.key = key /\ j.value = c.id

LEMMA RememberedOK ==
  ASSUME BridgeInv, RepliesInv, NEW r
  PROVE  RemembersChoice(r, Remembered(r), <<"short", r.message>>)
<1>. DEFINE l == Remembered(r)
            key == <<"short", r.message>>
<1>1. DOMAIN ledger = LedgerFields
  BY DEF BridgeInv
<1>2. CASE Journaled(key)
  <2>1. l = ledger
    BY <1>2 DEF Remembered
  <2>2. Entry(key) \in ledger.journal /\ Entry(key).key = key
    BY <1>2 DEF Journaled, Entry
  <2>3. ASSUME NEW c \in Choice(r), Open(c)
        PROVE  c.id \in r.seen /\ \E j \in l.journal : j.key = key /\ j.value = c.id
    <3>1. c.id = Entry(key).value /\ (c.state = "confirmed" \/ c \in Meant(r))
      BY <1>2, <2>3 DEF Choice
    <3>2. c \in Meant(r)
      BY <2>3, <3>1 DEF Open
    <3>3. c.id \in r.seen
      BY <3>2 DEF Meant
    <3>. HIDE DEF key, l
    <3>. QED  BY <2>1, <2>2, <3>1, <3>3
  <2>4. RemembersChoice(r, l, key)
    <3>. HIDE DEF key, l
    <3>. QED  BY <2>1, <2>3 DEF RepliesInv, RemembersChoice
  <2>. QED  BY <2>4
<1>3. CASE ~Journaled(key)
  <2>. DEFINE value == IF Choice(r) = {} THEN 0 ELSE (CHOOSE c \in Choice(r) : TRUE).id
              j0 == [key |-> key, value |-> value]
  <2>1. l = Journal(ledger, key, value)
    BY <1>3 DEF Remembered
  <2>. HIDE DEF value
  <2>2. l.journal = ledger.journal \cup {j0}
    BY <1>1, <2>1 DEF Journal, LedgerFields
  <2>3. \A j \in ledger.journal : j.key # key
    BY <1>3 DEF Journaled
  <2>4. ASSUME NEW c \in Choice(r) PROVE c.id \in r.seen /\ value = c.id
    <3>1. Choice(r) = Meant(r) /\ Cardinality(Meant(r)) = 1
      BY <1>3 DEF Choice
    <3>2. IsFiniteSet(Meant(r))
      <4>1. IsFiniteSet(ledger.challenges)
        BY NumberedIsFinite DEF BridgeInv, ChallengesOK
      <4>2. Meant(r) \subseteq ledger.challenges
        BY DEF Meant
      <4>. QED  BY <4>1, <4>2, FS_Subset
    <3>3. PICK x : Meant(r) = {x}
      BY <3>1, <3>2, FS_Singleton
    <3>4. value = c.id
      BY <3>1, <3>3 DEF value
    <3>. QED  BY <3>1, <3>4 DEF Meant
  <2>5. j0.key = key /\ j0.value = value
    OBVIOUS
  <2>. HIDE DEF j0, key, l
  <2>6. \A j, k \in l.journal : (j.key[1] = "short" /\ j.key = k.key) => j = k
    BY <2>2, <2>3, <2>5 DEF RepliesInv
  <2>7. RemembersChoice(r, l, key)
    BY <2>2, <2>4, <2>5, <2>6 DEF RemembersChoice
  <2>. QED  BY <2>7 DEF l, key
<1>. QED  BY <1>2, <1>3

\* A confirmation, after the reply it came with was remembered in l.
LEMMA ConfirmKeepsReplies ==
  ASSUME BridgeInv, RepliesInv, rpc = 0, NEW l, DOMAIN l = LedgerFields,
         l.operations = ledger.operations, l.challenges = ledger.challenges,
         ledger.journal \subseteq l.journal,
         \A j, k \in l.journal : (j.key[1] = "short" /\ j.key = k.key) => j = k,
         NEW c \in ledger.challenges, NEW m, NEW short,
         ledger' = Confirmed(l, c, m, short), chat' = chat,
         Open(c) /\ short # 0 =>
           /\ \E j \in l.journal : j.key = <<"short", short>> /\ j.value = c.id
           /\ \E r \in chat.replies : r.message = short /\ c.id \in r.seen
  PROVE  RepliesInv'
<1>. DEFINE k == Confirmed(l, c, m, short)
<1>1. /\ OperationsOK(l.operations, 0) /\ ChallengesOK(l.challenges)
  BY DEF BridgeInv
<1>2. /\ l.journal \subseteq k.journal
      /\ \A j \in k.journal : j \in l.journal \/ j.key[1] = "confirm"
      /\ \/ k.operations = l.operations
         \/ \E op : /\ k.operations = l.operations \cup {op}
                    /\ op.challenge = c.id /\ op.short = short /\ Open(c)
  BY <1>1, ConfirmedFrame
<1>3. ledger' = k
  OBVIOUS
<1>. HIDE DEF k
<1>4. \A i, j \in k.journal : (i.key[1] = "short" /\ i.key = j.key) => i = j
  BY <1>2
<1>5. \A o \in l.operations : o.short # 0 =>
         /\ \E j \in k.journal : j.key = <<"short", o.short>> /\ j.value = o.challenge
         /\ \E r \in chat.replies : r.message = o.short /\ o.challenge \in r.seen
  BY <1>2 DEF RepliesInv
<1>6. \A o \in k.operations : o.short # 0 =>
         /\ \E j \in k.journal : j.key = <<"short", o.short>> /\ j.value = o.challenge
         /\ \E r \in chat.replies : r.message = o.short /\ o.challenge \in r.seen
  <2>1. CASE k.operations = l.operations
    BY <1>5, <2>1
  <2>2. ASSUME NEW op, k.operations = l.operations \cup {op},
               op.challenge = c.id, op.short = short, Open(c)
        PROVE  \A o \in k.operations : o.short # 0 =>
                 /\ \E j \in k.journal : j.key = <<"short", o.short>> /\ j.value = o.challenge
                 /\ \E r \in chat.replies : r.message = o.short /\ o.challenge \in r.seen
    BY <1>2, <1>5, <2>2
  <2>. QED  BY <1>2, <2>1, <2>2
<1>. QED  BY <1>3, <1>4, <1>6 DEF RepliesInv

\* Every step keeps what is known of replies.
LEMMA RepliesStep ==
  ASSUME BridgeInv, GrantsInv, RepliesInv, [BridgeNext]_bridgeVars PROVE RepliesInv'
<1>1. /\ DOMAIN used = UsedFields /\ DOMAIN chat = ChatFields
      /\ DOMAIN ledger = LedgerFields
  BY DEF GrantsInv, BridgeInv
<1>2. ASSUME SameReplies, Carried(ledger.operations, ledger'.operations) PROVE RepliesInv'
  BY <1>2, RepliesKept DEF Carried, Undisturbed
<1>3. ASSUME NEW m, ConfirmInput(m) PROVE RepliesInv'
  <2>1. PICK c \in ledger.challenges : ConfirmIn(ledger, c, m, 0)
    BY <1>3 DEF ConfirmInput
  <2>2. ledger' = Confirmed(ledger, c, m, 0) /\ chat' = chat /\ rpc = 0
    BY <1>3, <2>1 DEF ConfirmIn, ConfirmInput, Admitted, Unlocked
  <2>3. \A j, k \in ledger.journal : (j.key[1] = "short" /\ j.key = k.key) => j = k
    BY DEF RepliesInv
  <2>. QED  BY <1>1, <2>2, <2>3, ConfirmKeepsReplies
<1>4. ASSUME NEW r \in chat.replies, ShortReply(r) PROVE RepliesInv'
  <2>. DEFINE l == Remembered(r)
              key == <<"short", r.message>>
  <2>1. /\ DOMAIN l = LedgerFields /\ l.operations = ledger.operations
        /\ l.challenges = ledger.challenges
    BY <1>1 DEF Remembered, Journal, LedgerFields
  <2>2. /\ ledger.journal \subseteq l.journal
        /\ \A j, k \in l.journal : (j.key[1] = "short" /\ j.key = k.key) => j = k
        /\ \A c \in Choice(r) : Open(c) =>
             /\ c.id \in r.seen
             /\ \E j \in l.journal : j.key = key /\ j.value = c.id
    <3>1. RemembersChoice(r, l, key)
      BY RememberedOK
    <3>. HIDE DEF l, key
    <3>. QED  BY <3>1 DEF RemembersChoice
  <2>3. chat' = chat /\ rpc = 0
    BY <1>4 DEF ShortReply, Admitted, Unlocked
  <2>4. \/ ledger' = l
        \/ \E c \in Choice(r) : ledger' = Confirmed(l, c, r.message, r.message)
    BY <1>4 DEF ShortReply, ConfirmIn
  <2>5. Choice(r) \subseteq ledger.challenges
    BY DEF Choice, Meant
  <2>. HIDE DEF l
  <2>6. CASE ledger' = l
    BY <2>1, <2>2, <2>3, <2>6 DEF RepliesInv
  <2>7. ASSUME NEW c \in Choice(r), ledger' = Confirmed(l, c, r.message, r.message)
        PROVE  RepliesInv'
    BY <2>1, <2>2, <2>3, <2>5, <2>7, ConfirmKeepsReplies
  <2>. QED  BY <2>4, <2>6, <2>7
<1>5. CASE \/ \E m : PrepareInput(m) \/ ReceiveReply(m)
           \/ CancelInput \/ SubmitOperation
  BY <1>2, <1>5, RequestFrame
<1>6. CASE StopHost \/ StartHost \/ ChallengeExpires \/ RestartBridge
  BY <1>1, <1>2, <1>6, ProcessFrame
<1>7. CASE ApproveRoute \/ DisableRoute \/ ReplaceCredentials
  BY <1>2, <1>7, RerouteFrame, CarriedAsTheyAre
<1>8. CASE BindSession \/ DetachSession
  BY <1>1, <1>2, <1>8, GrantFrame, CarriedAsTheyAre
<1>9. CASE SessionReports \/ ReadPage \/ ReadGrantPage \/ BeginPage \/ ObserveEvent
  BY <1>9, PageFrame, RepliesKept
<1>10. CASE CommitPage
  <2>1. DOMAIN ledger.binding = BindingFields
    BY DEF GrantsInv
  <2>. QED  BY <1>2, <1>10, <2>1, CommitFrame, CarriedAsTheyAre
<1>11. CASE \/ ReserveNext \/ SendDelivery \/ FinishSend \/ ReadWake \/ JournalWake
            \/ StartJudgement \/ FinishJudgement
  BY <1>1, <1>2, <1>11, SendFrame, CarriedAsTheyAre
<1>12. CASE UNCHANGED bridgeVars
  BY <1>12 DEF bridgeVars, RepliesInv
<1>. QED
  BY <1>3, <1>4, <1>5, <1>6, <1>7, <1>8, <1>9, <1>10, <1>11, <1>12
     DEF BridgeNext, Requests, Administration, Polling

-----------------------------------------------------------------------------
(* The theorems.                                                            *)

LedgerInv == GrantsInv /\ EventsInv /\ PageInv /\ ToldInv /\ RepliesInv

\* A bridge that has just been paired: nothing has been read, granted or asked.
LEMMA LedgerInitInv == BridgeInit => LedgerInv
<1>. SUFFICES ASSUME BridgeInit PROVE LedgerInv
  OBVIOUS
<1>1. PICK b \in BridgeBounds :
        /\ used = [limit |-> b, hosts |-> 1, restarts |-> 0, grants |-> 0, sends |-> 0,
                   expiries |-> 0]
        /\ ledger = [route |-> [gen |-> 1, enabled |-> TRUE, input |-> TRUE, notices |-> TRUE],
                     account |-> TRUE, binding |-> NoBinding, challenges |-> {},
                     journal |-> {}, operations |-> {}, outbox |-> {},
                     cursors |-> [g \in 1..b.generations |-> 0], decisions |-> {}]
  BY DEF BridgeInit
<1>2. b.generations \in Nat \ {0}
  BY BridgeAssumption
<1>3. poll = Idle /\ poll.pc = "idle" /\ events = <<>> /\ chat = [replies |-> {}, shown |-> {}]
  BY DEF BridgeInit, Idle
<1>4. /\ ledger.binding = NoBinding /\ ledger.binding.id = 0 /\ ledger.binding.cursor = 0
      /\ ledger.binding.seen = 0 /\ ledger.binding.start = 0
      /\ DOMAIN ledger.binding = BindingFields
  BY <1>1 DEF NoBinding, BindingFields
<1>5. /\ ledger.decisions = {} /\ ledger.operations = {} /\ ledger.challenges = {}
      /\ ledger.journal = {}
      /\ Route.gen = 1 /\ DOMAIN Route = RouteFields
      /\ ledger.cursors = [g \in 1..b.generations |-> 0]
  BY <1>1 DEF Route, RouteFields
<1>6. /\ used.grants = 0 /\ used.limit = b /\ DOMAIN used = UsedFields
      /\ DOMAIN chat = ChatFields
  BY <1>1, <1>3 DEF UsedFields, ChatFields
<1>7. GrantsInv
  BY <1>3, <1>4, <1>5, <1>6 DEF GrantsInv, GrantPage
<1>8. EventsInv
  <2>1. events \in Seq(SessionEvents) /\ Len(events) = 0
    BY <1>3
  <2>. QED  BY <1>2, <1>5, <1>6, <2>1 DEF EventsInv
<1>9. PageInv
  BY <1>3 DEF PageInv, OnPage
<1>10. ToldInv
  BY <1>5 DEF ToldInv, Told
<1>11. RepliesInv
  BY <1>5 DEF RepliesInv
<1>. QED  BY <1>7, <1>8, <1>9, <1>10, <1>11 DEF LedgerInv

\* The invariant: the decisions of the grant cover its events up to its cursor, and a page
\* that is still to be judged follows on them; an operation has seen every event of its own
\* before the cursor of its route and the page at hand; what ended before the cursor is
\* told; and an operation of a one-word reply is the one journaled for it.
THEOREM LedgerInvariant == BridgeSpec => [](BridgeInv /\ LedgerInv)
<1>1. BridgeInv /\ LedgerInv /\ [BridgeNext]_bridgeVars => (BridgeInv /\ LedgerInv)'
  BY BridgeStepInv, GrantsStep, EventsStep, RepliesStep DEF LedgerInv
<1>. QED  BY BridgeInitInv, LedgerInitInv, <1>1, PTL DEF BridgeSpec

\* An operation is reported as ended one way only if a single invocation of it has been
\* seen, for any log, any pages and whatever a restart makes a cursor go over again.
THEOREM EndsAreOfOneInvocation == BridgeSpec => []EndedMeansOneInvocation
<1>1. LedgerInv => EndedMeansOneInvocation
  <2>. SUFFICES ASSUME EventsInv, NEW o \in ledger.operations, o.state = "completed",
                       NEW i \in 1..ledger.cursors[o.gen], NEW j \in 1..ledger.cursors[o.gen],
                       events[i].operation = o.id, events[j].operation = o.id
                PROVE  events[i].inv = events[j].inv
    BY DEF LedgerInv, EndedMeansOneInvocation
  <2>1. ~o.ambiguous /\ SeenUpTo(o, events, ledger.cursors[o.gen])
    BY DEF EventsInv, OperationOK
  <2>. QED  BY <2>1 DEF SeenUpTo, Seen
<1>. QED  BY <1>1, LedgerInvariant, PTL

\* A one-word reply confirms at most one input, one whose preview was in the chat when the
\* reply was written, for any number of deliveries of the reply to any hosts.
THEOREM RepliesConfirmOne == BridgeSpec => []ReplyConfirmsOne
<1>1. RepliesInv /\ SubmittedOnce => ReplyConfirmsOne
  <2>. SUFFICES ASSUME RepliesInv, SubmittedOnce,
                       NEW o \in ledger.operations, o.short # 0
                PROVE  /\ \A p \in ledger.operations : p.short = o.short => p = o
                       /\ \E r \in chat.replies : r.message = o.short /\ o.challenge \in r.seen
    BY DEF ReplyConfirmsOne
  <2>1. ASSUME NEW p \in ledger.operations, p.short = o.short PROVE p = o
    <3>1. PICK j \in ledger.journal : j.key = <<"short", o.short>> /\ j.value = o.challenge
      BY DEF RepliesInv
    <3>2. PICK k \in ledger.journal : k.key = <<"short", p.short>> /\ k.value = p.challenge
      BY <2>1 DEF RepliesInv
    <3>3. j = k
      BY <2>1, <3>1, <3>2 DEF RepliesInv
    <3>. QED  BY <3>1, <3>2, <3>3 DEF SubmittedOnce
  <2>. QED  BY <2>1 DEF RepliesInv
<1>. QED  BY <1>1, LedgerInvariant, InputsAreSubmittedOnce, PTL DEF LedgerInv

\* The end of an input the chat gave is queued for the chat before the cursor passes it,
\* whatever changes of the route, observations and restarts come between.
THEOREM EndsAreTold == BridgeSpec => []OutcomesAreQueued
BY LedgerInvariant, ToldIsQueued, PTL DEF LedgerInv

\* The decisions of a grant cover the events since it was given without a gap, without an
\* event judged twice, and with one at most that waits for its judgement, for any pages,
\* also when the grant was replaced while its page was read.
THEOREM GrantsAreCovered == BridgeSpec => []DecisionsCoverEvents
<1>1. GrantsInv => DecisionsCoverEvents
  <2>. DEFINE b == ledger.binding
              own == {d \in ledger.decisions : d.binding = b.id}
              waiting == {d \in own : d.state = "pending"}
  <2>. SUFFICES ASSUME GrantsInv, b.id # 0
                PROVE  /\ \A n \in (b.start + 1)..b.cursor :
                            Cardinality({d \in own : d.from < n /\ n <= d.upto}) = 1
                       /\ Cardinality(waiting) <= 1
    BY DEF DecisionsCoverEvents
  <2>1. Covered(ledger.decisions, b)
    BY DEF GrantsInv
  <2>2. ASSUME NEW n \in (b.start + 1)..b.cursor
        PROVE  Cardinality({d \in own : d.from < n /\ n <= d.upto}) = 1
    <3>1. PICK d \in own : d.from < n /\ n <= d.upto
      BY <2>1 DEF Covered
    <3>2. \A e \in own : e.from < n /\ n <= e.upto => e = d
      BY <2>1, <3>1 DEF Covered
    <3>3. {e \in own : e.from < n /\ n <= e.upto} = {d}
      BY <3>1, <3>2
    <3>. QED  BY <3>3, FS_Singleton
  <2>3. Cardinality(waiting) <= 1
    <3>1. CASE waiting = {}
      BY <3>1, FS_EmptySet
    <3>2. ASSUME NEW d \in waiting PROVE Cardinality(waiting) <= 1
      <4>1. \A e \in waiting : e = d
        BY <2>1 DEF Covered
      <4>2. waiting = {d}
        BY <4>1
      <4>. HIDE DEF waiting
      <4>3. Cardinality({d}) = 1
        BY FS_Singleton
      <4>. QED  BY <4>2, <4>3
    <3>. QED  BY <3>1, <3>2
  <2>. QED  BY <2>2, <2>3
<1>. QED  BY <1>1, LedgerInvariant, PTL DEF LedgerInv
=============================================================================
