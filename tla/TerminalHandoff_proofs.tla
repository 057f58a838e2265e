------------------------- MODULE TerminalHandoff_proofs -------------------------
(***************************************************************************)
(* Proofs about TerminalHandoff, for any number of helpers, handoffs,       *)
(* prompts and deaths: one conversation has one writer, and a reservation   *)
(* always has an owner that will give it up.                                *)
(***************************************************************************)
EXTENDS TerminalHandoff, SequenceTheorems, TLAPS

SessionFields == {"status", "sid", "pending", "force", "doubt", "reservation", "helper"}
HelperFields == {"gen", "alive", "up", "prep", "busy", "tasks", "known", "acks", "inbox",
                 "outbox"}
ReservationFields == {"id", "gen", "claimed"}
OpFields == {"kind", "pc", "id", "gen", "round", "force", "was", "err"}
SpentFields == {"helpers", "handoffs", "prompts", "deaths"}

Commands == [kind : {"prepare", "cancel", "stop", "prompt"}, id : Nat, force : BOOLEAN,
             finalize : BOOLEAN]
Lines == [kind : {"meta", "ready", "processing", "error"}]
         \cup [kind : {"tasks"}, ready : BOOLEAN]
         \cup [kind : {"ack"}, id : Nat, ready : BOOLEAN]

HelperOK(h) ==
  /\ DOMAIN h = HelperFields
  /\ h.gen \in Nat /\ h.up \in BOOLEAN /\ h.busy \in BOOLEAN /\ h.tasks \in BOOLEAN
  /\ h.gen = 0 => ~h.up
  /\ h.acks \subseteq [id : Nat, ready : BOOLEAN]
  /\ h.inbox \in Seq(Commands) /\ h.outbox \in Seq(Lines)

SessionOK(s) ==
  /\ DOMAIN s = SessionFields /\ s.force \in BOOLEAN /\ s.sid \in BOOLEAN
  /\ DOMAIN s.reservation = ReservationFields /\ s.reservation.id \in Nat
  /\ s.reservation.id = 0 <=> s.reservation = NoReservation
  /\ HelperOK(s.helper)

-----------------------------------------------------------------------------
(* What the helper still has to read, and what it has said.                *)

\* No turn runs and none will begin.
IdleHelper(h) ==
  h.up => ~h.busy /\ \A i \in DOMAIN h.inbox : h.inbox[i].kind # "prompt"

\* The helper has answered the preparation id with "ready".
Said(h, id) ==
  \/ \E a \in h.acks : a.id = id /\ a.ready
  \/ \E i \in DOMAIN h.outbox :
       h.outbox[i].kind = "ack" /\ h.outbox[i].id = id /\ h.outbox[i].ready

Asked(h, id) == \E i \in DOMAIN h.inbox : h.inbox[i].kind = "prepare" /\ h.inbox[i].id = id

\* No prompt is behind the preparation id, and once it is answered the helper is idle.
Fenced(h, id) ==
  /\ \A i, j \in DOMAIN h.inbox :
       (i < j /\ h.inbox[i].kind = "prepare" /\ h.inbox[i].id = id)
         => h.inbox[j].kind # "prompt"
  /\ Said(h, id) => IdleHelper(h)

\* g is the helper h after something that starts no turn; it may have been asked id.
Calm(g, h, id) ==
  /\ IdleHelper(h) => IdleHelper(g)
  /\ \A k : Fenced(h, k) => Fenced(g, k)
  /\ \A k : Said(g, k) \/ Asked(g, k) => Said(h, k) \/ Asked(h, k) \/ k = id

-----------------------------------------------------------------------------
(* The invariant.                                                           *)

Closing == {"shutdown", "waitExit", "conclude"}
Late == Closing \cup {"settle", "cleanup", "rollback"}

HandoffTypeOK ==
  /\ SessionOK(ses)
  /\ DOMAIN op = OpFields /\ op.id \in 0..spent.handoffs /\ op.err \in BOOLEAN
  /\ op.round \in 1..2 /\ op.force \in BOOLEAN
  /\ \A w \in workers : w.id \in 1..spent.handoffs
  /\ DOMAIN spent = SpentFields /\ spent.helpers \in Nat /\ spent.handoffs \in Nat

\* A waiting handoff that no operation has taken up.
Waiting ==
  /\ ses.pending /\ ses.status \in {"handoff_pending", "handoff_finalizing"}
  /\ ses.reservation.claimed => \E w \in workers : w.id = ses.reservation.id

\* A reservation is of the operation, or waits; its helper is there until the operation
\* shuts it down, which the record says.
OwnedInv ==
  /\ op = NoOp <=> op.id = 0
  /\ op = NoOp <=> op.pc = "none"
  /\ op.was \notin {"handoff", "handoff_closing"}
  /\ ses.reservation.id # 0 =>
       /\ ses.reservation.id <= spent.handoffs
       /\ IF op = NoOp THEN Waiting ELSE op.id = ses.reservation.id
       /\ ses.helper.gen \in {0, ses.reservation.gen}
       /\ op.pc \notin Late => ses.helper.gen = ses.reservation.gen
       /\ op.pc \in Closing => op.gen = ses.reservation.gen
  /\ ses.status = "handoff_closing" => op.pc \in Closing /\ ses.reservation.id # 0
  /\ ses.status = "handoff" =>
       /\ ses.helper.gen = 0
       /\ op = NoOp \/ (op.pc = "settle" /\ ~op.err)

\* No prompt follows a preparation that still counts.
FenceInv ==
  /\ \A id : id \in {op.id, ses.reservation.id} \ {0} => Fenced(ses.helper, id)
  /\ \A id : Said(ses.helper, id) \/ Asked(ses.helper, id) => id <= spent.handoffs

\* The terminal of a managed handoff is open in its second round, beside an idle helper.
TerminalInv ==
  /\ terminals \in 0..1
  /\ terminals = 1 => (Opened /\ op.pc # "rollback") \/ ses.status = "handoff"
  /\ Opened /\ op.pc # "rollback" => terminals = 1
  /\ Opened => IdleHelper(ses.helper)
  /\ op.pc = "open" => Managed /\ op.round = 1 /\ IdleHelper(ses.helper)
  /\ op.pc = "check" /\ ~op.err => IdleHelper(ses.helper)
  /\ op.pc \in Closing \cup {"complete"} /\ Managed => Opened
  /\ op.pc \in {"cleanup", "rollback"} => Opened
  /\ op.pc = "settle" => ~Managed

HandoffInv == HandoffTypeOK /\ OwnedInv /\ FenceInv /\ TerminalInv

-----------------------------------------------------------------------------
(* The helper's pipe.                                                       *)

\* Something that leaves the pipe and the turn alone.
LEMMA CalmSame ==
  ASSUME NEW h, NEW g, NEW id, g.up => h.up, g.busy = h.busy, g.inbox = h.inbox,
         g.outbox = h.outbox, g.acks \subseteq h.acks
  PROVE  Calm(g, h, id)
<1>1. IdleHelper(h) => IdleHelper(g)
  BY DEF IdleHelper
<1>2. \A k : Said(g, k) => Said(h, k)
  BY DEF Said
<1>3. \A k : Asked(g, k) => Asked(h, k)
  BY DEF Asked
<1>4. \A k : Fenced(h, k) => Fenced(g, k)
  BY <1>1, <1>2 DEF Fenced
<1>. QED  BY <1>1, <1>2, <1>3, <1>4 DEF Calm

LEMMA CalmTwice ==
  ASSUME NEW f, NEW g, NEW h, NEW id, Calm(g, h, id), Calm(f, g, id)
  PROVE  Calm(f, h, id)
BY DEF Calm

\* A helper that is gone is calm.
LEMMA CalmGone ==
  ASSUME NEW h, NEW id PROVE Calm(NoHandle, h, id) /\ HelperOK(NoHandle)
<1>1. IdleHelper(NoHandle)
  BY DEF IdleHelper, NoHandle
<1>2. \A k : ~Said(NoHandle, k) /\ ~Asked(NoHandle, k)
  BY DEF Said, Asked, NoHandle
<1>3. \A k : Fenced(NoHandle, k)
  BY <1>1 DEF Fenced, NoHandle
<1>4. HelperOK(NoHandle)
  <2>1. <<>> \in Seq(Commands) /\ <<>> \in Seq(Lines)
    OBVIOUS
  <2>. QED  BY <2>1 DEF HelperOK, NoHandle, HelperFields
<1>. QED  BY <1>1, <1>2, <1>3, <1>4 DEF Calm

\* A command that is not a prompt.
LEMMA CalmCommand ==
  ASSUME NEW h, HelperOK(h), NEW c \in Commands, c.kind # "prompt",
         NEW id, c.kind = "prepare" => c.id = id,
         NEW g, g = [h EXCEPT !.inbox = Append(@, c)]
  PROVE  HelperOK(g) /\ Calm(g, h, id)
<1>. DEFINE q == h.inbox
<1>1. /\ g.inbox = Append(q, c) /\ g.gen = h.gen /\ g.up = h.up /\ g.busy = h.busy
      /\ g.tasks = h.tasks /\ g.acks = h.acks /\ g.outbox = h.outbox
      /\ DOMAIN g = HelperFields
  BY DEF HelperOK, HelperFields
<1>2. q \in Seq(Commands)
  BY DEF HelperOK
<1>3. /\ Append(q, c) \in Seq(Commands) /\ DOMAIN Append(q, c) = 1..(Len(q) + 1)
      /\ DOMAIN q = 1..Len(q) /\ Len(q) \in Nat
      /\ \A i \in 1..Len(q) : Append(q, c)[i] = q[i]
      /\ Append(q, c)[Len(q) + 1] = c
  BY <1>2
<1>4. HelperOK(g)
  BY <1>1, <1>3 DEF HelperOK
<1>. HIDE DEF q
<1>5. \A i \in DOMAIN g.inbox : \/ i \in DOMAIN q /\ g.inbox[i] = q[i]
                                \/ i = Len(q) + 1 /\ g.inbox[i] = c
  BY <1>1, <1>3
<1>6. IdleHelper(h) => IdleHelper(g)
  BY <1>1, <1>5 DEF IdleHelper, q
<1>7. \A k : Said(g, k) => Said(h, k)
  BY <1>1 DEF Said
<1>8. ASSUME NEW k, Asked(g, k) PROVE Asked(h, k) \/ k = id
  BY <1>5, <1>8 DEF Asked, q
<1>9. ASSUME NEW k, Fenced(h, k) PROVE Fenced(g, k)
  <2>1. ASSUME NEW i \in DOMAIN g.inbox, NEW j \in DOMAIN g.inbox, i < j,
               g.inbox[i].kind = "prepare", g.inbox[i].id = k
        PROVE  g.inbox[j].kind # "prompt"
    <3>1. CASE j = Len(q) + 1
      BY <1>1, <1>3, <3>1
    <3>2. CASE j \in DOMAIN q
      <4>1. i \in DOMAIN q
        BY <1>3, <1>1, <2>1, <3>2
      <4>. QED  BY <1>1, <1>3, <1>9, <2>1, <3>2, <4>1 DEF Fenced, q
    <3>. QED  BY <1>5, <3>1, <3>2
  <2>. QED  BY <2>1, <1>6, <1>7, <1>9 DEF Fenced
<1>. QED  BY <1>4, <1>6, <1>7, <1>8, <1>9 DEF Calm

-----------------------------------------------------------------------------
(* The pieces of the operations.                                            *)

\* What the session's record says, apart from the helper's pipe.
SameRecord(t, s) ==
  /\ t.status = s.status /\ t.pending = s.pending /\ t.reservation = s.reservation
  /\ t.helper.gen = s.helper.gen

\* A session that has a new helper record.
LEMMA HelperChanged ==
  ASSUME NEW s, SessionOK(s), NEW g, HelperOK(g), g.gen = s.helper.gen,
         NEW t, t = [s EXCEPT !.helper = g]
  PROVE  SessionOK(t) /\ SameRecord(t, s) /\ t.helper = g
BY DEF SessionOK, SessionFields, SameRecord

LEMMA SendOK ==
  ASSUME NEW s, SessionOK(s), NEW c \in Commands, c.kind # "prompt",
         NEW id, c.kind = "prepare" => c.id = id
  PROVE  LET t == Send(s, c)
         IN  SessionOK(t) /\ SameRecord(t, s) /\ Calm(t.helper, s.helper, id)
<1>1. CASE s.helper.up
  <2>. DEFINE g == [s.helper EXCEPT !.inbox = Append(@, c)]
  <2>1. HelperOK(s.helper)
    BY DEF SessionOK
  <2>2. HelperOK(g) /\ Calm(g, s.helper, id)
    BY <2>1, CalmCommand
  <2>3. g.gen = s.helper.gen
    BY <2>1 DEF HelperOK, HelperFields
  <2>4. Send(s, c) = [s EXCEPT !.helper = g]
    BY <1>1 DEF Send
  <2>. HIDE DEF g
  <2>. QED  BY <2>2, <2>3, <2>4, HelperChanged
<1>2. CASE ~s.helper.up
  BY <1>2, CalmSame DEF Send, SameRecord
<1>. QED  BY <1>1, <1>2

LEMMA FrozenOK ==
  ASSUME NEW s, SessionOK(s), NEW id
  PROVE  LET t == Frozen(s)
         IN  SessionOK(t) /\ SameRecord(t, s) /\ Calm(t.helper, s.helper, id)
<1>. DEFINE g == [s.helper EXCEPT !.alive = FALSE]
<1>1. /\ HelperOK(g) /\ g.gen = s.helper.gen /\ g.up = s.helper.up /\ g.busy = s.helper.busy
      /\ g.inbox = s.helper.inbox /\ g.outbox = s.helper.outbox /\ g.acks = s.helper.acks
  BY DEF SessionOK, HelperOK, HelperFields
<1>2. Frozen(s) = [s EXCEPT !.helper = g]
  BY DEF Frozen
<1>. HIDE DEF g
<1>3. Calm(g, s.helper, id)
  BY <1>1, CalmSame
<1>. QED  BY <1>1, <1>2, <1>3, HelperChanged

\* What is left of record s when the handle of generation gen is retired.
Retires(s, gen, id, t) ==
  /\ SessionOK(t) /\ Calm(t.helper, s.helper, id)
  /\ t.status = s.status /\ t.pending = s.pending
  /\ IF gen = 0 \/ s.helper.gen # gen THEN t = s
     ELSE /\ t.helper.gen = 0
          /\ t.reservation =
               IF s.status # "handoff_closing" /\ s.reservation.gen = s.helper.gen
               THEN NoReservation ELSE s.reservation

LEMMA RetireOK ==
  ASSUME NEW s, SessionOK(s), NEW gen, NEW id
  PROVE  Retires(s, gen, id, RetireHandle(s, gen))
<1>. DEFINE t == RetireHandle(s, gen)
<1>. HIDE DEF t
<1>1. CASE gen = 0 \/ s.helper.gen # gen
  <2>1. t = s
    BY <1>1 DEF RetireHandle, t
  <2>2. Calm(s.helper, s.helper, id)
    BY CalmSame
  <2>. QED  BY <1>1, <2>1, <2>2 DEF Retires, t
<1>2. CASE ~(gen = 0 \/ s.helper.gen # gen)
  <2>1. /\ DOMAIN t = SessionFields /\ t.helper = NoHandle
        /\ t.status = s.status /\ t.pending = s.pending /\ t.force = s.force /\ t.sid = s.sid
        /\ t.reservation = IF s.status # "handoff_closing" /\ s.reservation.gen = s.helper.gen
                           THEN NoReservation ELSE s.reservation
    BY <1>2 DEF RetireHandle, Invalidated, SessionOK, SessionFields, t
  <2>2. HelperOK(t.helper) /\ Calm(t.helper, s.helper, id) /\ t.helper.gen = 0
    BY <2>1, CalmGone DEF NoHandle
  <2>3. /\ DOMAIN t.reservation = ReservationFields /\ t.reservation.id \in Nat
        /\ t.reservation.id = 0 <=> t.reservation = NoReservation
    BY <2>1 DEF SessionOK, NoReservation, ReservationFields
  <2>4. SessionOK(t)
    BY <2>1, <2>2, <2>3 DEF SessionOK
  <2>. QED  BY <1>2, <2>1, <2>2, <2>4 DEF Retires, t
<1>. QED  BY <1>1, <1>2

\* The reservation of id goes, and nothing else of the record.
LEMMA CancelOK ==
  ASSUME NEW s, SessionOK(s), NEW id \in Nat, NEW k
  PROVE  LET t == CancelPreparation(s, id)
         IN  /\ SessionOK(t) /\ Calm(t.helper, s.helper, k)
             /\ t.status = s.status /\ t.pending = s.pending
             /\ t.helper.gen = s.helper.gen
             /\ t.reservation = IF s.reservation.id = id THEN NoReservation ELSE s.reservation
<1>. DEFINE t == CancelPreparation(s, id)
            freed == [s EXCEPT !.reservation = NoReservation]
            sent == Send(freed, CancelPrepareStop(id))
            g == [sent.helper EXCEPT !.alive = TRUE, !.acks = {a \in @ : a.id # id}]
<1>1. CASE s.reservation.id # id
  BY <1>1, CalmSame DEF CancelPreparation
<1>2. /\ SessionOK(freed) /\ freed.helper = s.helper /\ freed.status = s.status
      /\ freed.pending = s.pending /\ freed.reservation = NoReservation
  BY DEF SessionOK, SessionFields, NoReservation, ReservationFields
<1>3. CASE s.reservation.id = id /\ (s.helper.gen = 0 \/ s.helper.gen # s.reservation.gen)
  <2>1. t = freed
    BY <1>3 DEF CancelPreparation
  <2>2. Calm(s.helper, s.helper, k)
    BY CalmSame
  <2>. HIDE DEF t, freed
  <2>. QED  BY <1>2, <1>3, <2>1, <2>2 DEF t
<1>4. CASE s.reservation.id = id /\ ~(s.helper.gen = 0 \/ s.helper.gen # s.reservation.gen)
  <2>1. CancelPrepareStop(id) \in Commands /\ CancelPrepareStop(id).kind = "cancel"
    BY DEF CancelPrepareStop, Commands
  <2>2. t = [sent EXCEPT !.helper = g]
    BY <1>4 DEF CancelPreparation
  <2>. HIDE DEF freed, t
  <2>3. /\ SessionOK(sent) /\ SameRecord(sent, freed)
        /\ Calm(sent.helper, freed.helper, k)
    BY <1>2, <2>1, SendOK
  <2>. HIDE DEF sent
  <2>4. /\ HelperOK(g) /\ g.gen = sent.helper.gen
        /\ g.up = sent.helper.up /\ g.busy = sent.helper.busy
        /\ g.inbox = sent.helper.inbox /\ g.outbox = sent.helper.outbox
        /\ g.acks \subseteq sent.helper.acks
    BY <2>3 DEF SessionOK, HelperOK, HelperFields
  <2>. HIDE DEF g
  <2>5. Calm(g, sent.helper, k)
    BY <2>4, CalmSame
  <2>6. Calm(g, s.helper, k)
    BY <1>2, <2>3, <2>5, CalmTwice
  <2>7. SessionOK(t) /\ SameRecord(t, sent) /\ t.helper = g
    BY <2>2, <2>3, <2>4, HelperChanged
  <2>. QED  BY <1>2, <1>4, <2>3, <2>6, <2>7 DEF SameRecord, t
<1>. QED  BY <1>1, <1>3, <1>4

LEMMA FailOK ==
  ASSUME NEW s, SessionOK(s), NEW id \in Nat, NEW k
  PROVE  LET t == FailPending(s, id)
         IN  /\ SessionOK(t) /\ Calm(t.helper, s.helper, k)
             /\ t.helper.gen = s.helper.gen
             /\ t.status = s.status \/ t.status = "ready"
             /\ t.reservation = IF s.reservation.id = id THEN NoReservation ELSE s.reservation
             /\ s.reservation.id # id => t = s
<1>. DEFINE freed == CancelPreparation(s, id)
            t == FailPending(s, id)
<1>1. /\ SessionOK(freed) /\ Calm(freed.helper, s.helper, k) /\ freed.status = s.status
      /\ freed.helper.gen = s.helper.gen
      /\ freed.reservation = IF s.reservation.id = id THEN NoReservation ELSE s.reservation
  BY CancelOK
<1>2. s.reservation.id # id => freed = s
  BY DEF CancelPreparation
<1>3. s.reservation.id # id => t = freed
  BY DEF FailPending, Valid
<1>4. \/ t = freed
      \/ t = [freed EXCEPT
                !.status = IF @ \in {"handoff_pending", "handoff_finalizing"}
                           THEN "ready" ELSE @,
                !.pending = FALSE]
  BY DEF FailPending
<1>. HIDE DEF freed, t
<1>5. /\ DOMAIN t = SessionFields /\ t.helper = freed.helper
      /\ t.reservation = freed.reservation /\ t.force = freed.force /\ t.sid = freed.sid
      /\ t.status = freed.status \/ t.status = "ready"
  BY <1>1, <1>4 DEF SessionOK, SessionFields
<1>6. SessionOK(t)
  BY <1>1, <1>5 DEF SessionOK
<1>. QED  BY <1>1, <1>2, <1>3, <1>5, <1>6 DEF t

LEMMA PrepareOK ==
  ASSUME NEW s, SessionOK(s), NEW id \in Nat, NEW force \in BOOLEAN, NEW finalize \in BOOLEAN
  PROVE  LET t == RequestPrepare(s, id, force, finalize)
         IN  SessionOK(t) /\ SameRecord(t, s) /\ Calm(t.helper, s.helper, id)
<1>. DEFINE g == [s.helper EXCEPT !.acks = {a \in @ : a.id # id}]
            cleared == [s EXCEPT !.helper = g]
            c == PrepareStop(id, force, finalize)
<1>1. /\ HelperOK(g) /\ g.gen = s.helper.gen /\ g.up = s.helper.up /\ g.busy = s.helper.busy
      /\ g.inbox = s.helper.inbox /\ g.outbox = s.helper.outbox /\ g.acks \subseteq s.helper.acks
  BY DEF SessionOK, HelperOK, HelperFields
<1>2. c \in Commands /\ c.kind = "prepare" /\ c.id = id
  BY DEF PrepareStop, Commands
<1>3. RequestPrepare(s, id, force, finalize) = Send(cleared, c)
  BY DEF RequestPrepare
<1>. HIDE DEF g, c
<1>4. Calm(g, s.helper, id)
  BY <1>1, CalmSame
<1>5. SessionOK(cleared) /\ SameRecord(cleared, s) /\ cleared.helper = g
  BY <1>1, HelperChanged
<1>. HIDE DEF cleared
<1>6. /\ SessionOK(Send(cleared, c)) /\ SameRecord(Send(cleared, c), cleared)
      /\ Calm(Send(cleared, c).helper, cleared.helper, id)
  BY <1>2, <1>5, SendOK
<1>7. Calm(Send(cleared, c).helper, s.helper, id)
  BY <1>4, <1>5, <1>6, CalmTwice
<1>. QED  BY <1>3, <1>5, <1>6, <1>7 DEF SameRecord

-----------------------------------------------------------------------------
(* The helper and the output pump.                                          *)

\* The helper reads a command, or not, and says something: an answer "ready" is to a
\* preparation it has read, and leaves it idle if the preparation was fenced.
LEMMA CalmAnswer ==
  ASSUME NEW h, HelperOK(h), NEW g, NEW lines \in Seq(Lines), NEW id,
         IdleHelper(h) => IdleHelper(g),
         g.outbox = h.outbox \o lines, g.acks = h.acks,
         g.inbox = h.inbox \/ (h.inbox # <<>> /\ g.inbox = Tail(h.inbox)),
         \A i \in DOMAIN lines : (lines[i].kind = "ack" /\ lines[i].ready) =>
           /\ Asked(h, lines[i].id)
           /\ Fenced(h, lines[i].id) => IdleHelper(g)
  PROVE  Calm(g, h, id)
<1>1. /\ h.inbox \in Seq(Commands) /\ h.outbox \in Seq(Lines)
  BY DEF HelperOK
<1>2. PICK d \in {0, 1} :
        /\ \A i \in DOMAIN g.inbox : i + d \in DOMAIN h.inbox /\ g.inbox[i] = h.inbox[i + d]
        /\ \A i \in DOMAIN g.inbox : i \in Nat
  <2>1. CASE g.inbox = h.inbox
    <3>1. \A i \in DOMAIN g.inbox : i + 0 = i /\ i \in Nat
      BY <1>1, <2>1
    <3>. QED  BY <2>1, <3>1
  <2>2. CASE h.inbox # <<>> /\ g.inbox = Tail(h.inbox)
    <3>1. \A i \in DOMAIN g.inbox :
            i + 1 \in DOMAIN h.inbox /\ g.inbox[i] = h.inbox[i + 1] /\ i \in Nat
      BY <1>1, <2>2
    <3>. QED  BY <3>1
  <2>. QED  BY <2>1, <2>2
<1>3. \A k : Asked(g, k) => Asked(h, k)
  BY <1>2 DEF Asked
<1>4. \A i \in DOMAIN g.outbox : \/ i \in DOMAIN h.outbox /\ g.outbox[i] = h.outbox[i]
                                 \/ \E j \in DOMAIN lines : g.outbox[i] = lines[j]
  <2>1. \A i \in DOMAIN g.outbox :
          \/ i \in DOMAIN h.outbox /\ g.outbox[i] = h.outbox[i]
          \/ i - Len(h.outbox) \in DOMAIN lines /\ g.outbox[i] = lines[i - Len(h.outbox)]
    BY <1>1
  <2>. QED  BY <2>1
<1>5. ASSUME NEW k, Said(g, k)
      PROVE  \/ Said(h, k)
             \/ Asked(h, k) /\ (Fenced(h, k) => IdleHelper(g))
  BY <1>4, <1>5 DEF Said
<1>6. ASSUME NEW k, Fenced(h, k) PROVE Fenced(g, k)
  <2>1. ASSUME NEW i \in DOMAIN g.inbox, NEW j \in DOMAIN g.inbox, i < j,
               g.inbox[i].kind = "prepare", g.inbox[i].id = k
        PROVE  g.inbox[j].kind # "prompt"
    <3>1. i + d < j + d
      BY <1>2, <2>1
    <3>. QED  BY <1>2, <1>6, <2>1, <3>1 DEF Fenced
  <2>2. Said(g, k) => IdleHelper(g)
    BY <1>5, <1>6 DEF Fenced
  <2>. QED  BY <2>1, <2>2 DEF Fenced
<1>. QED  BY <1>3, <1>5, <1>6 DEF Calm

\* The pump takes a line; an acknowledgement goes where the operation looks for it.
LEMMA CalmLine ==
  ASSUME NEW h, HelperOK(h), h.outbox # <<>>, NEW A \in SUBSET [id : Nat, ready : BOOLEAN],
         \A a \in A : /\ Head(h.outbox).kind = "ack"
                      /\ a.id = Head(h.outbox).id /\ a.ready = Head(h.outbox).ready,
         NEW g, g = [h EXCEPT !.outbox = Tail(@), !.acks = @ \cup A], NEW id
  PROVE  HelperOK(g) /\ Calm(g, h, id)
<1>. DEFINE q == h.outbox
<1>1. /\ g.outbox = Tail(q) /\ g.acks = h.acks \cup A /\ g.inbox = h.inbox
      /\ g.up = h.up /\ g.busy = h.busy /\ g.gen = h.gen /\ g.tasks = h.tasks
      /\ DOMAIN g = HelperFields
  BY DEF HelperOK, HelperFields
<1>2. q \in Seq(Lines) /\ q # <<>>
  BY DEF HelperOK
<1>3. /\ Tail(q) \in Seq(Lines) /\ Head(q) = q[1] /\ 1 \in DOMAIN q
      /\ \A i \in DOMAIN Tail(q) : i + 1 \in DOMAIN q /\ Tail(q)[i] = q[i + 1]
  BY <1>2
<1>4. HelperOK(g)
  BY <1>1, <1>3 DEF HelperOK
<1>5. IdleHelper(h) => IdleHelper(g)
  BY <1>1 DEF IdleHelper
<1>6. \A k : Asked(g, k) => Asked(h, k)
  BY <1>1 DEF Asked
<1>. HIDE DEF q
<1>7. ASSUME NEW k, Said(g, k) PROVE Said(h, k)
  <2>1. CASE \E a \in h.acks : a.id = k /\ a.ready
    BY <2>1 DEF Said
  <2>2. CASE \E a \in A : a.id = k /\ a.ready
    BY <1>3, <2>2 DEF Said, q
  <2>3. CASE \E i \in DOMAIN Tail(q) :
               Tail(q)[i].kind = "ack" /\ Tail(q)[i].id = k /\ Tail(q)[i].ready
    BY <1>3, <2>3 DEF Said, q
  <2>4. \/ \E a \in h.acks \cup A : a.id = k /\ a.ready
        \/ \E i \in DOMAIN Tail(q) :
             Tail(q)[i].kind = "ack" /\ Tail(q)[i].id = k /\ Tail(q)[i].ready
    BY <1>1, <1>7 DEF Said
  <2>. QED  BY <2>1, <2>2, <2>3, <2>4
<1>8. \A k : Fenced(h, k) => Fenced(g, k)
  BY <1>1, <1>5, <1>7 DEF Fenced
<1>. QED  BY <1>4, <1>5, <1>6, <1>7, <1>8 DEF Calm

\* What the steps of the pump and the helper do to the record, for the operation: the
\* reservation stays as it is, or is claimed, or goes with the status; a helper that is
\* lost leaves a reservation only behind a record that is closing.
RecordStep ==
  \/ /\ ses'.reservation.id = ses.reservation.id /\ ses'.reservation.gen = ses.reservation.gen
     /\ ses'.pending = ses.pending /\ ses'.helper.gen = ses.helper.gen
     /\ \/ ses'.status = ses.status
        \/ ses.status = "handoff_pending" /\ ses'.status = "handoff_finalizing"
     /\ ses'.reservation.claimed =>
          ses.reservation.claimed \/ \E w \in workers' : w.id = ses.reservation.id
  \/ /\ ses'.reservation = NoReservation
     /\ ses'.status \notin {"handoff", "handoff_closing"}
  \/ /\ ses.status = "handoff_closing" /\ ses'.status = ses.status
     /\ ses'.reservation = ses.reservation /\ ses'.helper.gen = 0

\* Such a step keeps the invariant.
LEMMA RecordKept ==
  ASSUME HandoffInv, op' = op, spent' = spent, terminals' = terminals,
         workers \subseteq workers', \A w \in workers' : w.id \in 1..spent.handoffs,
         SessionOK(ses'), NEW id \in 0..spent.handoffs, Calm(ses'.helper, ses.helper, id),
         RecordStep, ses.status = "handoff" => ses'.status = "handoff"
  PROVE  HandoffInv'
<1>. USE DEF HandoffInv
<1>1. HandoffTypeOK'
  BY DEF HandoffTypeOK
<1>2. NoReservation.id = 0
  BY DEF NoReservation
<1>3. ses'.reservation.id \in {0, ses.reservation.id} /\ ses'.reservation.id \in Nat
  BY <1>2 DEF RecordStep, SessionOK
<1>4. FenceInv'
  <2>1. \A k : k \in {op'.id, ses'.reservation.id} \ {0} => Fenced(ses'.helper, k)
    BY <1>3 DEF FenceInv, Calm
  <2>2. \A k : Said(ses'.helper, k) \/ Asked(ses'.helper, k) => k <= spent'.handoffs
    BY DEF FenceInv, Calm, HandoffTypeOK
  <2>. QED  BY <2>1, <2>2 DEF FenceInv
<1>5. ses'.status = "handoff" => ses.status = "handoff" /\ ses'.helper.gen = 0
  BY <1>2 DEF RecordStep, OwnedInv
<1>6. TerminalInv'
  BY <1>5 DEF TerminalInv, Calm, Opened, Managed
<1>7. OwnedInv'
  <2>1. ses'.reservation.id # 0 =>
          /\ ses'.reservation.id <= spent.handoffs
          /\ ses'.helper.gen \in {0, ses'.reservation.gen}
          /\ op.pc \notin Late => ses'.helper.gen = ses'.reservation.gen
          /\ op.pc \in Closing => op.gen = ses'.reservation.gen
          /\ op # NoOp => op.id = ses'.reservation.id
    BY <1>2 DEF RecordStep, OwnedInv, Closing, Late
  <2>2. ses'.reservation.id # 0 /\ op = NoOp => Waiting'
    BY <1>2 DEF RecordStep, OwnedInv, Waiting, Closing, NoOp
  <2>3. ses'.status = "handoff_closing" => op.pc \in Closing /\ ses'.reservation.id # 0
    BY <1>2 DEF RecordStep, OwnedInv
  <2>. QED  BY <1>5, <2>1, <2>2, <2>3 DEF OwnedInv
<1>. QED  BY <1>1, <1>4, <1>6, <1>7

\* A step of the helper's own.
LEMMA HelperKept ==
  ASSUME HandoffInv, UNCHANGED <<op, workers>>, spent'.handoffs = spent.handoffs,
         spent'.helpers = spent.helpers, DOMAIN spent' = DOMAIN spent, terminals' = terminals,
         DOMAIN ses' = SessionFields, NEW g, HelperOK(g), g.gen = ses.helper.gen,
         ses' = [ses EXCEPT !.helper = g], Calm(g, ses.helper, 0)
  PROVE  HandoffInv'
<1>1. SessionOK(ses') /\ SameRecord(ses', ses) /\ ses'.helper = g
  BY HelperChanged DEF HandoffInv, HandoffTypeOK
<1>2. /\ IdleHelper(ses.helper) => IdleHelper(ses'.helper)
      /\ \A k : Fenced(ses.helper, k) => Fenced(ses'.helper, k)
      /\ \A k : Said(ses'.helper, k) \/ Asked(ses'.helper, k)
                  => Said(ses.helper, k) \/ Asked(ses.helper, k) \/ k = 0
  BY <1>1 DEF Calm
<1>3. HandoffTypeOK'
  BY <1>1 DEF HandoffInv, HandoffTypeOK
<1>4. FenceInv'
  BY <1>1, <1>2 DEF HandoffInv, FenceInv, SameRecord, HandoffTypeOK
<1>5. TerminalInv'
  BY <1>1, <1>2 DEF HandoffInv, TerminalInv, SameRecord, Opened, Managed
<1>6. OwnedInv'
  BY <1>1 DEF HandoffInv, OwnedInv, SameRecord, Waiting
<1>. QED  BY <1>3, <1>4, <1>5, <1>6 DEF HandoffInv

\* What the helper's handlers do to its record: something is said, the turn and the work in
\* the background may end.
LEMMA SaysOK ==
  ASSUME NEW s, SessionOK(s), NEW lines \in Seq(Lines), NEW g,
         g = [s.helper EXCEPT !.outbox = @ \o lines]
  PROVE  Says(s, lines) = [s EXCEPT !.helper = g] /\ HelperOK(g)
<1>1. s.helper.outbox \o lines \in Seq(Lines)
  BY DEF SessionOK, HelperOK
<1>2. HelperOK(g)
  BY <1>1 DEF SessionOK, HelperOK, HelperFields
<1>. QED  BY <1>2 DEF Says

\* A handler's effect on the helper record, without its pipe.
Worked(g, h) ==
  /\ DOMAIN g = HelperFields
  /\ g.gen = h.gen /\ g.acks = h.acks
  /\ g.up \in BOOLEAN /\ g.busy \in BOOLEAN /\ g.tasks \in BOOLEAN
  /\ g.gen = 0 => ~g.up

\* The helper takes the head of its pipe and answers it.
LEMMA AnswerKept ==
  ASSUME HandoffInv, UNCHANGED <<op, workers, terminals, spent>>,
         ses.helper.inbox # <<>>, NEW g, NEW lines \in Seq(Lines),
         Worked(g, ses.helper), g.inbox = Tail(ses.helper.inbox),
         g.outbox = ses.helper.outbox \o lines, ses' = [ses EXCEPT !.helper = g],
         IdleHelper(ses.helper) => IdleHelper(g),
         \A i \in DOMAIN lines : (lines[i].kind = "ack" /\ lines[i].ready) =>
           /\ Asked(ses.helper, lines[i].id)
           /\ Fenced(ses.helper, lines[i].id) => IdleHelper(g)
  PROVE  HandoffInv'
<1>1. SessionOK(ses) /\ HelperOK(ses.helper) /\ DOMAIN ses' = SessionFields
  BY DEF HandoffInv, HandoffTypeOK, SessionOK
<1>2. g.outbox \in Seq(Lines) /\ g.inbox \in Seq(Commands)
  BY <1>1 DEF HelperOK
<1>3. HelperOK(g)
  BY <1>1, <1>2 DEF HelperOK, Worked
<1>4. Calm(g, ses.helper, 0)
  BY <1>1, CalmAnswer DEF Worked
<1>. QED  BY <1>1, <1>3, <1>4, HelperKept DEF Worked

\* A message, and one that may be preceded by another.
LEMMA OneLine ==
  ASSUME NEW a \in Lines PROVE <<a>> \in Seq(Lines) /\ \A i \in DOMAIN <<a>> : <<a>>[i] = a
OBVIOUS

LinesAre(said, a, b) ==
  said \in Seq(Lines) /\ \A i \in DOMAIN said : said[i] = a \/ said[i] = b

LEMMA TwoLines ==
  ASSUME NEW a \in Lines, NEW b \in Lines
  PROVE  LinesAre(<<a>> \o <<b>>, a, b) /\ LinesAre(<<>> \o <<b>>, a, b)
<1>1. LinesAre(<<a>> \o <<b>>, a, b)
  <2>1. <<a>> \o <<b>> \in Seq(Lines) /\ DOMAIN (<<a>> \o <<b>>) = 1..2
    OBVIOUS
  <2>2. (<<a>> \o <<b>>)[1] = a /\ (<<a>> \o <<b>>)[2] = b
    OBVIOUS
  <2>. QED  BY <2>1, <2>2 DEF LinesAre
<1>2. LinesAre(<<>> \o <<b>>, a, b)
  <2>1. <<>> \o <<b>> = <<b>> /\ <<b>> \in Seq(Lines)
    OBVIOUS
  <2>. QED  BY <2>1 DEF LinesAre
<1>. QED  BY <1>1, <1>2

\* The helper reads a command.
LEMMA ReadsKept == ASSUME HandoffInv, HelperReads PROVE HandoffInv'
<1>. DEFINE h == ses.helper
            c == Head(h.inbox)
            s == [ses EXCEPT !.helper.inbox = Tail(@)]
<1>1. SessionOK(ses) /\ DOMAIN ses = SessionFields /\ DOMAIN h = HelperFields
  BY DEF HandoffInv, HandoffTypeOK, SessionOK, HelperOK
<1>2. /\ h.up /\ h.inbox # <<>> /\ UNCHANGED <<op, workers, terminals, spent>>
      /\ h.inbox \in Seq(Commands) /\ h.outbox \in Seq(Lines)
      /\ h.up \in BOOLEAN /\ h.busy \in BOOLEAN /\ h.tasks \in BOOLEAN
      /\ h.gen = 0 => ~h.up
  BY <1>1 DEF HelperReads, SessionOK, HelperOK
<1>3. c \in Commands /\ 1 \in DOMAIN h.inbox /\ h.inbox[1] = c
  BY <1>2
<1>4. /\ Tail(h.inbox) \in Seq(Commands)
      /\ \A i \in DOMAIN Tail(h.inbox) :
           i + 1 \in DOMAIN h.inbox /\ Tail(h.inbox)[i] = h.inbox[i + 1] /\ 1 < i + 1
  BY <1>2
<1>5. /\ DOMAIN s = SessionFields /\ DOMAIN s.helper = HelperFields
      /\ s = [ses EXCEPT !.helper = s.helper]
      /\ s.helper = [h EXCEPT !.inbox = Tail(@)]
  BY <1>1 DEF SessionFields
<1>6. /\ s.helper.gen = h.gen /\ s.helper.up = h.up /\ s.helper.busy = h.busy
      /\ s.helper.tasks = h.tasks /\ s.helper.acks = h.acks /\ s.helper.outbox = h.outbox
      /\ s.helper.inbox = Tail(h.inbox) /\ s.helper.prep = h.prep
  <2>. HIDE DEF s
  <2>. QED  BY <1>1, <1>5 DEF HelperFields
<1>7. \A g : [s EXCEPT !.helper = g] = [ses EXCEPT !.helper = g]
  BY <1>1, <1>5 DEF SessionFields
<1>8. ses' = CASE c.kind = "prepare" -> AnswerPrepare(s, c)
               [] c.kind = "cancel" -> AnswerCancel(s, c)
               [] c.kind = "stop" -> AnswerStop(s, c)
               [] c.kind = "prompt" -> AnswerPrompt(s)
  BY DEF HelperReads
<1>9. c.kind \in {"prepare", "cancel", "stop", "prompt"}
  BY <1>3 DEF Commands
<1>. HIDE DEF s, c
\* Every answer is an update of the helper record.
<1>10. ASSUME NEW g, NEW lines \in Seq(Lines), ses' = [s EXCEPT !.helper = g],
              DOMAIN g = HelperFields, g.gen = h.gen, g.acks = h.acks,
              g.up \in BOOLEAN, g.up => h.up,
              g.busy \in BOOLEAN, g.tasks \in BOOLEAN,
              g.inbox = Tail(h.inbox), g.outbox = h.outbox \o lines,
              IdleHelper(h) => IdleHelper(g),
              \A i \in DOMAIN lines : (lines[i].kind = "ack" /\ lines[i].ready) =>
                /\ Asked(h, lines[i].id)
                /\ Fenced(h, lines[i].id) => IdleHelper(g)
       PROVE  HandoffInv'
  BY <1>2, <1>7, <1>10, AnswerKept DEF Worked
\* The commands that are left are no prompts if none was there, and none if fenced.
<1>11. ASSUME NEW g, g.inbox = Tail(h.inbox), g.busy => h.busy, g.up => h.up,
              IdleHelper(h)
       PROVE  IdleHelper(g)
  BY <1>4, <1>11 DEF IdleHelper
<1>12. <<>> \in Seq(Lines) /\ h.outbox \o <<>> = h.outbox /\ DOMAIN <<>> = {}
  BY <1>2
<1>13. \A x \in {"meta", "ready", "processing", "error"} : [kind |-> x] \in Lines
  BY DEF Lines
<1>14. CASE c.kind = "prepare"
  <2>. DEFINE other == h.prep # 0 /\ h.prep # c.id
              ready == ~other /\ ~h.busy /\ (~h.tasks \/ c.force)
              ends == ready /\ h.tasks /\ c.finalize
              said == (IF ends THEN <<Tasks(FALSE)>> ELSE <<>>) \o <<Ack(c.id, ready)>>
              t == [s EXCEPT !.helper.prep = IF other THEN @ ELSE c.id,
                             !.helper.tasks = @ /\ ~ends]
              g == [t.helper EXCEPT !.outbox = @ \o said]
  <2>1. ses' = Says(t, said)
    BY <1>6, <1>8, <1>14 DEF AnswerPrepare
  <2>2. Tasks(FALSE) \in Lines /\ Ack(c.id, ready) \in Lines
    BY <1>3 DEF Tasks, Ack, Lines, Commands
  <2>4. ready => ~h.busy
    OBVIOUS
  <2>. HIDE DEF ready, ends
  <2>3. /\ said \in Seq(Lines)
        /\ \A i \in DOMAIN said : said[i] = Tasks(FALSE) \/ said[i] = Ack(c.id, ready)
    <3>1. \/ said = <<Tasks(FALSE)>> \o <<Ack(c.id, ready)>>
          \/ said = <<>> \o <<Ack(c.id, ready)>>
      OBVIOUS
    <3>. HIDE DEF said, other
    <3>2. LinesAre(said, Tasks(FALSE), Ack(c.id, ready))
      BY <2>2, <3>1, TwoLines
    <3>. QED  BY <3>2 DEF LinesAre
  <2>. HIDE DEF said, other
  <2>5. /\ DOMAIN t = SessionFields /\ DOMAIN t.helper = HelperFields
        /\ \A x : [t EXCEPT !.helper = x] = [s EXCEPT !.helper = x]
    BY <1>5 DEF SessionFields
  <2>6. /\ t.helper.gen = h.gen /\ t.helper.up = h.up /\ t.helper.busy = h.busy
        /\ t.helper.tasks = (h.tasks /\ ~ends) /\ t.helper.acks = h.acks
        /\ t.helper.outbox = h.outbox /\ t.helper.inbox = Tail(h.inbox)
    BY <1>5, <1>6 DEF SessionFields, HelperFields
  <2>. HIDE DEF t
  <2>7. ses' = [s EXCEPT !.helper = g]
    BY <2>1, <2>5 DEF Says
  <2>8. /\ DOMAIN g = HelperFields /\ g.gen = h.gen /\ g.up = h.up /\ g.busy = h.busy
        /\ g.tasks \in BOOLEAN /\ g.acks = h.acks /\ g.outbox = h.outbox \o said
        /\ g.inbox = Tail(h.inbox)
    BY <2>5, <2>6 DEF HelperFields
  <2>. HIDE DEF g
  <2>9. ASSUME ready, Fenced(h, c.id) PROVE IdleHelper(g)
    <3>1. \A j \in DOMAIN Tail(h.inbox) : Tail(h.inbox)[j].kind # "prompt"
      BY <1>3, <1>4, <1>14, <2>9 DEF Fenced
    <3>. QED  BY <2>4, <2>8, <2>9, <3>1 DEF IdleHelper
  <2>10. Asked(h, c.id)
    BY <1>3, <1>14 DEF Asked
  <2>11. \A i \in DOMAIN said : (said[i].kind = "ack" /\ said[i].ready) =>
           /\ Asked(h, said[i].id)
           /\ Fenced(h, said[i].id) => IdleHelper(g)
    BY <2>3, <2>9, <2>10 DEF Ack, Tasks
  <2>. QED  BY <1>2, <1>10, <1>11, <2>3, <2>7, <2>8, <2>11
<1>15. CASE c.kind = "cancel"
  <2>1. CASE h.prep # c.id
    <3>1. ses' = s
      BY <1>6, <1>8, <1>15, <2>1 DEF AnswerCancel
    <3>2. s = [s EXCEPT !.helper = s.helper]
      BY <1>5 DEF SessionFields
    <3>. QED  BY <1>2, <1>5, <1>6, <1>10, <1>11, <1>12, <3>1, <3>2
  <2>2. CASE h.prep = c.id
    <3>. DEFINE said == <<[kind |-> IF h.busy THEN "processing" ELSE "ready"]>>
                g == [s.helper EXCEPT !.prep = 0, !.outbox = @ \o said]
    <3>1. said \in Seq(Lines) /\ \A i \in DOMAIN said : said[i].kind # "ack"
      BY <1>13
    <3>2. ses' = Says([s EXCEPT !.helper.prep = 0], said)
      BY <1>6, <1>8, <1>15, <2>2 DEF AnswerCancel
    <3>. HIDE DEF said
    <3>3. ses' = [s EXCEPT !.helper = g]
      BY <1>5, <3>2 DEF Says, SessionFields, HelperFields
    <3>4. /\ DOMAIN g = HelperFields /\ g.gen = h.gen /\ g.up = h.up /\ g.busy = h.busy
          /\ g.tasks = h.tasks /\ g.acks = h.acks /\ g.outbox = h.outbox \o said
          /\ g.inbox = Tail(h.inbox)
      BY <1>5, <1>6 DEF HelperFields
    <3>. HIDE DEF g
    <3>. QED  BY <1>2, <1>10, <1>11, <3>1, <3>3, <3>4
  <2>. QED  BY <2>1, <2>2
<1>16. CASE c.kind = "stop"
  <2>1. CASE h.tasks /\ ~c.force
    <3>. DEFINE said == <<[kind |-> "ready"]>>
                g == [s.helper EXCEPT !.prep = 0, !.outbox = @ \o said]
    <3>1. said \in Seq(Lines) /\ \A i \in DOMAIN said : said[i].kind # "ack"
      BY <1>13
    <3>2. ses' = Says([s EXCEPT !.helper.prep = 0], said)
      BY <1>6, <1>8, <1>16, <2>1 DEF AnswerStop
    <3>. HIDE DEF said
    <3>3. ses' = [s EXCEPT !.helper = g]
      BY <1>5, <3>2 DEF Says, SessionFields, HelperFields
    <3>4. /\ DOMAIN g = HelperFields /\ g.gen = h.gen /\ g.up = h.up /\ g.busy = h.busy
          /\ g.tasks = h.tasks /\ g.acks = h.acks /\ g.outbox = h.outbox \o said
          /\ g.inbox = Tail(h.inbox)
      BY <1>5, <1>6 DEF HelperFields
    <3>. HIDE DEF g
    <3>. QED  BY <1>2, <1>10, <1>11, <3>1, <3>3, <3>4
  <2>2. CASE ~(h.tasks /\ ~c.force)
    <3>. DEFINE g == [s.helper EXCEPT !.up = FALSE, !.busy = FALSE, !.tasks = FALSE]
    <3>1. ses' = [s EXCEPT !.helper.up = FALSE, !.helper.busy = FALSE,
                           !.helper.tasks = FALSE]
      BY <1>6, <1>8, <1>16, <2>2 DEF AnswerStop
    <3>2. ses' = [s EXCEPT !.helper = g]
      BY <1>5, <3>1 DEF SessionFields, HelperFields
    <3>3. /\ DOMAIN g = HelperFields /\ g.gen = h.gen /\ ~g.up /\ ~g.busy /\ ~g.tasks
          /\ g.up \in BOOLEAN /\ g.busy \in BOOLEAN /\ g.tasks \in BOOLEAN
          /\ g.acks = h.acks /\ g.outbox = h.outbox /\ g.inbox = Tail(h.inbox)
      BY <1>5, <1>6 DEF HelperFields
    <3>. HIDE DEF g
    <3>. QED  BY <1>2, <1>10, <1>11, <1>12, <3>2, <3>3
  <2>. QED  BY <2>1, <2>2
<1>17. CASE c.kind = "prompt"
  <2>1. ~IdleHelper(h)
    BY <1>2, <1>3, <1>17 DEF IdleHelper
  <2>2. CASE h.prep # 0 \/ h.busy
    <3>1. ses' = s
      BY <1>6, <1>8, <1>17, <2>2 DEF AnswerPrompt
    <3>2. s = [s EXCEPT !.helper = s.helper]
      BY <1>5 DEF SessionFields
    <3>. QED  BY <1>2, <1>5, <1>6, <1>10, <1>12, <2>1, <3>1, <3>2
  <2>3. CASE ~(h.prep # 0 \/ h.busy)
    <3>. DEFINE said == <<[kind |-> "processing"], [kind |-> "meta"]>>
                g == [s.helper EXCEPT !.busy = TRUE, !.outbox = @ \o said]
    <3>1. said \in Seq(Lines) /\ \A i \in DOMAIN said : said[i].kind # "ack"
      BY <1>13
    <3>2. ses' = Says([s EXCEPT !.helper.busy = TRUE], said)
      BY <1>6, <1>8, <1>17, <2>3 DEF AnswerPrompt
    <3>. HIDE DEF said
    <3>3. ses' = [s EXCEPT !.helper = g]
      BY <1>5, <3>2 DEF Says, SessionFields, HelperFields
    <3>4. /\ DOMAIN g = HelperFields /\ g.gen = h.gen /\ g.up = h.up /\ g.busy = TRUE
          /\ g.tasks = h.tasks /\ g.acks = h.acks /\ g.outbox = h.outbox \o said
          /\ g.inbox = Tail(h.inbox)
      BY <1>5, <1>6 DEF HelperFields
    <3>. HIDE DEF g
    <3>. QED  BY <1>2, <1>10, <2>1, <3>1, <3>3, <3>4
  <2>. QED  BY <2>2, <2>3
<1>. QED  BY <1>9, <1>14, <1>15, <1>16, <1>17

\* A turn or work in the background ends, the process dies or reports an error.
LEMMA EndsKept ==
  ASSUME HandoffInv, HelperEndsTurn \/ HelperEndsTasks \/ HelperDies PROVE HandoffInv'
<1>. DEFINE h == ses.helper
<1>1. /\ SessionOK(ses) /\ DOMAIN ses = SessionFields /\ HelperOK(h)
      /\ DOMAIN h = HelperFields /\ DOMAIN spent = SpentFields
  BY DEF HandoffInv, HandoffTypeOK, SessionOK, HelperOK
<1>2. h.up /\ UNCHANGED <<op, workers, terminals>>
  BY DEF HelperEndsTurn, HelperEndsTasks, HelperDies
<1>3. /\ spent'.handoffs = spent.handoffs /\ spent'.helpers = spent.helpers
      /\ DOMAIN spent' = DOMAIN spent
  BY <1>1 DEF HelperEndsTurn, HelperEndsTasks, HelperDies, Spend, SpentFields
<1>. DEFINE Grows(g, lines) ==
              /\ DOMAIN g = HelperFields /\ g.gen = h.gen /\ g.acks = h.acks
              /\ g.inbox = h.inbox /\ g.tasks \in BOOLEAN
              /\ g.up \in BOOLEAN /\ (g.up => h.up)
              /\ g.busy \in BOOLEAN /\ (g.busy => h.busy)
              /\ g.outbox = h.outbox \o lines /\ lines \in Seq(Lines)
              /\ \A i \in DOMAIN lines : lines[i].kind # "ack"
<1>4. ASSUME NEW g, NEW lines, ses' = [ses EXCEPT !.helper = g], Grows(g, lines)
      PROVE  HandoffInv'
  <2>1. g.outbox \in Seq(Lines)
    BY <1>1, <1>4 DEF HelperOK, Grows
  <2>2. HelperOK(g) /\ g.gen = h.gen
    BY <1>1, <1>4, <2>1 DEF HelperOK, Grows
  <2>3. IdleHelper(h) => IdleHelper(g)
    BY <1>4 DEF IdleHelper, Grows
  <2>4. Calm(g, h, 0)
    <3>1. /\ g.acks = h.acks /\ g.inbox = h.inbox /\ g.outbox = h.outbox \o lines
          /\ lines \in Seq(Lines) /\ \A i \in DOMAIN lines : lines[i].kind # "ack"
      BY <1>4 DEF Grows
    <3>. HIDE DEF Grows
    <3>. QED  BY <1>1, <2>3, <3>1, CalmAnswer
  <2>5. ses' = [ses EXCEPT !.helper = g]
    BY <1>4
  <2>. QED  BY <1>1, <1>2, <1>3, <2>2, <2>4, <2>5, HelperKept
<1>. HIDE DEF Grows
<1>5. /\ \A x \in {"meta", "ready", "processing", "error"} : [kind |-> x] \in Lines
      /\ \A b \in BOOLEAN : Tasks(b) \in Lines
  BY DEF Lines, Tasks
<1>6. ASSUME NEW lines \in Seq(Lines), NEW t, ses' = Says(t, lines), NEW f,
             t = [ses EXCEPT !.helper = f], DOMAIN f = HelperFields,
             f.gen = h.gen, f.acks = h.acks, f.inbox = h.inbox, f.outbox = h.outbox,
             f.up = h.up, f.busy \in BOOLEAN, f.busy => h.busy, f.tasks \in BOOLEAN,
             \A i \in DOMAIN lines : lines[i].kind # "ack"
      PROVE  HandoffInv'
  <2>. DEFINE g == [f EXCEPT !.outbox = @ \o lines]
  <2>1. ses' = [ses EXCEPT !.helper = g]
    BY <1>1, <1>6 DEF Says, SessionFields
  <2>2. /\ DOMAIN g = HelperFields /\ g.gen = h.gen /\ g.acks = h.acks /\ g.inbox = h.inbox
        /\ g.up = h.up /\ g.busy = f.busy /\ g.tasks = f.tasks
        /\ g.outbox = h.outbox \o lines
    BY <1>6 DEF HelperFields
  <2>. HIDE DEF g
  <2>3. /\ g.up \in BOOLEAN /\ (g.up => h.up) /\ g.tasks \in BOOLEAN
        /\ g.busy \in BOOLEAN /\ (g.busy => h.busy)
    BY <1>1, <1>6, <2>2 DEF HelperOK
  <2>4. Grows(g, lines)
    BY <1>6, <2>2, <2>3 DEF Grows
  <2>. QED  BY <1>4, <2>1, <2>4
<1>7. CASE HelperEndsTurn
  <2>1. PICK left \in BOOLEAN :
          ses' = Says([ses EXCEPT !.helper.busy = FALSE, !.helper.tasks = left],
                      (IF left THEN <<Tasks(TRUE)>> ELSE <<>>) \o <<[kind |-> "ready"]>>)
    BY <1>7 DEF HelperEndsTurn
  <2>. DEFINE lines == (IF left THEN <<Tasks(TRUE)>> ELSE <<>>) \o <<[kind |-> "ready"]>>
              f == [h EXCEPT !.busy = FALSE, !.tasks = left]
              t == [ses EXCEPT !.helper.busy = FALSE, !.helper.tasks = left]
  <2>2. /\ lines \in Seq(Lines)
        /\ \A i \in DOMAIN lines : lines[i] = Tasks(TRUE) \/ lines[i] = [kind |-> "ready"]
    <3>1. \/ lines = <<Tasks(TRUE)>> \o <<[kind |-> "ready"]>>
          \/ lines = <<>> \o <<[kind |-> "ready"]>>
      OBVIOUS
    <3>. HIDE DEF lines
    <3>2. Tasks(TRUE) \in Lines /\ [kind |-> "ready"] \in Lines
      BY <1>5
    <3>3. LinesAre(lines, Tasks(TRUE), [kind |-> "ready"])
      BY <3>1, <3>2, TwoLines
    <3>. QED  BY <3>3 DEF LinesAre
  <2>3. \A i \in DOMAIN lines : lines[i].kind # "ack"
    BY <2>2 DEF Tasks
  <2>4. t = [ses EXCEPT !.helper = f]
    BY <1>1 DEF SessionFields, HelperFields
  <2>5. /\ DOMAIN f = HelperFields /\ f.gen = h.gen /\ f.acks = h.acks /\ f.inbox = h.inbox
        /\ f.outbox = h.outbox /\ f.up = h.up /\ ~f.busy /\ f.busy \in BOOLEAN
        /\ f.tasks \in BOOLEAN
    BY <1>1 DEF HelperFields
  <2>. HIDE DEF lines, f, t
  <2>6. ses' = Says(t, lines)
    BY <2>1 DEF lines, t
  <2>. QED  BY <1>6, <2>2, <2>3, <2>4, <2>5, <2>6
<1>8. CASE HelperEndsTasks
  <2>. DEFINE lines == <<Tasks(FALSE)>>
              f == [h EXCEPT !.tasks = FALSE]
              t == [ses EXCEPT !.helper.tasks = FALSE]
  <2>2. lines \in Seq(Lines) /\ \A i \in DOMAIN lines : lines[i].kind # "ack"
    <3>1. Tasks(FALSE) \in Lines /\ Tasks(FALSE).kind # "ack"
      BY <1>5 DEF Tasks
    <3>. QED  BY <3>1, OneLine
  <2>4. t = [ses EXCEPT !.helper = f]
    BY <1>1 DEF SessionFields, HelperFields
  <2>5. /\ DOMAIN f = HelperFields /\ f.gen = h.gen /\ f.acks = h.acks /\ f.inbox = h.inbox
        /\ f.outbox = h.outbox /\ f.up = h.up /\ f.busy = h.busy /\ f.busy \in BOOLEAN
        /\ f.tasks \in BOOLEAN
    BY <1>1 DEF HelperFields, HelperOK
  <2>6. ses' = Says(t, lines)
    BY <1>8 DEF HelperEndsTasks
  <2>. HIDE DEF lines, f, t
  <2>. QED  BY <1>6, <2>2, <2>4, <2>5, <2>6
<1>9. CASE HelperDies /\ ses' = Says(ses, <<[kind |-> "error"]>>)
  <2>. DEFINE lines == <<[kind |-> "error"]>>
              g == [h EXCEPT !.outbox = @ \o lines]
  <2>1. lines \in Seq(Lines) /\ \A i \in DOMAIN lines : lines[i].kind # "ack"
    BY <1>5, OneLine
  <2>2. ses' = [ses EXCEPT !.helper = g]
    BY <1>9 DEF Says
  <2>3. /\ DOMAIN g = HelperFields /\ g.gen = h.gen /\ g.acks = h.acks /\ g.inbox = h.inbox
        /\ g.up = h.up /\ g.busy = h.busy /\ g.tasks = h.tasks
        /\ g.outbox = h.outbox \o lines
    BY <1>1 DEF HelperFields
  <2>. HIDE DEF lines, g
  <2>4. Grows(g, lines)
    BY <1>1, <2>1, <2>3 DEF Grows, HelperOK
  <2>. QED  BY <1>4, <2>2, <2>4
<1>10. CASE HelperDies /\ ses' = [ses EXCEPT !.helper.up = FALSE, !.helper.busy = FALSE,
                                             !.helper.tasks = FALSE]
  <2>. DEFINE g == [h EXCEPT !.up = FALSE, !.busy = FALSE, !.tasks = FALSE]
  <2>1. ses' = [ses EXCEPT !.helper = g]
    BY <1>1, <1>10 DEF SessionFields, HelperFields
  <2>2. /\ DOMAIN g = HelperFields /\ g.gen = h.gen /\ g.acks = h.acks /\ g.inbox = h.inbox
        /\ ~g.up /\ ~g.busy /\ g.up \in BOOLEAN /\ g.busy \in BOOLEAN /\ g.tasks \in BOOLEAN
        /\ g.outbox = h.outbox
    BY <1>1 DEF HelperFields
  <2>3. <<>> \in Seq(Lines) /\ h.outbox \o <<>> = h.outbox /\ DOMAIN <<>> = {}
    BY <1>1 DEF HelperOK
  <2>. HIDE DEF g
  <2>4. Grows(g, <<>>)
    BY <1>1, <2>2, <2>3 DEF Grows
  <2>. QED  BY <1>4, <2>1, <2>4
<1>. QED  BY <1>7, <1>8, <1>9, <1>10 DEF HelperDies

\* What a line does to the record before a waiting handoff is claimed.
Noted(t) ==
  \/ /\ t.reservation = ses.reservation /\ t.pending = ses.pending
     /\ t.helper.gen = ses.helper.gen
     /\ \/ t.status = ses.status
        \/ ses.status = "handoff_pending" /\ t.status = "handoff_finalizing"
  \/ t.reservation = NoReservation /\ t.status \notin {"handoff", "handoff_closing"}

\* claim_pending_terminal_handoff at the end of the line.
LEMMA ClaimKept ==
  ASSUME HandoffInv, NEW t, SessionOK(t), NEW id \in 0..spent.handoffs,
         Calm(t.helper, ses.helper, id), Noted(t), ClaimPending(t),
         UNCHANGED <<op, terminals, spent>>, ses.status # "handoff"
  PROVE  HandoffInv'
<1>1. CASE ses' = t /\ UNCHANGED workers
  <2>1. RecordStep
    BY <1>1 DEF Noted, RecordStep
  <2>. QED  BY <1>1, <2>1, RecordKept DEF HandoffInv, HandoffTypeOK
<1>2. CASE /\ t.reservation # NoReservation
           /\ ses' = [t EXCEPT !.reservation.claimed = TRUE]
           /\ workers' = workers \cup {[id |-> t.reservation.id, gen |-> t.reservation.gen]}
  <2>. DEFINE w == [id |-> t.reservation.id, gen |-> t.reservation.gen]
  <2>1. /\ DOMAIN ses' = SessionFields /\ ses'.helper = t.helper /\ ses'.status = t.status
        /\ ses'.pending = t.pending /\ ses'.force = t.force /\ ses'.sid = t.sid
        /\ DOMAIN ses'.reservation = ReservationFields
        /\ ses'.reservation.id = t.reservation.id /\ ses'.reservation.gen = t.reservation.gen
    BY <1>2 DEF SessionOK, SessionFields, ReservationFields
  <2>2. t.reservation.id # 0 /\ t.reservation.id \in Nat
    BY <1>2 DEF SessionOK
  <2>3. ses'.reservation # NoReservation
    BY <2>1, <2>2 DEF NoReservation
  <2>4. SessionOK(ses')
    BY <2>1, <2>2, <2>3 DEF SessionOK
  <2>5. t.reservation = ses.reservation
    BY <1>2 DEF Noted
  <2>6. t.reservation.id \in 1..spent.handoffs
    BY <2>2, <2>5 DEF HandoffInv, OwnedInv, HandoffTypeOK
  <2>7. w \in workers' /\ w.id = ses.reservation.id
    BY <1>2, <2>5
  <2>8. RecordStep
    BY <1>2, <2>1, <2>5, <2>7 DEF Noted, RecordStep
  <2>9. workers \subseteq workers' /\ \A v \in workers' : v.id \in 1..spent.handoffs
    BY <1>2, <2>6 DEF HandoffInv, HandoffTypeOK
  <2>. QED  BY <2>1, <2>4, <2>8, <2>9, RecordKept
<1>. QED  BY <1>1, <1>2 DEF ClaimPending

\* The reservation of a session whose helper is there is made for that helper.
LEMMA HelperIsReserved ==
  ASSUME HandoffInv, ses.helper.gen # 0
  PROVE  /\ ses.reservation = NoReservation \/ ses.reservation.gen = ses.helper.gen
         /\ ses.status # "handoff"
         /\ ses.reservation.id \in 0..spent.handoffs
BY DEF HandoffInv, OwnedInv, HandoffTypeOK, SessionOK

\* One line of the helper.
LEMMA LineKept == ASSUME HandoffInv, PumpLine PROVE HandoffInv'
<1>. DEFINE h == ses.helper
            line == Head(h.outbox)
            s == [ses EXCEPT !.helper.outbox = Tail(@)]
            rid == ses.reservation.id
<1>1. /\ SessionOK(ses) /\ DOMAIN ses = SessionFields /\ HelperOK(h)
      /\ DOMAIN h = HelperFields
  BY DEF HandoffInv, HandoffTypeOK, SessionOK, HelperOK
<1>2. /\ h.gen # 0 /\ h.outbox # <<>> /\ UNCHANGED <<op, terminals, spent>>
  BY DEF PumpLine
<1>3. line \in Lines
  BY <1>1, <1>2 DEF HelperOK
<1>4. /\ ses.reservation = NoReservation \/ ses.reservation.gen = h.gen
      /\ ses.status # "handoff" /\ rid \in 0..spent.handoffs /\ rid \in Nat
      /\ ses.reservation = NoReservation <=> rid = 0
  BY <1>1, <1>2, HelperIsReserved DEF SessionOK
<1>5. SessionOK(s) /\ SameRecord(s, ses) /\ \A id : Calm(s.helper, h, id)
  <2>. DEFINE g == [h EXCEPT !.outbox = Tail(@), !.acks = @ \cup {}]
  <2>1. HelperOK(g) /\ \A id : Calm(g, h, id)
    BY <1>1, <1>2, CalmLine
  <2>2. s = [ses EXCEPT !.helper = g] /\ g.gen = h.gen
    BY <1>1 DEF SessionFields, HelperFields
  <2>. HIDE DEF g, s
  <2>. QED  BY <1>1, <2>1, <2>2, HelperChanged
<1>7. CASE line.kind = "meta"
  <2>1. ClaimPending(NoteMeta(s))
    BY <1>7 DEF PumpLine
  <2>. DEFINE known == [s EXCEPT !.sid = TRUE]
  <2>2. SessionOK(known) /\ SameRecord(known, ses) /\ known.helper = s.helper
    BY <1>5 DEF SessionOK, SessionFields, SameRecord
  <2>3. s.pending = ses.pending /\ s.status = ses.status /\ s.reservation = ses.reservation
        /\ s.helper.gen = h.gen /\ s.force \in BOOLEAN
    BY <1>5 DEF SameRecord, SessionOK
  <2>4. \/ NoteMeta(s) = known
        \/ ses.status = "handoff_pending" /\ NoteMeta(s) = FailPending(known, rid)
        \/ /\ ses.status = "handoff_pending"
           /\ NoteMeta(s) = [RequestPrepare(known, rid, s.force, TRUE) EXCEPT
                               !.status = "handoff_finalizing"]
    BY <2>3 DEF NoteMeta
  <2>. HIDE DEF known, s
  <2>5. CASE NoteMeta(s) = known
    BY <1>2, <1>4, <1>5, <2>1, <2>2, <2>5, ClaimKept DEF Noted, SameRecord
  <2>6. CASE ses.status = "handoff_pending" /\ NoteMeta(s) = FailPending(known, rid)
    <3>. DEFINE t == FailPending(known, rid)
    <3>1. /\ SessionOK(t) /\ Calm(t.helper, known.helper, 0)
          /\ t.status \in {known.status, "ready"}
          /\ t.reservation = NoReservation
      BY <1>4, <2>2, FailOK DEF SameRecord
    <3>. HIDE DEF t
    <3>2. Calm(t.helper, h, 0)
      BY <1>5, <2>2, <3>1, CalmTwice
    <3>3. Noted(t)
      BY <2>2, <2>6, <3>1 DEF Noted, SameRecord
    <3>4. ClaimPending(t)
      BY <2>1, <2>6 DEF t
    <3>5. 0 \in 0..spent.handoffs
      BY DEF HandoffInv, HandoffTypeOK
    <3>. QED  BY <1>2, <1>4, <3>1, <3>2, <3>3, <3>4, <3>5, ClaimKept
  <2>7. CASE /\ ses.status = "handoff_pending"
             /\ NoteMeta(s) = [RequestPrepare(known, rid, s.force, TRUE) EXCEPT
                                 !.status = "handoff_finalizing"]
    <3>. DEFINE r == RequestPrepare(known, rid, s.force, TRUE)
                t == [r EXCEPT !.status = "handoff_finalizing"]
    <3>1. SessionOK(r) /\ SameRecord(r, known) /\ Calm(r.helper, known.helper, rid)
      BY <1>4, <2>2, <2>3, PrepareOK
    <3>. HIDE DEF r
    <3>2. SessionOK(t) /\ t.helper = r.helper /\ t.status = "handoff_finalizing"
          /\ t.reservation = r.reservation /\ t.pending = r.pending
      BY <3>1 DEF SessionOK, SessionFields
    <3>3. ClaimPending(t)
      BY <2>1, <2>7 DEF r
    <3>. HIDE DEF t
    <3>4. Calm(t.helper, h, rid)
      BY <1>5, <2>2, <3>1, <3>2, CalmTwice
    <3>5. Noted(t)
      BY <2>2, <2>7, <3>1, <3>2 DEF Noted, SameRecord
    <3>. QED  BY <1>2, <1>4, <3>2, <3>3, <3>4, <3>5, ClaimKept
  <2>. QED  BY <2>4, <2>5, <2>6, <2>7
<1>8. CASE line.kind = "ack"
  <2>. DEFINE A == {[id |-> line.id, ready |-> line.ready]}
              g == [h EXCEPT !.outbox = Tail(@), !.acks = @ \cup A]
              t == [s EXCEPT !.helper.acks = @ \cup A]
  <2>1. ClaimPending(t)
    BY <1>8 DEF PumpLine
  <2>2. line.id \in Nat /\ line.ready \in BOOLEAN
    BY <1>3, <1>8 DEF Lines
  <2>3. A \in SUBSET [id : Nat, ready : BOOLEAN]
    BY <2>2
  <2>. HIDE DEF h
  <2>4. HelperOK(g) /\ Calm(g, h, 0)
    <3>1. \A a \in A : line.kind = "ack" /\ a.id = line.id /\ a.ready = line.ready
      BY <1>8
    <3>. HIDE DEF A
    <3>. QED  BY <1>1, <1>2, <2>3, <3>1, CalmLine
  <2>. USE DEF h
  <2>5. t = [ses EXCEPT !.helper = g] /\ g.gen = h.gen
    BY <1>1 DEF SessionFields, HelperFields
  <2>. HIDE DEF g, t
  <2>6. SessionOK(t) /\ SameRecord(t, ses) /\ t.helper = g
    BY <1>1, <2>4, <2>5, HelperChanged
  <2>7. 0 \in 0..spent.handoffs
    BY DEF HandoffInv, HandoffTypeOK
  <2>. QED  BY <1>2, <1>4, <2>1, <2>4, <2>6, <2>7, ClaimKept DEF Noted, SameRecord
<1>9. CASE line.kind \in {"ready", "processing"}
  <2>. DEFINE t == NoteStatus(s, line.kind)
  <2>1. ClaimPending(t)
    BY <1>9 DEF PumpLine
  <2>2. \/ t = s
        \/ s.reservation = NoReservation /\ t = [s EXCEPT !.status = line.kind]
    BY DEF NoteStatus
  <2>. HIDE DEF s, t
  <2>3. SessionOK(t) /\ t.helper = s.helper /\ Noted(t)
    <3>1. CASE t = s
      BY <1>5, <3>1 DEF Noted, SameRecord
    <3>2. CASE s.reservation = NoReservation /\ t = [s EXCEPT !.status = line.kind]
      <4>1. /\ SessionOK(t) /\ t.helper = s.helper /\ t.reservation = NoReservation
            /\ t.status = line.kind
        BY <1>5, <3>2 DEF SessionOK, SessionFields
      <4>. QED  BY <1>9, <4>1 DEF Noted
    <3>. QED  BY <2>2, <3>1, <3>2
  <2>. QED  BY <1>2, <1>4, <1>5, <2>1, <2>3, ClaimKept
<1>10. CASE line.kind = "tasks"
  <2>. DEFINE g == [s.helper EXCEPT !.known = line.ready]
              t == [s EXCEPT !.helper.known = line.ready]
  <2>1. ClaimPending(t)
    BY <1>10 DEF PumpLine
  <2>2. t = [s EXCEPT !.helper = g]
    OBVIOUS
  <2>. HIDE DEF s, t
  <2>3. /\ HelperOK(g) /\ g.gen = s.helper.gen /\ g.up = s.helper.up
        /\ g.busy = s.helper.busy /\ g.inbox = s.helper.inbox /\ g.outbox = s.helper.outbox
        /\ g.acks = s.helper.acks
    BY <1>5 DEF SessionOK, HelperOK, HelperFields
  <2>. HIDE DEF g
  <2>4. Calm(g, s.helper, rid)
    BY <2>3, CalmSame
  <2>5. SessionOK(t) /\ SameRecord(t, s) /\ t.helper = g
    BY <1>5, <2>2, <2>3, HelperChanged
  <2>6. Calm(t.helper, h, rid)
    BY <1>5, <2>4, <2>5, CalmTwice
  <2>. QED  BY <1>2, <1>4, <1>5, <2>1, <2>5, <2>6, ClaimKept DEF Noted, SameRecord
<1>11. CASE line.kind = "error"
  <2>1. PICK status \in {"interrupted", "error"} : ClaimPending(NoteError(s, status))
    BY <1>11 DEF PumpLine
  <2>. DEFINE u == [s EXCEPT !.status = status]
              t == RetireHandle(u, s.helper.gen)
  <2>2. NoteError(s, status) = t
    BY DEF NoteError
  <2>. HIDE DEF s
  <2>3. /\ SessionOK(u) /\ u.helper = s.helper /\ u.status = status
        /\ u.reservation = ses.reservation /\ s.helper.gen = h.gen
    BY <1>5 DEF SessionOK, SessionFields, SameRecord
  <2>. HIDE DEF u
  <2>4. /\ SessionOK(t) /\ Calm(t.helper, u.helper, rid) /\ t.status = status
        /\ t.reservation = NoReservation
    <3>1. /\ SessionOK(t) /\ Calm(t.helper, u.helper, rid) /\ t.status = u.status
          /\ t.reservation = IF u.status # "handoff_closing" /\ u.reservation.gen = u.helper.gen
                             THEN NoReservation ELSE u.reservation
      <4>1. ~(s.helper.gen = 0 \/ u.helper.gen # s.helper.gen)
        BY <1>2, <2>3
      <4>2. t = RetireHandle(u, s.helper.gen) /\ SessionOK(u)
        BY <2>3
      <4>. HIDE DEF t
      <4>3. Retires(u, s.helper.gen, rid, t)
        BY <4>2, RetireOK
      <4>. QED  BY <4>1, <4>3 DEF Retires
    <3>. HIDE DEF t
    <3>. QED  BY <1>4, <1>5, <2>1, <2>3, <3>1
  <2>. HIDE DEF t
  <2>5. Calm(t.helper, h, rid)
    BY <1>5, <2>3, <2>4, CalmTwice
  <2>6. Noted(t)
    BY <2>1, <2>4 DEF Noted
  <2>. QED  BY <1>2, <1>4, <2>1, <2>2, <2>4, <2>5, <2>6, ClaimKept
<1>12. line.kind \in {"meta", "ack", "ready", "processing", "tasks", "error"}
  BY <1>3 DEF Lines
<1>. QED  BY <1>7, <1>8, <1>9, <1>10, <1>11, <1>12

\* The end of the helper's output.
LEMMA ExitKept == ASSUME HandoffInv, PumpExit PROVE HandoffInv'
<1>. DEFINE s == IF ses.status \in Terminated THEN ses
                 ELSE [ses EXCEPT !.status = IF ses.sid THEN "interrupted" ELSE "error",
                                  !.pending = FALSE]
<1>1. /\ ses.helper.gen # 0 /\ ses' = RetireHandle(s, ses.helper.gen)
      /\ UNCHANGED <<op, workers, terminals, spent>>
  BY DEF PumpExit
<1>2. SessionOK(ses)
  BY DEF HandoffInv, HandoffTypeOK
<1>3. /\ SessionOK(s) /\ s.helper = ses.helper /\ s.reservation = ses.reservation
      /\ s.status \in Terminated
      /\ s.status \in {"interrupted", "error"} \/ s = ses
  BY <1>2 DEF SessionOK, SessionFields, Terminated
<1>4. /\ ses.reservation = NoReservation \/ ses.reservation.gen = ses.helper.gen
      /\ ses.status # "handoff" /\ 0 \in 0..spent.handoffs
  BY <1>1, HelperIsReserved DEF HandoffInv, HandoffTypeOK
<1>. HIDE DEF s
<1>5. /\ SessionOK(ses') /\ Calm(ses'.helper, ses.helper, 0) /\ ses'.status = s.status
      /\ ses'.helper.gen = 0
      /\ ses'.reservation = IF s.status # "handoff_closing" /\ s.reservation.gen = ses.helper.gen
                            THEN NoReservation ELSE s.reservation
  <2>1. Retires(s, ses.helper.gen, 0, ses')
    BY <1>1, <1>3, RetireOK
  <2>. QED  BY <1>1, <1>3, <2>1 DEF Retires
<1>6. RecordStep
  <2>1. CASE s.status = "handoff_closing"
    BY <1>3, <1>5, <2>1 DEF RecordStep
  <2>2. CASE s.status # "handoff_closing"
    BY <1>3, <1>4, <1>5, <2>2 DEF RecordStep
  <2>. QED  BY <2>1, <2>2
<1>. QED  BY <1>1, <1>4, <1>5, <1>6, RecordKept DEF HandoffInv, HandoffTypeOK

-----------------------------------------------------------------------------
(* The steps of the operation.                                              *)

\* What a step of the operation needs beside its effect on the record and on itself.
LEMMA StepKept ==
  ASSUME HandoffInv, UNCHANGED <<workers, spent>>, SessionOK(ses'),
         Calm(ses'.helper, ses.helper, op.id),
         DOMAIN op' = OpFields, op'.id \in {0, op.id}, op'.err \in BOOLEAN, op'.round \in 1..2,
         op'.force \in BOOLEAN, ses'.reservation.id \in {0, ses.reservation.id},
         OwnedInv', TerminalInv'
  PROVE  HandoffInv'
<1>1. op.id \in 0..spent.handoffs
  BY DEF HandoffInv, HandoffTypeOK
<1>2. HandoffTypeOK'
  BY <1>1 DEF HandoffInv, HandoffTypeOK
<1>3. FenceInv'
  <2>1. \A k : k \in {op'.id, ses'.reservation.id} \ {0} => Fenced(ses'.helper, k)
    BY DEF HandoffInv, FenceInv, Calm
  <2>2. \A k : Said(ses'.helper, k) \/ Asked(ses'.helper, k) => k <= spent'.handoffs
    BY <1>1 DEF HandoffInv, FenceInv, Calm
  <2>. QED  BY <2>1, <2>2 DEF FenceInv
<1>. QED  BY <1>2, <1>3 DEF HandoffInv

\* The operation at work: it has a number, and the reservation, if there is one, is its own.
LEMMA Working ==
  ASSUME HandoffInv, op.pc # "none"
  PROVE  /\ SessionOK(ses) /\ DOMAIN op = OpFields /\ op # NoOp /\ op.id # 0 /\ op.id \in Nat
         /\ op.err \in BOOLEAN /\ op.round \in 1..2 /\ op.force \in BOOLEAN
         /\ op.was \notin {"handoff", "handoff_closing"}
         /\ ses.reservation.id \in {0, op.id} /\ ses.reservation.id \in Nat
         /\ ses.reservation.id # 0 =>
              /\ ses.reservation.id <= spent.handoffs
              /\ ses.helper.gen \in {0, ses.reservation.gen}
              /\ op.pc \notin Late => ses.helper.gen = ses.reservation.gen
              /\ op.pc \in Closing => op.gen = ses.reservation.gen
         /\ ses.status = "handoff_closing" => op.pc \in Closing /\ ses.reservation.id # 0
         /\ ses.status = "handoff" => ses.helper.gen = 0 /\ op.pc = "settle" /\ ~op.err
BY DEF HandoffInv, HandoffTypeOK, OwnedInv, SessionOK

\* The operation goes on to pc.
Moved(pc, err) ==
  /\ DOMAIN op' = OpFields /\ op'.kind = op.kind /\ op'.id = op.id /\ op'.gen = op.gen
  /\ op'.round = op.round /\ op'.force = op.force /\ op'.was = op.was
  /\ op'.pc = pc /\ op'.err = err

LEMMA Moves ==
  ASSUME HandoffInv, NEW pc
  PROVE  /\ Goto(pc) => Moved(pc, op.err)
         /\ Raise(pc) => Moved(pc, TRUE)
         /\ \A err : op' = [op EXCEPT !.pc = pc, !.err = err] => Moved(pc, err)
BY DEF HandoffInv, HandoffTypeOK, Goto, Raise, Moved, OpFields

LEMMA Fails ==
  ASSUME HandoffInv, NEW early, FailTo(early)
  PROVE  \/ Opened /\ Moved("cleanup", TRUE)
         \/ ~Opened /\ early /\ op' = NoOp
         \/ ~Opened /\ ~early /\ Moved("settle", TRUE)
BY Moves DEF FailTo, Return

\* A step that goes on with the reservation, or lets it go.
LEMMA GoesOn ==
  ASSUME HandoffInv, op.pc # "none", UNCHANGED <<workers, spent>>,
         SessionOK(ses'), Calm(ses'.helper, ses.helper, op.id),
         NEW pc, NEW err \in BOOLEAN, Moved(pc, err), pc # "none",
         ses'.status \notin {"handoff", "handoff_closing"},
         ses'.helper.gen = ses.helper.gen \/ (pc \in Late /\ ses'.helper.gen = 0),
         ses'.reservation = ses.reservation \/ ses'.reservation = NoReservation,
         pc \notin Late => op.pc \notin Late, pc \in Closing => op.pc \in Closing,
         TerminalInv'
  PROVE  HandoffInv'
<1>1. NoReservation.id = 0 /\ NoOp.id = 0
  BY DEF NoReservation, NoOp
<1>2. op' # NoOp /\ op'.id # 0
  BY <1>1, Working DEF Moved
<1>3. OwnedInv'
  BY <1>1, <1>2, Working DEF OwnedInv, Moved, Closing, Late
<1>. QED  BY <1>1, <1>3, Working, StepKept DEF Moved

\* A step that ends the operation and leaves no reservation.
LEMMA Returns ==
  ASSUME HandoffInv, op.pc # "none", UNCHANGED <<workers, spent>>,
         SessionOK(ses'), Calm(ses'.helper, ses.helper, op.id), op' = NoOp,
         ses'.reservation = NoReservation, ses'.status # "handoff_closing",
         ses'.status = "handoff" => ses'.helper.gen = 0,
         terminals' \in 0..1, terminals' = 1 => ses'.status = "handoff"
  PROVE  HandoffInv'
<1>1. NoReservation.id = 0 /\ DOMAIN NoOp = OpFields
  BY DEF NoReservation, NoOp, OpFields
<1>2. /\ op'.id = 0 /\ op'.pc = "none" /\ op'.kind = "none" /\ op'.was = "none"
      /\ op'.round = 1 /\ op'.err \in BOOLEAN /\ op'.force \in BOOLEAN
  BY DEF NoOp
<1>3. OwnedInv'
  BY <1>1, <1>2 DEF OwnedInv
<1>4. TerminalInv'
  BY <1>2 DEF TerminalInv, Opened, Managed, Closing
<1>5. DOMAIN op' = OpFields /\ ses'.reservation.id \in {0, ses.reservation.id}
  BY <1>1
<1>6. /\ op'.id \in {0, op.id} /\ op'.err \in BOOLEAN
      /\ op'.round \in 1..2 /\ op'.force \in BOOLEAN
  BY <1>2
<1>. QED  BY <1>3, <1>4, <1>5, <1>6, StepKept

\* prepare_terminal_handoff_child, up to the wait.
LEMMA PrepareChildKept == ASSUME HandoffInv, PrepareChild PROVE HandoffInv'
<1>1. op.pc = "prepare" /\ UNCHANGED <<workers, spent, terminals>>
  BY DEF PrepareChild, At
<1>2. /\ SessionOK(ses) /\ DOMAIN op = OpFields /\ op.id # 0 /\ op.id \in Nat
      /\ ses.status \notin {"handoff", "handoff_closing"}
      /\ op.force \in BOOLEAN /\ op.err \in BOOLEAN
      /\ ses.reservation.id # 0 => Valid(ses, op.id, FALSE)
  BY <1>1, Working DEF Closing, Late, Valid
<1>3. TerminalInv /\ (terminals = 1 <=> Opened)
  BY <1>1, <1>2 DEF HandoffInv, TerminalInv
<1>4. Calm(ses.helper, ses.helper, op.id)
  BY CalmSame
<1>5. CASE ~Valid(ses, op.id, FALSE)
  <2>1. ses' = ses /\ FailTo(TRUE)
    BY <1>5 DEF PrepareChild
  <2>2. ses.reservation = NoReservation
    BY <1>2, <1>5 DEF SessionOK
  <2>3. CASE Opened /\ Moved("cleanup", TRUE)
    <3>1. TerminalInv'
      BY <1>1, <1>3, <2>1, <2>3 DEF TerminalInv, Moved, Opened, Managed, Closing
    <3>. QED  BY <1>1, <1>2, <1>4, <2>1, <2>3, <3>1, GoesOn DEF Late, Closing
  <2>4. CASE ~Opened /\ op' = NoOp
    BY <1>1, <1>2, <1>3, <1>4, <2>1, <2>2, <2>4, Returns DEF TerminalInv
  <2>. QED  BY <2>1, <2>3, <2>4, Fails
<1>6. CASE Valid(ses, op.id, FALSE) /\ ses.helper.gen = 0
  <2>. DEFINE err == ses.status \notin Rewindable
  <2>1. ses' = ses /\ Moved("check", err) /\ err \in BOOLEAN
    BY <1>6, Moves DEF PrepareChild
  <2>2. IdleHelper(ses.helper)
    BY <1>2, <1>6 DEF SessionOK, HelperOK, IdleHelper
  <2>. HIDE DEF err
  <2>3. TerminalInv'
    BY <1>1, <1>3, <2>1, <2>2 DEF TerminalInv, Moved, Opened, Managed, Closing
  <2>. QED  BY <1>1, <1>2, <1>4, <2>1, <2>3, GoesOn DEF Late, Closing
<1>7. CASE Valid(ses, op.id, FALSE) /\ ses.helper.gen # 0
  <2>1. /\ ses' = RequestPrepare(ses, op.id, op.force, ~Managed \/ Opened)
        /\ op' = [op EXCEPT !.pc = IF ses.helper.up THEN "await" ELSE "check",
                            !.err = ~ses.helper.up, !.gen = ses.helper.gen]
    BY <1>7 DEF PrepareChild
  <2>2. SessionOK(ses') /\ SameRecord(ses', ses) /\ Calm(ses'.helper, ses.helper, op.id)
    <3>1. (~Managed \/ Opened) \in BOOLEAN
      OBVIOUS
    <3>. QED  BY <1>2, <2>1, <3>1, PrepareOK
  <2>3. /\ DOMAIN op' = OpFields /\ op'.kind = op.kind /\ op'.id = op.id
        /\ op'.round = op.round /\ op'.force = op.force /\ op'.was = op.was
        /\ op'.pc \in {"await", "check"} /\ op'.err \in BOOLEAN
        /\ op'.pc = "check" => op'.err
    BY <1>2, <2>1 DEF OpFields
  <2>4. TerminalInv'
    BY <1>1, <1>3, <2>2, <2>3 DEF TerminalInv, SameRecord, Opened, Managed, Closing, Calm
  <2>5. op' # NoOp
    BY <1>2, <2>3 DEF NoOp
  <2>6. OwnedInv'
    BY <1>1, <1>2, <2>2, <2>3, <2>5, Working DEF OwnedInv, SameRecord, Closing, Late
  <2>. QED  BY <1>1, <1>2, <2>2, <2>3, <2>4, <2>6, Working, StepKept DEF SameRecord
<1>. QED  BY <1>5, <1>6, <1>7

\* await_child_prepare_stop: an operation that goes on because the helper was ready finds
\* it idle.
LEMMA AwaitKept ==
  ASSUME HandoffInv, AwaitLosesHelper \/ AwaitFindsAck \/ AwaitExpires PROVE HandoffInv'
<1>1. op.pc = "await" /\ UNCHANGED <<workers, spent, terminals>>
  BY DEF AwaitLosesHelper, AwaitFindsAck, AwaitExpires, At
<1>2. /\ SessionOK(ses) /\ DOMAIN op = OpFields /\ op.id # 0 /\ op.id \in Nat
      /\ ses.status \notin {"handoff", "handoff_closing"}
  BY <1>1, Working DEF Closing, Late
<1>3. TerminalInv /\ (terminals = 1 <=> Opened)
  BY <1>1, <1>2 DEF HandoffInv, TerminalInv
<1>4. ASSUME NEW err \in BOOLEAN, AwaitedTo(err),
             ~err => IdleHelper(ses.helper),
             SessionOK(ses'), SameRecord(ses', ses), Calm(ses'.helper, ses.helper, op.id)
      PROVE  HandoffInv'
  <2>1. PICK pc \in {"check", "settle", "complete"} :
          /\ Moved(pc, err)
          /\ pc = "check" <=> op.kind # "finish"
    <3>1. op.kind # "finish" => Moved("check", err)
      BY <1>4, Moves DEF AwaitedTo
    <3>2. op.kind = "finish" /\ err => Moved("settle", err)
      BY <1>4, Moves DEF AwaitedTo
    <3>3. op.kind = "finish" /\ ~err => Moved("complete", err)
      BY <1>4, Moves DEF AwaitedTo
    <3>. QED  BY <3>1, <3>2, <3>3
  <2>2. TerminalInv'
    BY <1>1, <1>3, <1>4, <2>1
       DEF TerminalInv, Moved, SameRecord, Opened, Managed, Closing, Calm
  <2>. QED  BY <1>1, <1>2, <1>4, <2>1, <2>2, GoesOn DEF SameRecord, Late, Closing
<1>5. CASE AwaitLosesHelper \/ AwaitExpires
  <2>1. ses' = ses /\ AwaitedTo(TRUE)
    BY <1>5 DEF AwaitLosesHelper, AwaitExpires
  <2>2. Calm(ses'.helper, ses.helper, op.id) /\ SameRecord(ses', ses)
    BY <2>1, CalmSame DEF SameRecord
  <2>. QED  BY <1>2, <1>4, <2>1, <2>2
<1>6. CASE AwaitFindsAck
  <2>1. PICK a \in ses.helper.acks :
          /\ a.id = op.id
          /\ ses' = [ses EXCEPT !.helper.acks = @ \ {a}]
          /\ AwaitedTo(~a.ready)
    BY <1>6 DEF AwaitFindsAck
  <2>. DEFINE g == [ses.helper EXCEPT !.acks = @ \ {a}]
  <2>2. a.ready \in BOOLEAN
    BY <1>2 DEF SessionOK, HelperOK
  <2>3. /\ HelperOK(g) /\ g.gen = ses.helper.gen /\ g.up = ses.helper.up
        /\ g.busy = ses.helper.busy /\ g.inbox = ses.helper.inbox
        /\ g.outbox = ses.helper.outbox /\ g.acks \subseteq ses.helper.acks
    BY <1>2 DEF SessionOK, HelperOK, HelperFields
  <2>4. ses' = [ses EXCEPT !.helper = g]
    BY <2>1
  <2>. HIDE DEF g
  <2>5. SessionOK(ses') /\ SameRecord(ses', ses) /\ ses'.helper = g
    BY <1>2, <2>3, <2>4, HelperChanged
  <2>6. Calm(ses'.helper, ses.helper, op.id)
    BY <2>3, <2>5, CalmSame
  <2>7. a.ready => IdleHelper(ses.helper)
    <3>1. a.ready => Said(ses.helper, op.id)
      BY <2>1 DEF Said
    <3>2. Fenced(ses.helper, op.id)
      BY <1>2 DEF HandoffInv, FenceInv
    <3>. QED  BY <3>1, <3>2 DEF Fenced
  <2>. QED  BY <1>4, <2>1, <2>2, <2>5, <2>6, <2>7
<1>. QED  BY <1>5, <1>6

\* ... and prepare_terminal_handoff_child after it.
LEMMA CheckKept == ASSUME HandoffInv, CheckPrepared PROVE HandoffInv'
<1>1. op.pc = "check" /\ UNCHANGED <<workers, spent, terminals>>
  BY DEF CheckPrepared, At
<1>2. /\ SessionOK(ses) /\ DOMAIN op = OpFields /\ op.id # 0 /\ op.id \in Nat
      /\ ses.status \notin {"handoff", "handoff_closing"} /\ op.err \in BOOLEAN
      /\ op.round \in 1..2 /\ ses.reservation.id \in {0, op.id}
      /\ ses.reservation.id = 0 => ses.reservation = NoReservation
  BY <1>1, Working DEF Closing, Late, SessionOK
<1>3. TerminalInv /\ (terminals = 1 <=> Opened) /\ (~op.err => IdleHelper(ses.helper))
  BY <1>1, <1>2 DEF HandoffInv, TerminalInv
<1>4. CASE op.err \/ ~Valid(ses, op.id, FALSE)
  <2>1. ses' = CancelPreparation(ses, op.id) /\ FailTo(TRUE)
    BY <1>4 DEF CheckPrepared
  <2>2. /\ SessionOK(ses') /\ Calm(ses'.helper, ses.helper, op.id)
        /\ ses'.status = ses.status /\ ses'.helper.gen = ses.helper.gen
        /\ ses'.reservation = NoReservation
    BY <1>2, <2>1, CancelOK
  <2>3. CASE Opened /\ Moved("cleanup", TRUE)
    <3>1. TerminalInv'
      BY <1>1, <1>3, <2>2, <2>3 DEF TerminalInv, Moved, Opened, Managed, Closing, Calm
    <3>. QED  BY <1>1, <1>2, <2>2, <2>3, <3>1, GoesOn DEF Late, Closing
  <2>4. CASE ~Opened /\ op' = NoOp
    BY <1>1, <1>2, <1>3, <2>2, <2>4, Returns DEF TerminalInv
  <2>. QED  BY <2>1, <2>3, <2>4, Fails
<1>5. CASE ~op.err /\ Valid(ses, op.id, FALSE)
  <2>. DEFINE pc == IF Managed /\ ~Opened THEN "open" ELSE "complete"
  <2>1. ses' = ses /\ Moved(pc, FALSE)
    <3>1. ses' = ses /\ Goto(pc) /\ op.err = FALSE
      BY <1>2, <1>5 DEF CheckPrepared
    <3>. HIDE DEF pc
    <3>. QED  BY <3>1, Moves
  <2>2. pc \in {"open", "complete"} /\ (pc = "open" <=> Managed /\ ~Opened)
    OBVIOUS
  <2>. HIDE DEF pc
  <2>3. TerminalInv'
    BY <1>1, <1>2, <1>3, <1>5, <2>1, <2>2 DEF TerminalInv, Moved, Opened, Managed, Closing
  <2>4. Calm(ses'.helper, ses.helper, op.id)
    BY <2>1, CalmSame
  <2>. QED  BY <1>1, <1>2, <2>1, <2>2, <2>3, <2>4, GoesOn DEF Late, Closing
<1>. QED  BY <1>2, <1>4, <1>5

\* A session whose status, or reservation, is written.
LEMMA StatusOK ==
  ASSUME NEW s, SessionOK(s), NEW status
  PROVE  /\ LET t == [s EXCEPT !.status = status]
            IN  /\ SessionOK(t) /\ t.helper = s.helper
                /\ t.reservation = s.reservation /\ t.status = status
         /\ LET t == [s EXCEPT !.status = status, !.pending = FALSE]
            IN  /\ SessionOK(t) /\ t.helper = s.helper
                /\ t.reservation = s.reservation /\ t.status = status
BY DEF SessionOK, SessionFields

LEMMA ReleaseOK ==
  ASSUME NEW s, SessionOK(s), NEW t, t = [s EXCEPT !.reservation = NoReservation], NEW id
  PROVE  /\ SessionOK(t) /\ Calm(t.helper, s.helper, id) /\ t.helper = s.helper
         /\ t.reservation = NoReservation /\ t.status = s.status
<1>1. /\ SessionOK(t) /\ t.helper = s.helper /\ t.reservation = NoReservation
      /\ t.status = s.status
  BY DEF SessionOK, SessionFields, NoReservation, ReservationFields
<1>. QED  BY <1>1, CalmSame

\* The managed caller opens its terminal beside a helper that is idle and stays so.
LEMMA OpenKept == ASSUME HandoffInv, OpenManaged PROVE HandoffInv'
<1>1. op.pc = "open" /\ UNCHANGED <<workers, spent>>
  BY DEF OpenManaged, At
<1>2. /\ SessionOK(ses) /\ DOMAIN op = OpFields /\ op.id # 0 /\ op.id \in Nat
      /\ ses.status \notin {"handoff", "handoff_closing"}
      /\ op.was \notin {"handoff", "handoff_closing"}
      /\ op.err \in BOOLEAN /\ op.force \in BOOLEAN
      /\ ses.reservation.id \in {0, op.id}
      /\ ses.reservation.id = 0 => ses.reservation = NoReservation
      /\ ses.reservation.id # 0 => Valid(ses, op.id, FALSE)
  BY <1>1, Working DEF Closing, Late, SessionOK, Valid
<1>3. Managed /\ op.round = 1 /\ IdleHelper(ses.helper) /\ terminals = 0
  BY <1>1, <1>2 DEF HandoffInv, TerminalInv, Opened
<1>4. CASE ~Valid(ses, op.id, FALSE)
  <2>1. op' = NoOp /\ ses' = ses /\ terminals' = terminals
    BY <1>4 DEF OpenManaged, Return
  <2>2. Calm(ses'.helper, ses.helper, op.id)
    BY <2>1, CalmSame
  <2>3. ses'.reservation = NoReservation /\ op.pc # "none"
    BY <1>1, <1>2, <1>4, <2>1
  <2>. QED  BY <1>1, <1>2, <1>3, <2>1, <2>2, <2>3, Returns
<1>5. CASE /\ ses' = CancelPreparation(Frozen(ses), op.id)
           /\ op' = NoOp /\ terminals' = terminals
  <2>. DEFINE s == Frozen(ses)
  <2>1. SessionOK(s) /\ SameRecord(s, ses) /\ Calm(s.helper, ses.helper, op.id)
    BY <1>2, FrozenOK
  <2>. HIDE DEF s
  <2>2. /\ SessionOK(ses') /\ Calm(ses'.helper, s.helper, op.id)
        /\ ses'.status = s.status /\ ses'.reservation = NoReservation
    <3>1. /\ SessionOK(ses') /\ Calm(ses'.helper, s.helper, op.id) /\ ses'.status = s.status
          /\ ses'.reservation = IF s.reservation.id = op.id THEN NoReservation
                                ELSE s.reservation
      BY <1>2, <1>5, <2>1, CancelOK DEF s
    <3>. QED  BY <1>2, <2>1, <3>1 DEF SameRecord
  <2>3. Calm(ses'.helper, ses.helper, op.id)
    BY <2>1, <2>2, CalmTwice
  <2>. QED  BY <1>1, <1>2, <1>3, <1>5, <2>1, <2>2, <2>3, Returns DEF SameRecord
<1>6. CASE /\ Valid(ses, op.id, FALSE)
           /\ ses' = Frozen(ses) /\ terminals' = terminals + 1
           /\ op' = [op EXCEPT !.pc = "prepare", !.round = 2, !.gen = ses.helper.gen]
  <2>1. SessionOK(ses') /\ SameRecord(ses', ses) /\ Calm(ses'.helper, ses.helper, op.id)
    BY <1>2, <1>6, FrozenOK
  <2>2. /\ DOMAIN op' = OpFields /\ op'.kind = op.kind /\ op'.id = op.id
        /\ op'.round = 2 /\ op'.force = op.force /\ op'.was = op.was
        /\ op'.pc = "prepare" /\ op'.err = op.err
    BY <1>2, <1>6 DEF OpFields
  <2>3. op' # NoOp
    BY <1>2, <2>2 DEF NoOp
  <2>4. OwnedInv'
    BY <1>1, <1>2, <2>1, <2>2, <2>3, Working DEF OwnedInv, SameRecord, Closing, Late
  <2>5. TerminalInv'
    BY <1>2, <1>3, <1>6, <2>1, <2>2
       DEF TerminalInv, SameRecord, Opened, Managed, Closing, Calm
  <2>. QED  BY <1>1, <1>2, <2>1, <2>2, <2>4, <2>5, StepKept DEF SameRecord
<1>. QED  BY <1>4, <1>5, <1>6 DEF OpenManaged, Return

\* complete_terminal_handoff and its managed sibling: the record says that it closes.
LEMMA CompleteKept == ASSUME HandoffInv, CompleteHandoff PROVE HandoffInv'
<1>1. op.pc = "complete" /\ UNCHANGED <<workers, spent, terminals>>
  BY DEF CompleteHandoff, At
<1>2. /\ SessionOK(ses) /\ DOMAIN op = OpFields /\ op.id # 0 /\ op.id \in Nat
      /\ ses.status \notin {"handoff", "handoff_closing"}
      /\ op.was \notin {"handoff", "handoff_closing"}
      /\ op.round \in 1..2 /\ op.err \in BOOLEAN /\ op.force \in BOOLEAN
      /\ ses.reservation.id \in {0, op.id}
      /\ ses.reservation.id = 0 => ses.reservation = NoReservation
      /\ ses.reservation.id # 0 => Valid(ses, op.id, FALSE)
  BY <1>1, Working DEF Closing, Late, SessionOK, Valid
<1>3. TerminalInv /\ (Managed => Opened)
  BY <1>1 DEF HandoffInv, TerminalInv
<1>4. ASSUME FailTo(FALSE), SessionOK(ses'), Calm(ses'.helper, ses.helper, op.id),
             ses'.status = ses.status, ses'.helper.gen = ses.helper.gen,
             ses'.reservation = ses.reservation \/ ses'.reservation = NoReservation
      PROVE  HandoffInv'
  <2>1. PICK pc \in {"cleanup", "settle"} :
          Moved(pc, TRUE) /\ (pc = "cleanup" <=> Opened)
    BY <1>4, Fails
  <2>2. TerminalInv'
    BY <1>1, <1>2, <1>3, <1>4, <2>1 DEF TerminalInv, Moved, Opened, Managed, Closing, Calm
  <2>. QED  BY <1>1, <1>2, <1>4, <2>1, <2>2, GoesOn DEF Late, Closing
<1>5. CASE ~Valid(ses, op.id, FALSE)
  <2>1. FailTo(FALSE) /\ ses' = ses
    BY <1>5 DEF CompleteHandoff
  <2>2. Calm(ses'.helper, ses.helper, op.id)
    BY <2>1, CalmSame
  <2>. QED  BY <1>2, <1>4, <2>1, <2>2
<1>6. CASE Valid(ses, op.id, FALSE) /\ TasksForbid(ses, op.force)
  <2>1. FailTo(FALSE) /\ ses' \in {ses, CancelPreparation(ses, op.id)}
    BY <1>6 DEF CompleteHandoff
  <2>2. /\ SessionOK(ses') /\ Calm(ses'.helper, ses.helper, op.id)
        /\ ses'.status = ses.status /\ ses'.helper.gen = ses.helper.gen
        /\ ses'.reservation = ses.reservation \/ ses'.reservation = NoReservation
    BY <1>2, <2>1, CancelOK, CalmSame
  <2>. QED  BY <1>4, <2>1, <2>2
<1>7. CASE Valid(ses, op.id, FALSE) /\ ~TasksForbid(ses, op.force)
  <2>. DEFINE s == Frozen(ses)
  <2>1. /\ ses' = [s EXCEPT !.status = "handoff_closing"]
        /\ op' = [op EXCEPT !.pc = "shutdown", !.gen = ses.helper.gen,
                            !.was = IF Managed THEN ses.status ELSE @]
    BY <1>7 DEF CompleteHandoff
  <2>2. SessionOK(s) /\ SameRecord(s, ses) /\ Calm(s.helper, ses.helper, op.id)
    BY <1>2, FrozenOK
  <2>. HIDE DEF s
  <2>3. /\ SessionOK(ses') /\ Calm(ses'.helper, s.helper, op.id)
        /\ ses'.status = "handoff_closing"
        /\ ses'.helper.gen = ses.helper.gen /\ ses'.reservation = ses.reservation
    <3>1. /\ SessionOK(ses') /\ ses'.helper = s.helper
          /\ ses'.reservation = s.reservation /\ ses'.status = "handoff_closing"
      BY <2>1, <2>2 DEF SessionOK, SessionFields
    <3>. QED  BY <2>2, <3>1, CalmSame DEF SameRecord
  <2>4. Calm(ses'.helper, ses.helper, op.id)
    BY <2>2, <2>3, CalmTwice
  <2>5. /\ DOMAIN op' = OpFields /\ op'.kind = op.kind /\ op'.id = op.id
        /\ op'.round = op.round /\ op'.force = op.force /\ op'.gen = ses.helper.gen
        /\ op'.pc = "shutdown" /\ op'.err = op.err
        /\ op'.was \notin {"handoff", "handoff_closing"}
    BY <1>2, <2>1 DEF OpFields
  <2>6. op' # NoOp
    BY <1>2, <2>5 DEF NoOp
  <2>7. ses.reservation.id = op.id /\ ses.helper.gen = ses.reservation.gen
    BY <1>7 DEF Valid
  <2>8. OwnedInv'
    BY <1>1, <1>2, <2>3, <2>5, <2>6, <2>7, Working DEF OwnedInv, Closing, Late
  <2>9. TerminalInv'
    BY <1>1, <1>2, <1>3, <2>3, <2>4, <2>5 DEF TerminalInv, Opened, Managed, Closing, Calm
  <2>. QED  BY <1>1, <1>2, <2>3, <2>4, <2>5, <2>8, <2>9, StepKept
<1>. QED  BY <1>5, <1>6, <1>7

\* While the record says that the handoff closes.
LEMMA ClosingGoesOn ==
  ASSUME HandoffInv, op.pc \in Closing, UNCHANGED <<workers, spent, terminals>>,
         SessionOK(ses'), Calm(ses'.helper, ses.helper, op.id),
         NEW pc \in Closing, NEW err \in BOOLEAN, Moved(pc, err),
         ses'.status = ses.status, ses'.helper.gen \in {0, ses.helper.gen},
         \/ ses'.reservation = ses.reservation
         \/ ses'.reservation = NoReservation /\ ses.status # "handoff_closing"
  PROVE  HandoffInv'
<1>1. NoReservation.id = 0 /\ NoOp.id = 0 /\ op.pc # "none" /\ pc # "none"
  BY DEF NoReservation, NoOp, Closing
<1>2. /\ DOMAIN op = OpFields /\ op.id # 0 /\ op.id \in Nat
      /\ op.was \notin {"handoff", "handoff_closing"}
      /\ op.round \in 1..2 /\ op.force \in BOOLEAN /\ ses.status # "handoff"
      /\ ses.reservation.id \in {0, op.id}
      /\ ses.reservation.id # 0 =>
           /\ ses.reservation.id <= spent.handoffs
           /\ ses.helper.gen \in {0, ses.reservation.gen}
           /\ op.gen = ses.reservation.gen
      /\ ses.status = "handoff_closing" => ses.reservation.id # 0
  BY <1>1, Working DEF Closing
<1>3. op' # NoOp /\ op'.id # 0
  BY <1>1, <1>2 DEF Moved
<1>4. OwnedInv'
  BY <1>1, <1>2, <1>3 DEF OwnedInv, Moved, Late
<1>5. TerminalInv'
  BY <1>2 DEF HandoffInv, TerminalInv, Moved, Opened, Managed, Closing, Calm
<1>. QED  BY <1>1, <1>2, <1>4, <1>5, StepKept DEF Moved

\* shutdown_terminal_handoff_child and the wait for the exit.
LEMMA ShutdownKept ==
  ASSUME HandoffInv, ShutdownChild \/ WaitExit \/ WaitExitExpires PROVE HandoffInv'
<1>1. op.pc \in {"shutdown", "waitExit"} /\ UNCHANGED <<workers, spent, terminals>>
  BY DEF ShutdownChild, WaitExit, WaitExitExpires, At
<1>2. /\ SessionOK(ses) /\ op.err \in BOOLEAN /\ op.force \in BOOLEAN /\ op.pc \in Closing
  BY <1>1, Working DEF Closing
<1>3. Calm(ses.helper, ses.helper, op.id)
  BY CalmSame
<1>4. PICK pc \in {"waitExit", "conclude"}, err \in BOOLEAN : Moved(pc, err)
  BY <1>2, Moves DEF ShutdownChild, WaitExit, WaitExitExpires
<1>5. pc \in Closing
  BY DEF Closing
<1>6. CASE ses' = ses
  BY <1>1, <1>2, <1>3, <1>4, <1>5, <1>6, ClosingGoesOn
<1>7. CASE ses' = Send(Frozen(ses), StopCommand(op.force))
  <2>. DEFINE s == Frozen(ses)
              c == StopCommand(op.force)
  <2>1. SessionOK(s) /\ SameRecord(s, ses) /\ Calm(s.helper, ses.helper, op.id)
    BY <1>2, FrozenOK
  <2>2. c \in Commands /\ c.kind = "stop"
    BY <1>2 DEF StopCommand, Commands
  <2>. HIDE DEF s, c
  <2>3. SessionOK(ses') /\ SameRecord(ses', s) /\ Calm(ses'.helper, s.helper, op.id)
    BY <1>7, <2>1, <2>2, SendOK DEF s, c
  <2>4. Calm(ses'.helper, ses.helper, op.id)
    BY <2>1, <2>3, CalmTwice
  <2>. QED  BY <1>1, <1>2, <1>4, <1>5, <2>1, <2>3, <2>4, ClosingGoesOn DEF SameRecord
<1>8. ASSUME NEW gen, ses' = RetireHandle(ses, gen) PROVE HandoffInv'
  <2>1. /\ SessionOK(ses') /\ Calm(ses'.helper, ses.helper, op.id)
        /\ ses'.status = ses.status
        /\ IF gen = 0 \/ ses.helper.gen # gen THEN ses' = ses
           ELSE /\ ses'.helper.gen = 0
                /\ ses'.reservation =
                     IF ses.status # "handoff_closing" /\ ses.reservation.gen = ses.helper.gen
                     THEN NoReservation ELSE ses.reservation
    <3>1. Retires(ses, gen, op.id, ses')
      BY <1>2, <1>8, RetireOK
    <3>. QED  BY <3>1 DEF Retires
  <2>2. ses'.helper.gen \in {0, ses.helper.gen}
    BY <2>1
  <2>3. \/ ses'.reservation = ses.reservation
        \/ ses'.reservation = NoReservation /\ ses.status # "handoff_closing"
    BY <2>1
  <2>. QED  BY <1>1, <1>2, <1>4, <1>5, <2>1, <2>2, <2>3, ClosingGoesOn
<1>. QED  BY <1>6, <1>7, <1>8 DEF ShutdownChild, WaitExit, WaitExitExpires

\* A shutdown that failed gives the record back the status it had.
LEMMA ConcludeKept == ASSUME HandoffInv, ConcludeFailed PROVE HandoffInv'
<1>1. op.pc = "conclude" /\ UNCHANGED <<workers, spent, terminals>> /\ FailTo(FALSE)
  BY DEF ConcludeFailed, At
<1>2. /\ SessionOK(ses) /\ DOMAIN op = OpFields /\ op.id # 0 /\ op.id \in Nat
      /\ op.was \notin {"handoff", "handoff_closing"} /\ ses.status # "handoff"
      /\ ses.status = "handoff_closing" => Valid(ses, op.id, TRUE)
  BY <1>1, Working DEF Closing, Late, Valid
<1>3. TerminalInv /\ (Managed => Opened)
  BY <1>1 DEF HandoffInv, TerminalInv, Closing
<1>4. /\ SessionOK(ses') /\ Calm(ses'.helper, ses.helper, op.id)
      /\ ses'.status \notin {"handoff", "handoff_closing"}
      /\ ses'.helper.gen = ses.helper.gen
      /\ ses'.reservation = ses.reservation \/ ses'.reservation = NoReservation
  <2>1. CASE ~Valid(ses, op.id, TRUE)
    <3>1. ses' = ses
      BY <2>1 DEF ConcludeFailed
    <3>. QED  BY <1>2, <2>1, <3>1, CalmSame
  <2>2. CASE Valid(ses, op.id, TRUE)
    <3>1. PICK s \in {ses, CancelPreparation(ses, op.id)} :
            ses' = [s EXCEPT !.status = op.was]
      BY <2>2 DEF ConcludeFailed
    <3>2. /\ SessionOK(s) /\ Calm(s.helper, ses.helper, op.id)
          /\ s.helper.gen = ses.helper.gen
          /\ s.reservation = ses.reservation \/ s.reservation = NoReservation
      <4>1. CASE s = ses
        <5>1. Calm(ses.helper, ses.helper, op.id)
          BY CalmSame
        <5>. QED  BY <1>2, <4>1, <5>1
      <4>2. CASE s = CancelPreparation(ses, op.id)
        BY <1>2, <4>2, CancelOK
      <4>. QED  BY <3>1, <4>1, <4>2
    <3>3. /\ SessionOK(ses') /\ ses'.helper = s.helper /\ ses'.reservation = s.reservation
          /\ ses'.status = op.was
      <4>1. SessionOK(s)
        BY <3>2
      <4>. QED  BY <3>1, <4>1 DEF SessionOK, SessionFields
    <3>. QED  BY <1>2, <3>2, <3>3
  <2>. QED  BY <2>1, <2>2
<1>5. PICK pc \in {"cleanup", "settle"} :
        Moved(pc, TRUE) /\ (pc = "cleanup" <=> Opened)
  BY <1>1, Fails
<1>6. TerminalInv'
  BY <1>1, <1>2, <1>3, <1>4, <1>5 DEF TerminalInv, Moved, Opened, Managed, Closing, Calm
<1>. QED  BY <1>1, <1>2, <1>4, <1>5, <1>6, GoesOn DEF Late, Closing

\* The helper of a handoff that is about to conclude is the one it closed, or gone.
LEMMA HandsOver ==
  ASSUME HandoffInv, op.pc = "conclude", Valid(ses, op.id, TRUE),
         NEW status \in {"handoff", "interrupted"}, NEW gen \in {op.gen, ses.helper.gen},
         NEW t, t = RetireHandle([ses EXCEPT !.status = status, !.pending = FALSE], gen)
  PROVE  /\ SessionOK(t) /\ Calm(t.helper, ses.helper, op.id) /\ t.status = status
         /\ t.helper.gen = 0
         /\ t.reservation = ses.reservation \/ t.reservation = NoReservation
<1>. DEFINE u == [ses EXCEPT !.status = status, !.pending = FALSE]
<1>1. /\ SessionOK(u) /\ u.helper = ses.helper
      /\ u.reservation = ses.reservation /\ u.status = status
  <2>1. SessionOK(ses)
    BY DEF HandoffInv, HandoffTypeOK
  <2>. QED  BY <2>1, StatusOK
<1>6. t = RetireHandle(u, gen)
  OBVIOUS
<1>2. /\ ses.helper.gen \in {0, ses.reservation.gen} /\ op.gen = ses.reservation.gen
  BY Working DEF Valid, Closing
<1>. HIDE DEF u
<1>3. /\ SessionOK(t) /\ Calm(t.helper, u.helper, op.id) /\ t.status = u.status
      /\ IF gen = 0 \/ u.helper.gen # gen THEN t = u
         ELSE /\ t.helper.gen = 0
              /\ t.reservation = IF u.status # "handoff_closing" /\ u.reservation.gen = u.helper.gen
                                 THEN NoReservation ELSE u.reservation
  <2>1. Retires(u, gen, op.id, t)
    BY <1>1, <1>6, RetireOK
  <2>. QED  BY <2>1 DEF Retires
<1>4. t.helper.gen = 0
  BY <1>1, <1>2, <1>3
<1>5. Calm(t.helper, ses.helper, op.id)
  BY <1>1, <1>3
<1>. QED  BY <1>1, <1>3, <1>4, <1>5

\* launch_terminal_for_native_handoff, and the end of a managed handoff.
LEMMA LaunchKept == ASSUME HandoffInv, LaunchDirect \/ CommitManaged PROVE HandoffInv'
<1>1. /\ op.pc = "conclude" /\ UNCHANGED <<workers, spent>> /\ ~op.err
      /\ Valid(ses, op.id, TRUE)
  BY DEF LaunchDirect, CommitManaged, At
<1>2. /\ DOMAIN op = OpFields /\ op.id # 0 /\ op.id \in Nat /\ ses.status # "handoff"
      /\ op.was \notin {"handoff", "handoff_closing"}
      /\ op.err \in BOOLEAN /\ op.round \in 1..2 /\ op.force \in BOOLEAN
      /\ ses.reservation.id \in {0, op.id}
      /\ ses.reservation.id # 0 => ses.reservation.id <= spent.handoffs
  BY <1>1, Working
<1>3. TerminalInv /\ (Managed => Opened) /\ (~Managed => terminals = 0)
  BY <1>1, <1>2 DEF HandoffInv, TerminalInv, Closing, Opened
<1>4. NoReservation.id = 0 /\ NoOp.id = 0
  BY DEF NoReservation, NoOp
<1>5. CASE /\ LaunchDirect /\ terminals' = terminals + 1
           /\ ses' = HandedOver(ses, op.gen) /\ Goto("settle")
  <2>1. /\ SessionOK(ses') /\ Calm(ses'.helper, ses.helper, op.id)
        /\ ses'.status = "handoff" /\ ses'.helper.gen = 0
        /\ ses'.reservation = ses.reservation \/ ses'.reservation = NoReservation
    BY <1>1, <1>5, HandsOver DEF HandedOver
  <2>2. Moved("settle", op.err) /\ ~Managed
    BY <1>5, Moves DEF LaunchDirect
  <2>3. op' # NoOp
    BY <1>2, <1>4, <2>2 DEF Moved
  <2>4. OwnedInv'
    BY <1>1, <1>2, <1>4, <2>1, <2>2, <2>3 DEF OwnedInv, Moved, Late, Closing
  <2>5. TerminalInv'
    BY <1>3, <1>5, <2>1, <2>2 DEF TerminalInv, Moved, Opened, Managed, Closing
  <2>. QED  BY <1>1, <1>2, <1>4, <2>1, <2>2, <2>4, <2>5, StepKept DEF Moved
<1>6. CASE /\ LaunchDirect /\ terminals' = terminals /\ Raise("settle")
           /\ ses' = RetireHandle([ses EXCEPT !.status = "interrupted", !.pending = FALSE],
                                  op.gen)
  <2>1. /\ SessionOK(ses') /\ Calm(ses'.helper, ses.helper, op.id)
        /\ ses'.status = "interrupted" /\ ses'.helper.gen = 0
        /\ ses'.reservation = ses.reservation \/ ses'.reservation = NoReservation
    BY <1>1, <1>6, HandsOver
  <2>2. Moved("settle", TRUE) /\ ~Managed
    BY <1>6, Moves DEF LaunchDirect
  <2>3. TerminalInv'
    BY <1>3, <1>6, <2>1, <2>2 DEF TerminalInv, Moved, Opened, Managed, Closing
  <2>. QED  BY <1>1, <2>1, <2>2, <2>3, GoesOn DEF Late, Closing
<1>7. CASE CommitManaged
  <2>. DEFINE t == HandedOver(ses, ses.helper.gen)
  <2>1. /\ SessionOK(t) /\ Calm(t.helper, ses.helper, op.id)
        /\ t.status = "handoff" /\ t.helper.gen = 0
    BY <1>1, HandsOver DEF HandedOver
  <2>2. /\ ses' = [t EXCEPT !.reservation = NoReservation] /\ op' = NoOp
        /\ terminals' = terminals
    BY <1>7 DEF CommitManaged, Return
  <2>. HIDE DEF t
  <2>3. /\ SessionOK(ses') /\ Calm(ses'.helper, t.helper, op.id) /\ ses'.helper = t.helper
        /\ ses'.reservation = NoReservation /\ ses'.status = "handoff"
    BY <2>1, <2>2, ReleaseOK
  <2>. QED  BY <1>1, <1>3, <2>1, <2>2, <2>3, Returns DEF TerminalInv
<1>. QED  BY <1>5, <1>6, <1>7 DEF LaunchDirect

\* The ends of the operations.
LEMMA SettleKept == ASSUME HandoffInv, SettleHandoff PROVE HandoffInv'
<1>1. /\ op.pc = "settle" /\ UNCHANGED <<workers, spent, terminals>> /\ op' = NoOp
  BY DEF SettleHandoff, At, Return
<1>2. /\ SessionOK(ses) /\ op.id \in Nat /\ ses.status # "handoff_closing"
      /\ ses.status = "handoff" => ses.helper.gen = 0 /\ ~op.err
      /\ ses.reservation.id \in {0, op.id}
      /\ ses.reservation.id = 0 => ses.reservation = NoReservation
  BY <1>1, Working DEF Closing, SessionOK
<1>3. terminals \in 0..1 /\ (terminals = 1 => ses.status = "handoff")
  BY <1>1 DEF HandoffInv, TerminalInv, Opened
<1>4. CASE op.err
  <2>1. ses' = FailPending(ses, op.id)
    BY <1>4 DEF SettleHandoff
  <2>2. /\ SessionOK(ses') /\ Calm(ses'.helper, ses.helper, op.id)
        /\ ses'.status \in {ses.status, "ready"}
        /\ ses'.reservation = IF ses.reservation.id = op.id THEN NoReservation
                              ELSE ses.reservation
    BY <1>2, <2>1, FailOK
  <2>. QED  BY <1>1, <1>2, <1>3, <1>4, <2>2, Returns
<1>5. CASE ~op.err
  <2>1. ses' = [ses EXCEPT !.reservation = NoReservation]
    BY <1>5 DEF SettleHandoff
  <2>. QED  BY <1>1, <1>2, <1>3, <2>1, ReleaseOK, Returns
<1>. QED  BY <1>4, <1>5

LEMMA CleanupKept == ASSUME HandoffInv, CleanupManaged PROVE HandoffInv'
<1>1. /\ op.pc = "cleanup" /\ UNCHANGED <<workers, spent>> /\ ses' = ses
      /\ terminals' = terminals - 1
  BY DEF CleanupManaged, At
<1>2. /\ SessionOK(ses) /\ ses.status \notin {"handoff", "handoff_closing"}
      /\ op.err \in BOOLEAN
  BY <1>1, Working DEF Closing
<1>3. Moved("rollback", op.err) /\ Calm(ses'.helper, ses.helper, op.id)
  BY <1>1, Moves, CalmSame DEF CleanupManaged
<1>4. TerminalInv'
  BY <1>1, <1>2, <1>3 DEF HandoffInv, TerminalInv, Moved, Opened, Managed, Closing
<1>. QED  BY <1>1, <1>2, <1>3, <1>4, GoesOn DEF Late, Closing

LEMMA RollbackKept == ASSUME HandoffInv, RollbackManaged PROVE HandoffInv'
<1>1. /\ op.pc = "rollback" /\ UNCHANGED <<workers, spent, terminals>> /\ op' = NoOp
  BY DEF RollbackManaged, At, Return
<1>2. /\ SessionOK(ses) /\ op.id \in Nat
      /\ ses.status \notin {"handoff", "handoff_closing"}
      /\ ses.reservation.id \in {0, op.id}
      /\ ses.reservation.id = 0 => ses.reservation = NoReservation
  BY <1>1, Working DEF Closing, SessionOK
<1>3. terminals = 0
  BY <1>1, <1>2 DEF HandoffInv, TerminalInv
<1>. DEFINE s == CancelPreparation(ses, op.id)
            g == [s.helper EXCEPT !.alive = TRUE]
<1>4. /\ SessionOK(s) /\ Calm(s.helper, ses.helper, op.id) /\ s.status = ses.status
      /\ s.reservation = IF ses.reservation.id = op.id THEN NoReservation ELSE ses.reservation
  BY <1>2, CancelOK
<1>5. ses' = s \/ ses' = [s EXCEPT !.helper = g]
  BY DEF RollbackManaged
<1>. HIDE DEF s
<1>6. /\ HelperOK(g) /\ g.gen = s.helper.gen /\ g.up = s.helper.up /\ g.busy = s.helper.busy
      /\ g.inbox = s.helper.inbox /\ g.outbox = s.helper.outbox /\ g.acks = s.helper.acks
  BY <1>4 DEF SessionOK, HelperOK, HelperFields
<1>. HIDE DEF g
<1>7. Calm(g, s.helper, op.id)
  BY <1>6, CalmSame
<1>8. /\ SessionOK(ses') /\ Calm(ses'.helper, ses.helper, op.id) /\ ses'.status = ses.status
      /\ ses'.reservation = NoReservation
  <2>1. CASE ses' = s
    BY <1>2, <1>4, <2>1
  <2>2. CASE ses' = [s EXCEPT !.helper = g]
    <3>1. SessionOK(ses') /\ SameRecord(ses', s) /\ ses'.helper = g
      BY <1>4, <1>6, <2>2, HelperChanged
    <3>2. Calm(ses'.helper, ses.helper, op.id)
      BY <1>4, <1>7, <3>1, CalmTwice
    <3>. QED  BY <1>2, <1>4, <3>1, <3>2 DEF SameRecord
  <2>. QED  BY <1>5, <2>1, <2>2
<1>. QED  BY <1>1, <1>2, <1>3, <1>8, Returns

-----------------------------------------------------------------------------
(* Requests, and what else takes the lock.                                  *)

\* Without an operation and without a reservation.
LEMMA Resting ==
  ASSUME HandoffInv, op = NoOp
  PROVE  /\ SessionOK(ses) /\ ses.status # "handoff_closing"
         /\ ses.status = "handoff" => ses.helper.gen = 0
         /\ terminals \in 0..1 /\ (terminals = 1 => ses.status = "handoff")
         /\ spent.handoffs \in Nat /\ DOMAIN spent = SpentFields
         /\ ses.reservation.id # 0 =>
              Waiting /\ ses.helper.gen = ses.reservation.gen
              /\ ses.reservation.id <= spent.handoffs
<1>1. /\ op.pc = "none" /\ op.id = 0 /\ op.kind = "none"
  BY DEF NoOp
<1>. QED
  BY <1>1 DEF HandoffInv, HandoffTypeOK, OwnedInv, TerminalInv, Opened, Managed, Closing, Late

\* A new reservation: nobody has spoken of its number.
LEMMA RequestKept ==
  ASSUME HandoffInv, NEW force \in BOOLEAN, RequestDirect(force) \/ RequestManaged(force)
  PROVE  HandoffInv'
<1>. DEFINE n == spent.handoffs + 1
<1>1. /\ op = NoOp /\ ses.reservation = NoReservation
      /\ ses.status \notin {"stopped", "error", "handoff"} \cup HandoffStatus
      /\ UNCHANGED <<workers, terminals>> /\ spent' = [spent EXCEPT !["handoffs"] = @ + 1]
  BY DEF RequestDirect, RequestManaged, MayReserve, Spend
<1>2. /\ SessionOK(ses) /\ DOMAIN spent = SpentFields /\ spent.handoffs \in Nat
      /\ spent.helpers \in Nat /\ terminals = 0
      /\ \A w \in workers : w.id \in 1..spent.handoffs
  BY <1>1, Resting DEF HandoffInv, HandoffTypeOK
<1>3. /\ DOMAIN spent' = SpentFields /\ spent'.handoffs = n /\ spent'.helpers = spent.helpers
      /\ n \in Nat /\ n # 0 /\ spent.handoffs < n
  BY <1>1, <1>2 DEF SpentFields
<1>. DEFINE r == [id |-> n, gen |-> ses.helper.gen, claimed |-> FALSE]
<1>4. DOMAIN r = ReservationFields /\ r.id = n /\ r # NoReservation
      /\ r.gen = ses.helper.gen /\ ~r.claimed
  BY <1>2 DEF ReservationFields, NoReservation
<1>5. Reserved = [ses EXCEPT !.reservation = r]
  BY DEF Reserved, NewId
<1>. HIDE DEF r, n
<1>. DEFINE Begun == /\ DOMAIN op' = OpFields /\ op'.err \in BOOLEAN /\ op'.round = 1
                     /\ op'.force \in BOOLEAN /\ op'.was \in {"none", ses.status}
                     /\ op'.id = n /\ op'.pc = "prepare"
<1>6. \/ ses' = [ses EXCEPT !.reservation = r] /\ Begun
      \/ /\ ses' = [[ses EXCEPT !.reservation = r] EXCEPT
                      !.status = "handoff_pending", !.pending = TRUE, !.force = force]
         /\ op' = NoOp
  <2>1. CASE RequestManaged(force)
    <3>1. /\ ses' = [ses EXCEPT !.reservation = r]
          /\ op' = [NoOp EXCEPT !.kind = "managed", !.pc = "prepare", !.id = n,
                                !.force = force]
      BY <1>5, <2>1 DEF RequestManaged, NewId, n
    <3>2. Begun
      BY <3>1 DEF NoOp, OpFields
    <3>. QED  BY <3>1, <3>2
  <2>2. CASE RequestDirect(force)
    <3>1. CASE ses.sid
      <4>1. /\ ses' = [ses EXCEPT !.reservation = r]
            /\ op' = [NoOp EXCEPT !.kind = "direct", !.pc = "prepare", !.id = n,
                                  !.force = force, !.was = ses.status]
        BY <1>5, <2>2, <3>1 DEF RequestDirect, NewId, n
      <4>2. Begun
        BY <4>1 DEF NoOp, OpFields
      <4>. QED  BY <4>1, <4>2
    <3>2. CASE ~ses.sid
      <4>1. ses' = [Reserved EXCEPT !.status = "handoff_pending", !.pending = TRUE,
                                    !.force = force]
        BY <2>2, <3>2 DEF RequestDirect
      <4>2. op' = NoOp
        BY <1>1, <2>2, <3>2 DEF RequestDirect
      <4>. QED  BY <1>5, <4>1, <4>2
    <3>. QED  BY <3>1, <3>2
  <2>. QED  BY <2>1, <2>2
<1>7. /\ SessionOK(ses') /\ ses'.helper = ses.helper /\ ses'.reservation = r
      /\ \/ ses'.status = ses.status
         \/ ses'.status = "handoff_pending" /\ ses'.pending /\ op' = NoOp
      /\ op' = NoOp => ses'.status = "handoff_pending" /\ ses'.pending
  <2>1. CASE ses' = [ses EXCEPT !.reservation = r] /\ op' # NoOp
    BY <1>2, <1>3, <1>4, <2>1 DEF SessionOK, SessionFields
  <2>2. CASE /\ ses' = [[ses EXCEPT !.reservation = r] EXCEPT
                          !.status = "handoff_pending", !.pending = TRUE, !.force = force]
             /\ op' = NoOp
    <3>. DEFINE s == [ses EXCEPT !.reservation = r]
    <3>1. DOMAIN s = SessionFields /\ s.helper = ses.helper /\ s.reservation = r /\ s.sid = ses.sid
      BY <1>2 DEF SessionOK, SessionFields
    <3>. HIDE DEF s
    <3>2. /\ DOMAIN ses' = SessionFields /\ ses'.helper = ses.helper /\ ses'.reservation = r
          /\ ses'.sid = ses.sid /\ ses'.force = force
          /\ ses'.status = "handoff_pending" /\ ses'.pending
      BY <2>2, <3>1 DEF s, SessionFields
    <3>. QED  BY <1>2, <1>3, <1>4, <2>2, <3>2 DEF SessionOK
  <2>3. Begun => op' # NoOp
    BY <1>3 DEF NoOp
  <2>. QED  BY <1>6, <2>1, <2>2, <2>3
<1>8. /\ DOMAIN op' = OpFields /\ op'.err \in BOOLEAN /\ op'.round = 1 /\ op'.force \in BOOLEAN
      /\ op'.was \in {"none", ses.status}
      /\ \/ op' = NoOp /\ op'.id = 0 /\ op'.pc = "none"
         \/ op' # NoOp /\ op'.id = n /\ op'.pc = "prepare"
  <2>1. CASE op' = NoOp
    BY <2>1 DEF NoOp, OpFields
  <2>2. CASE Begun
    BY <1>3, <2>2 DEF NoOp
  <2>. QED  BY <1>6, <2>1, <2>2
<1>9. HandoffTypeOK'
  BY <1>1, <1>2, <1>3, <1>7, <1>8 DEF HandoffTypeOK
<1>10. OwnedInv'
  <2>1. ses'.status \notin {"handoff", "handoff_closing"}
    BY <1>1, <1>7 DEF HandoffStatus
  <2>2. op'.was \notin {"handoff", "handoff_closing"}
    BY <1>1, <1>8 DEF HandoffStatus
  <2>3. op' = NoOp => Waiting'
    BY <1>4, <1>7 DEF Waiting
  <2>. QED  BY <1>3, <1>4, <1>7, <1>8, <2>1, <2>2, <2>3 DEF OwnedInv, Closing, Late
<1>11. FenceInv'
  <2>1. \A k : Said(ses.helper, k) \/ Asked(ses.helper, k) => k <= spent.handoffs
    BY DEF HandoffInv, FenceInv
  <2>2. \A k : Said(ses.helper, k) \/ Asked(ses.helper, k) => k <= n
    <3>1. ASSUME NEW k, Said(ses.helper, k) \/ Asked(ses.helper, k) PROVE k \in Nat
      <4>1. HelperOK(ses.helper)
        BY <1>2 DEF SessionOK
      <4>2. \A a \in ses.helper.acks : a.id \in Nat
        BY <4>1 DEF HelperOK
      <4>3. \A i \in DOMAIN ses.helper.inbox : ses.helper.inbox[i].id \in Nat
        <5>1. \A i \in DOMAIN ses.helper.inbox : ses.helper.inbox[i] \in Commands
          BY <4>1 DEF HelperOK
        <5>2. \A c \in Commands : c.id \in Nat
          BY DEF Commands
        <5>. QED  BY <5>1, <5>2
      <4>4. \A i \in DOMAIN ses.helper.outbox : ses.helper.outbox[i] \in Lines
        BY <4>1 DEF HelperOK
      <4>5. \A l \in Lines : l.kind = "ack" => l.id \in Nat
        BY DEF Lines
      <4>. QED  BY <3>1, <4>2, <4>3, <4>4, <4>5 DEF Said, Asked
    <3>. QED  BY <1>2, <1>3, <2>1, <3>1
  <2>3. ~Said(ses.helper, n) /\ ~Asked(ses.helper, n)
    BY <1>2, <1>3, <2>1
  <2>4. Fenced(ses.helper, n)
    BY <2>3 DEF Fenced, Asked
  <2>. QED  BY <1>3, <1>4, <1>7, <1>8, <2>2, <2>4 DEF FenceInv
<1>12. TerminalInv'
  BY <1>1, <1>2, <1>7, <1>8 DEF TerminalInv, Opened, Managed, Closing, HandoffStatus
<1>. QED  BY <1>9, <1>10, <1>11, <1>12 DEF HandoffInv

\* A prompt is sent when there is neither an operation nor a reservation.
LEMMA PromptKept == ASSUME HandoffInv, SendPrompt PROVE HandoffInv'
<1>1. /\ op = NoOp /\ op' = NoOp /\ ses.reservation = NoReservation
      /\ ses.status \notin {"stopped", "error", "handoff"} \cup HandoffStatus
      /\ UNCHANGED <<workers, terminals>>
      /\ spent' = [spent EXCEPT !.prompts = @ + 1,
                                !.helpers = IF ses.helper.alive THEN @ ELSE @ + 1]
  BY DEF SendPrompt
<1>2. /\ SessionOK(ses) /\ DOMAIN spent = SpentFields /\ spent.handoffs \in Nat
      /\ spent.helpers \in Nat /\ terminals = 0
      /\ \A w \in workers : w.id \in 1..spent.handoffs
  BY <1>1, Resting DEF HandoffInv, HandoffTypeOK
<1>3. /\ DOMAIN spent' = SpentFields /\ spent'.handoffs = spent.handoffs
      /\ spent'.helpers \in Nat
  BY <1>1, <1>2 DEF SpentFields
<1>. DEFINE s == IF ses.helper.alive THEN ses ELSE Reconnected(ses)
            Quieter(h) == \A k : Said(h, k) \/ Asked(h, k) =>
                                   Said(ses.helper, k) \/ Asked(ses.helper, k)
            Usable(t) == /\ SessionOK(t) /\ Quieter(t.helper)
                         /\ t.reservation = NoReservation
                         /\ t.status \in {ses.status, "initializing"}
<1>4. ses' \in {Send(s, Prompt), [s EXCEPT !.doubt = TRUE],
                [Send(s, Prompt) EXCEPT !.doubt = TRUE]}
  BY DEF SendPrompt
<1>5. Usable(s)
  <2>1. CASE ses.helper.alive
    BY <1>1, <1>2, <2>1
  <2>2. CASE ~ses.helper.alive
    <3>. DEFINE r == RetireHandle(ses, ses.helper.gen)
                out == (IF ses.sid THEN <<[kind |-> "meta"]>> ELSE <<>>)
                         \o <<[kind |-> "ready"]>>
                g == [NoHandle EXCEPT !.gen = spent.helpers + 1, !.alive = TRUE, !.up = TRUE,
                                      !.outbox = out]
    <3>1. /\ SessionOK(r) /\ r.status = ses.status /\ r.reservation = NoReservation
      <4>1. Retires(ses, ses.helper.gen, 0, r)
        BY <1>1, <1>2, RetireOK
      <4>. HIDE DEF r
      <4>. QED  BY <1>1, <1>2, <4>1 DEF Retires
    <3>2. /\ [kind |-> "meta"] \in Lines /\ [kind |-> "ready"] \in Lines
          /\ [kind |-> "meta"].kind = "meta" /\ [kind |-> "ready"].kind = "ready"
      BY DEF Lines
    <3>3. /\ out \in Seq(Lines)
          /\ \A i \in DOMAIN out : out[i] \in {[kind |-> "meta"], [kind |-> "ready"]}
      <4>1. \/ out = <<[kind |-> "meta"]>> \o <<[kind |-> "ready"]>>
            \/ out = <<>> \o <<[kind |-> "ready"]>>
        OBVIOUS
      <4>. HIDE DEF out
      <4>2. LinesAre(out, [kind |-> "meta"], [kind |-> "ready"])
        BY <3>2, <4>1, TwoLines
      <4>. QED  BY <4>2 DEF LinesAre
    <3>4. \A i \in DOMAIN out : out[i].kind # "ack"
      BY <3>2, <3>3
    <3>5. s = [r EXCEPT !.status = IF @ = "interrupted" THEN "initializing" ELSE @,
                        !.helper = g]
      BY <2>2 DEF Reconnected
    <3>. HIDE DEF r, out, s
    <3>6. /\ DOMAIN g = HelperFields /\ g.gen = spent.helpers + 1 /\ g.up \in BOOLEAN
          /\ g.busy \in BOOLEAN /\ g.tasks \in BOOLEAN /\ g.acks = {} /\ g.inbox = <<>>
          /\ g.outbox = out
      BY DEF NoHandle, HelperFields
    <3>. HIDE DEF g
    <3>7. HelperOK(g)
      BY <1>2, <3>3, <3>6 DEF HelperOK
    <3>8. \A k : ~Said(g, k) /\ ~Asked(g, k)
      BY <3>4, <3>6 DEF Said, Asked
    <3>9. /\ DOMAIN s = SessionFields /\ s.helper = g /\ s.reservation = r.reservation
          /\ s.force = r.force /\ s.sid = r.sid
          /\ s.status \in {r.status, "initializing"}
      BY <3>1, <3>5 DEF SessionOK, SessionFields
    <3>10. SessionOK(s)
      BY <3>1, <3>7, <3>9 DEF SessionOK
    <3>. QED  BY <3>1, <3>8, <3>9, <3>10
  <2>. QED  BY <2>1, <2>2
<1>. HIDE DEF s
<1>6. Usable(Send(s, Prompt))
  <2>1. CASE s.helper.up
    <3>. DEFINE h == s.helper
                g == [h EXCEPT !.inbox = Append(@, Prompt)]
    <3>1. Send(s, Prompt) = [s EXCEPT !.helper = g]
      BY <2>1 DEF Send
    <3>2. HelperOK(h) /\ Prompt \in Commands /\ Prompt.kind = "prompt"
      BY <1>5 DEF SessionOK, Prompt, Commands
    <3>3. /\ DOMAIN g = HelperFields /\ g.gen = h.gen /\ g.up = h.up /\ g.busy = h.busy
          /\ g.tasks = h.tasks /\ g.acks = h.acks /\ g.outbox = h.outbox
          /\ g.inbox = Append(h.inbox, Prompt)
      BY <3>2 DEF HelperOK, HelperFields
    <3>. HIDE DEF g
    <3>4. /\ Append(h.inbox, Prompt) \in Seq(Commands)
          /\ \A i \in DOMAIN Append(h.inbox, Prompt) :
               \/ i \in DOMAIN h.inbox /\ Append(h.inbox, Prompt)[i] = h.inbox[i]
               \/ Append(h.inbox, Prompt)[i] = Prompt
      BY <3>2 DEF HelperOK
    <3>5. HelperOK(g)
      BY <3>2, <3>3, <3>4 DEF HelperOK
    <3>6. \A k : Asked(g, k) => Asked(h, k)
      BY <3>2, <3>3, <3>4 DEF Asked
    <3>7. \A k : Said(g, k) => Said(h, k)
      BY <3>3 DEF Said
    <3>8. /\ SessionOK(Send(s, Prompt)) /\ SameRecord(Send(s, Prompt), s)
          /\ Send(s, Prompt).helper = g
      BY <1>5, <3>1, <3>3, <3>5, HelperChanged
    <3>. QED  BY <1>5, <3>6, <3>7, <3>8 DEF SameRecord
  <2>2. CASE ~s.helper.up
    BY <1>5, <2>2 DEF Send
  <2>. QED  BY <2>1, <2>2
<1>7. ASSUME NEW t, Usable(t) PROVE Usable([t EXCEPT !.doubt = TRUE])
  <2>. DEFINE u == [t EXCEPT !.doubt = TRUE]
  <2>1. /\ DOMAIN u = SessionFields /\ u.helper = t.helper /\ u.reservation = t.reservation
        /\ u.force = t.force /\ u.sid = t.sid /\ u.status = t.status
    BY <1>7 DEF SessionOK, SessionFields
  <2>. HIDE DEF u
  <2>2. SessionOK(u)
    BY <1>7, <2>1 DEF SessionOK
  <2>3. Usable(u)
    BY <1>7, <2>1, <2>2
  <2>. QED  BY <2>3 DEF u
<1>8. Usable(ses')
  <2>. HIDE DEF Usable
  <2>. QED  BY <1>4, <1>5, <1>6, <1>7
<1>9. /\ op'.id = 0 /\ op'.pc = "none" /\ op'.kind = "none" /\ op'.was = "none"
      /\ DOMAIN op' = OpFields /\ op'.round = 1 /\ op'.err \in BOOLEAN /\ op'.force \in BOOLEAN
  BY <1>1 DEF NoOp, OpFields
<1>10. NoReservation.id = 0
  BY DEF NoReservation
<1>11. HandoffTypeOK'
  BY <1>1, <1>2, <1>3, <1>8, <1>9 DEF HandoffTypeOK
<1>12. ses'.status \notin {"handoff", "handoff_closing"}
  BY <1>1, <1>8 DEF HandoffStatus
<1>13. OwnedInv'
  BY <1>1, <1>8, <1>9, <1>10, <1>12 DEF OwnedInv
<1>14. FenceInv'
  BY <1>3, <1>8, <1>9, <1>10 DEF FenceInv, HandoffInv
<1>15. TerminalInv'
  BY <1>1, <1>2, <1>9, <1>12 DEF TerminalInv, Opened, Managed, Closing
<1>. QED  BY <1>11, <1>13, <1>14, <1>15 DEF HandoffInv

\* A Stop of a prompt in doubt retires the helper, and a reservation with it.
LEMMA StopKept == ASSUME HandoffInv, StopDoubtful PROVE HandoffInv'
<1>. DEFINE s == RetireHandle(ses, ses.helper.gen)
            status == IF s.status \in Terminated \cup HandoffStatus THEN s.status ELSE "ready"
<1>1. op = NoOp /\ UNCHANGED <<op, workers, terminals, spent>>
      /\ ses' = [s EXCEPT !.status = status]
  BY DEF StopDoubtful
<1>2. /\ SessionOK(ses) /\ ses.status # "handoff_closing" /\ 0 \in 0..spent.handoffs
      /\ ses.status = "handoff" => ses.helper.gen = 0
      /\ ses.reservation.id # 0 =>
           Waiting /\ ses.helper.gen = ses.reservation.gen
      /\ ses.reservation.id = 0 => ses.reservation = NoReservation
  BY <1>1, Resting DEF SessionOK
<1>3. /\ SessionOK(s) /\ Calm(s.helper, ses.helper, 0) /\ s.status = ses.status
      /\ s.pending = ses.pending
      /\ IF ses.helper.gen = 0 THEN s = ses
         ELSE /\ s.helper.gen = 0
              /\ s.reservation = IF ses.reservation.gen = ses.helper.gen
                                 THEN NoReservation ELSE ses.reservation
  <2>1. /\ SessionOK(s) /\ Calm(s.helper, ses.helper, 0) /\ s.status = ses.status
        /\ s.pending = ses.pending
        /\ IF ses.helper.gen = 0 \/ ses.helper.gen # ses.helper.gen THEN s = ses
           ELSE /\ s.helper.gen = 0
                /\ s.reservation =
                     IF ses.status # "handoff_closing" /\ ses.reservation.gen = ses.helper.gen
                     THEN NoReservation ELSE ses.reservation
    <3>1. Retires(ses, ses.helper.gen, 0, s)
      BY <1>2, RetireOK
    <3>. HIDE DEF s
    <3>. QED  BY <3>1 DEF Retires
  <2>. HIDE DEF s
  <2>. QED  BY <1>2, <2>1
<1>4. /\ status \in {s.status, "ready"}
      /\ s.status \in {"handoff", "handoff_pending", "handoff_finalizing"} => status = s.status
  BY DEF Terminated, HandoffStatus
<1>. HIDE DEF status, s
<1>5. /\ SessionOK(ses') /\ ses'.helper = s.helper /\ ses'.reservation = s.reservation
      /\ ses'.status = status /\ ses'.pending = s.pending
  BY <1>1, <1>3 DEF SessionOK, SessionFields
<1>6. Calm(ses'.helper, ses.helper, 0)
  BY <1>3, <1>5
<1>7. RecordStep
  <2>1. CASE ses.reservation.id # 0
    BY <1>2, <1>3, <1>4, <1>5, <2>1 DEF RecordStep, Waiting
  <2>2. CASE ses.reservation.id = 0 /\ ses.status = "handoff"
    BY <1>2, <1>3, <1>4, <1>5, <2>2 DEF RecordStep
  <2>3. CASE ses.reservation.id = 0 /\ ses.status # "handoff"
    BY <1>2, <1>3, <1>4, <1>5, <2>3 DEF RecordStep
  <2>. QED  BY <2>1, <2>2, <2>3
<1>8. ses.status = "handoff" => ses'.status = "handoff"
  BY <1>3, <1>4, <1>5
<1>. QED  BY <1>1, <1>2, <1>5, <1>6, <1>7, <1>8, RecordKept DEF HandoffInv, HandoffTypeOK

\* The worker of a handoff that waited takes it up.
LEMMA FinishKept == ASSUME HandoffInv, StartFinish PROVE HandoffInv'
<1>1. op = NoOp /\ UNCHANGED <<terminals, spent>>
  BY DEF StartFinish
<1>2. PICK w \in workers :
        /\ workers' = workers \ {w}
        /\ IF ~Valid(ses, w.id, FALSE)
           THEN ses' = CancelPreparation(ses, w.id) /\ op' = op
           ELSE /\ UNCHANGED ses
                /\ op' = IF ~ses.pending THEN op
                         ELSE [NoOp EXCEPT !.kind = "finish", !.id = w.id, !.gen = w.gen,
                                 !.pc = IF w.gen # 0 THEN "await" ELSE "complete",
                                 !.force = ses.force, !.was = ses.status]
  BY DEF StartFinish
<1>3. /\ SessionOK(ses) /\ ses.status # "handoff_closing" /\ w.id \in 1..spent.handoffs
      /\ spent.handoffs \in Nat
      /\ terminals \in 0..1 /\ (terminals = 1 => ses.status = "handoff")
      /\ ses.status = "handoff" => ses.helper.gen = 0
      /\ ses.reservation.id # 0 =>
           Waiting /\ ses.helper.gen = ses.reservation.gen
           /\ ses.reservation.id <= spent.handoffs
  BY <1>1, Resting DEF HandoffInv, HandoffTypeOK
<1>4. /\ op.id = 0 /\ op.pc = "none" /\ op.kind = "none" /\ op.round = 1
      /\ NoOp.id = 0 /\ NoReservation.id = 0
  BY <1>1 DEF NoOp, NoReservation
<1>5. CASE ~Valid(ses, w.id, FALSE)
  \* The worker was started for a reservation that is gone.
  <2>1. ses' = CancelPreparation(ses, w.id) /\ op' = op
    BY <1>2, <1>5
  <2>2. ses.reservation.id # w.id
    BY <1>3, <1>5 DEF Valid
  <2>3. ses' = ses
    BY <2>1, <2>2 DEF CancelPreparation
  <2>4. HandoffTypeOK' /\ FenceInv' /\ TerminalInv'
    BY <1>1, <1>2, <2>1, <2>3
       DEF HandoffInv, HandoffTypeOK, FenceInv, TerminalInv, Opened, Managed
  <2>5. Waiting /\ ses.reservation.id # 0 => Waiting'
    BY <1>2, <2>2, <2>3 DEF Waiting
  <2>6. OwnedInv'
    BY <1>1, <1>3, <2>1, <2>3, <2>5 DEF HandoffInv, OwnedInv
  <2>. QED  BY <2>4, <2>6 DEF HandoffInv
<1>6. CASE Valid(ses, w.id, FALSE)
  <2>1. /\ ses.reservation.id = w.id /\ w.id # 0 /\ ses.pending
        /\ ses.status \in {"handoff_pending", "handoff_finalizing"}
    BY <1>3, <1>6 DEF Valid, Waiting
  <2>2. /\ ses' = ses
        /\ op' = [NoOp EXCEPT !.kind = "finish", !.id = w.id, !.gen = w.gen,
                    !.pc = IF w.gen # 0 THEN "await" ELSE "complete",
                    !.force = ses.force, !.was = ses.status]
    BY <1>2, <1>6, <2>1
  <2>3. /\ DOMAIN op' = OpFields /\ op'.kind = "finish" /\ op'.id = w.id
        /\ op'.pc \in {"await", "complete"} /\ op'.force = ses.force /\ op'.was = ses.status
        /\ op'.round = 1 /\ op'.err \in BOOLEAN
    BY <2>2 DEF NoOp, OpFields
  <2>4. op' # NoOp
    BY <1>4, <2>1, <2>3
  <2>5. HandoffTypeOK'
    BY <1>1, <1>2, <1>3, <2>2, <2>3 DEF HandoffInv, HandoffTypeOK, SessionOK
  <2>6. FenceInv'
    BY <1>1, <2>1, <2>2, <2>3 DEF HandoffInv, FenceInv
  <2>7. TerminalInv'
    BY <1>1, <1>3, <2>1, <2>2, <2>3 DEF TerminalInv, Opened, Managed, Closing
  <2>8. OwnedInv'
    BY <1>1, <1>3, <2>1, <2>2, <2>3, <2>4 DEF OwnedInv, Closing, Late
  <2>. QED  BY <2>5, <2>6, <2>7, <2>8 DEF HandoffInv
<1>. QED  BY <1>5, <1>6

-----------------------------------------------------------------------------
(* The theorems.                                                            *)

LEMMA HandoffInitInv == HandoffInit => HandoffInv
<1>. SUFFICES ASSUME HandoffInit PROVE HandoffInv
  OBVIOUS
<1>1. PICK known \in BOOLEAN :
        ses = [status |-> "ready", sid |-> known, pending |-> FALSE, force |-> FALSE,
               doubt |-> FALSE, reservation |-> NoReservation,
               helper |-> [NoHandle EXCEPT !.gen = 1, !.alive = TRUE, !.up = TRUE]]
  BY DEF HandoffInit
<1>2. /\ op = NoOp /\ workers = {} /\ terminals = 0
      /\ spent = [helpers |-> 1, handoffs |-> 0, prompts |-> 0, deaths |-> 0]
  BY DEF HandoffInit
<1>3. /\ op.id = 0 /\ op.pc = "none" /\ op.kind = "none" /\ op.was = "none"
      /\ DOMAIN op = OpFields /\ op.round = 1 /\ op.err \in BOOLEAN /\ op.force \in BOOLEAN
      /\ op.err \/ ~op.err
  BY <1>2 DEF NoOp, OpFields
<1>4. /\ DOMAIN spent = SpentFields /\ spent.handoffs = 0 /\ spent.helpers = 1
  BY <1>2 DEF SpentFields
<1>5. /\ DOMAIN ses = SessionFields /\ ses.status = "ready" /\ ses.sid \in BOOLEAN
      /\ ses.force \in BOOLEAN /\ ses.reservation = NoReservation
  BY <1>1 DEF SessionFields
<1>6. /\ DOMAIN ses.helper = HelperFields /\ ses.helper.gen = 1 /\ ses.helper.up \in BOOLEAN
      /\ ses.helper.busy \in BOOLEAN /\ ses.helper.tasks \in BOOLEAN
      /\ ses.helper.acks = {} /\ ses.helper.inbox = <<>> /\ ses.helper.outbox = <<>>
  BY <1>1 DEF NoHandle, HelperFields
<1>7. NoReservation.id = 0 /\ DOMAIN NoReservation = ReservationFields
  BY DEF NoReservation, ReservationFields
<1>8. HelperOK(ses.helper)
  <2>1. <<>> \in Seq(Commands) /\ <<>> \in Seq(Lines)
    OBVIOUS
  <2>. QED  BY <1>6, <2>1 DEF HelperOK
<1>9. HandoffTypeOK
  BY <1>2, <1>3, <1>4, <1>5, <1>7, <1>8 DEF HandoffTypeOK, SessionOK
<1>10. OwnedInv
  BY <1>2, <1>3, <1>5, <1>7 DEF OwnedInv
<1>11. FenceInv
  <2>1. \A k : ~Said(ses.helper, k) /\ ~Asked(ses.helper, k)
    BY <1>6 DEF Said, Asked
  <2>. QED  BY <1>3, <1>5, <1>7, <2>1 DEF FenceInv
<1>12. TerminalInv
  BY <1>2, <1>3 DEF TerminalInv, Opened, Managed, Closing
<1>. QED  BY <1>9, <1>10, <1>11, <1>12 DEF HandoffInv

LEMMA HandoffStepInv == HandoffInv /\ [HandoffNext]_handoffVars => HandoffInv'
<1>. SUFFICES ASSUME HandoffInv, [HandoffNext]_handoffVars PROVE HandoffInv'
  OBVIOUS
<1>1. CASE UNCHANGED handoffVars
  <2>1. ses' = ses /\ op' = op /\ workers' = workers /\ terminals' = terminals /\ spent' = spent
    BY <1>1 DEF handoffVars
  <2>. QED
    BY <2>1 DEF HandoffInv, HandoffTypeOK, OwnedInv, FenceInv, TerminalInv, Waiting, Opened,
       Managed
<1>2. CASE HandoffStep
  BY <1>2, PrepareChildKept, AwaitKept, CheckKept, OpenKept, CompleteKept, ShutdownKept,
     ConcludeKept, LaunchKept, SettleKept, CleanupKept, RollbackKept, FinishKept
     DEF HandoffStep
<1>. QED
  BY <1>1, <1>2, RequestKept, PromptKept, StopKept, LineKept, ExitKept, ReadsKept, EndsKept
     DEF HandoffNext

\* The invariant: a reservation is of the operation at work or waits for its helper, which
\* is there until the record says that it closes; no prompt is behind a preparation that
\* counts, so a helper that has answered it is idle; and a terminal that is open beside the
\* helper is open beside an idle one.
THEOREM HandoffInvariant == HandoffSpec => []HandoffInv
BY HandoffInitInv, HandoffStepInv, PTL DEF HandoffSpec

\* One conversation has one writer, for any number of helpers, handoffs, prompts and
\* deaths: at most one terminal, and no helper that works or has a prompt to read beside it.
THEOREM ConversationHasOneWriter == HandoffSpec => []OneWriter
<1>1. HandoffInv => OneWriter
  <2>. SUFFICES ASSUME HandoffInv PROVE OneWriter
    OBVIOUS
  <2>1. terminals \in 0..1 /\ HelperOK(ses.helper)
    BY DEF HandoffInv, TerminalInv, HandoffTypeOK, SessionOK
  <2>2. terminals = 1 => IdleHelper(ses.helper)
    <3>1. ses.status = "handoff" => ~ses.helper.up
      BY <2>1 DEF HandoffInv, OwnedInv, HelperOK
    <3>. QED  BY <3>1 DEF HandoffInv, TerminalInv, IdleHelper
  <2>3. Prompt.kind = "prompt"
    BY DEF Prompt
  <2>. QED  BY <2>1, <2>2, <2>3 DEF OneWriter, IdleHelper
<1>. QED  BY <1>1, HandoffInvariant, PTL

\* A reservation never outlives whoever will give it up, whenever the helper dies, its id
\* arrives or the operation runs into a limit.
THEOREM ReservationHasOwner == HandoffSpec => []ReservationIsOwned
<1>1. HandoffInv => ReservationIsOwned
  <2>. SUFFICES ASSUME HandoffInv, ses.reservation # NoReservation PROVE ReservationIsOwned
    BY DEF ReservationIsOwned
  <2>1. ses.reservation.id # 0
    BY DEF HandoffInv, HandoffTypeOK, SessionOK
  <2>2. CASE op = NoOp
    BY <2>1, <2>2, Resting DEF Waiting, ReservationIsOwned
  <2>3. CASE op # NoOp
    BY <2>1, <2>3 DEF HandoffInv, OwnedInv, ReservationIsOwned
  <2>. QED  BY <2>2, <2>3
<1>. QED  BY <1>1, HandoffInvariant, PTL
=============================================================================
