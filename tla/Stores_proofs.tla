------------------------------ MODULE Stores_proofs ------------------------------
(***************************************************************************)
(* Proofs about the two stores that threads and processes share, EventLog   *)
(* and CronRuns, for any set of readers and any bounds.                     *)
(***************************************************************************)
EXTENDS EventLog, CronRuns, FiniteSetTheorems, SequenceTheorems, TLAPS

(***************************************************************************)
(* The event log: no record is lost between the vector, the threads that    *)
(* write and the rows, no number is given twice by a store that started      *)
(* behind all records, and a reader that is not told of a gap has been       *)
(* given everything.                                                        *)
(***************************************************************************)
Kinds == {"text", "ask", "answer", "end"}
Event == [seq : Nat, kind : Kinds, of : Nat, gen : Nat]

Stages == {"idle", "flush", "write", "restore", "read"}
Reasons == {"append", "page", "newest"}
ViewStates == {"open", "partial", "gap", "complete"}

LogThreads == Readers \cup {"session"}
StoreFields == [gen : Nat, next : Nat, asked : SUBSET Nat, blind : BOOLEAN]

LogType ==
  /\ log = [waiting |-> log.waiting, rows |-> log.rows, attention |-> log.attention]
  /\ log.waiting \in Seq(Event) /\ log.rows \subseteq Event
  /\ appended \subseteq Event
  /\ store \in StoreFields
  /\ threads \in [LogThreads -> [pc : Stages, batch : Seq(Event), why : Reasons]]
  /\ views \in [Readers -> [after : Nat, snap : Nat, seen : SUBSET Nat,
                            state : ViewStates]]

\* A thread has records in its hands only while it writes them.
HandsAreEmpty ==
  \A t \in LogThreads :
    threads[t].pc \notin {"write", "restore"} => threads[t].batch = <<>>

\* The records that are not rows yet.
Held == Unflushed \cup Unwritten

\* A record is waiting, being written, a row, or there is a row with its number.
RecordOrItsNumber ==
  \A r \in appended :
    r \in log.rows \cup Unflushed \cup Unwritten \/ \E o \in log.rows : o.seq = r.seq

\* No number was given twice, unless a store did not know the newest one.
NumbersNameRecords ==
  ~store.blind => \A r, o \in appended : r.seq = o.seq => r = o

\* Records come from appending, rows differ in their numbers, and the numbers of records
\* have an upper bound, so there is a newest one.
RecordsOK ==
  /\ log.rows \cup Held \subseteq appended
  /\ \E n \in Nat : \A r \in appended : r.seq <= n
  /\ \A r, o \in log.rows : r.seq = o.seq => r = o
  /\ RecordOrItsNumber

\* The session's next number is behind every record, but while the session looks for it,
\* and after a store that did not know the newest number.
NumbersOK ==
  /\ threads["session"].pc = "idle" => threads["session"].why # "newest"
  /\ NumbersNameRecords
  /\ ~store.blind /\ threads["session"].why # "newest" =>
       \A r \in appended : r.seq < store.next

\* What a reader has been given has no gap up to its cursor, and only a view that is
\* still open is read.
ViewsHaveNoGap ==
  \A t \in Readers :
    /\ views[t].state \in {"open", "complete"} => 1..views[t].after \subseteq views[t].seen
    /\ views[t].state = "complete" => views[t].snap <= views[t].after
    /\ threads[t].pc # "idle" => views[t].state = "open"

LogInv ==
  /\ LogType
  /\ HandsAreEmpty
  /\ RecordsOK
  /\ NumbersOK
  /\ ViewsHaveNoGap

-----------------------------------------------------------------------------
\* A nonempty set of numbers has a least one.
LEMMA LeastNumber ==
  ASSUME NEW T \in SUBSET Nat, T # {}
  PROVE  \E m \in T : \A n \in T : m <= n
<1>1. PICK top \in T : TRUE
  OBVIOUS
<1>. DEFINE I == 0..top
            P == SUBSET I
            R == StrictSubsetOrdering(I)
            D == {0..k : k \in {k \in T : k <= top}}
<1>2. IsWellFoundedOn(R, P)
  <2>1. IsFiniteSet(I)
    BY <1>1, FS_Interval
  <2>. HIDE DEF I
  <2>2. FiniteSubsetsOf(I) = SUBSET I
    BY <2>1, FS_FiniteSubsetsOfFinite
  <2>3. IsWellFoundedOn(StrictSubsetOrdering(I), FiniteSubsetsOf(I))
    BY FS_StrictSubsetOrderingWellFounded
  <2>. QED  BY <2>2, <2>3
<1>3. D \subseteq P /\ D # {}
  BY <1>1
<1>4. PICK d \in D : \A e \in D : <<e, d>> \notin R
  <2>. HIDE DEF D, R, P
  <2>. QED  BY <1>2, <1>3, WFMin
<1>5. PICK m \in T : m <= top /\ d = 0..m
  BY <1>4
<1>6. ASSUME NEW n \in T, n < m PROVE FALSE
  <2>1. 0..n \in D /\ 0..n \subseteq 0..m /\ 0..n # 0..m
    BY <1>5, <1>6
  <2>2. <<0..n, d>> \in R
    BY <1>3, <1>4, <1>5, <2>1 DEF StrictSubsetOrdering
  <2>. QED  BY <1>4, <2>1, <2>2
<1>. QED  BY <1>5, <1>6

\* Inserting a batch keeps the rows and leaves no number of the batch out.
LEMMA InsertedNumbers ==
  ASSUME NEW rows, rows \subseteq Event, NEW batch, batch \in Seq(Event)
  PROVE  /\ Inserted(rows, batch) \subseteq Event
         /\ rows \subseteq Inserted(rows, batch)
         /\ \A r \in Inserted(rows, batch) :
              r \in rows \/ \E i \in 1..Len(batch) : r = batch[i]
         /\ \A i \in 1..Len(batch) : batch[i].seq \in Seqs(Inserted(rows, batch))
<1>1. \A i \in 1..Len(batch) : batch[i] \in Event
  BY ElementOfSeq
<1>2. ASSUME NEW i \in 1..Len(batch)
      PROVE  batch[i].seq \in Seqs(Inserted(rows, batch))
  <2>1. CASE batch[i].seq \in Seqs(rows)
    BY <2>1 DEF Inserted, Seqs
  <2>2. CASE batch[i].seq \notin Seqs(rows)
    <3>. DEFINE T == {j \in 1..Len(batch) : batch[j].seq = batch[i].seq}
    <3>1. PICK j \in T : \A k \in T : j <= k
      <4>1. T \in SUBSET Nat /\ T # {}
        BY LenProperties
      <4>. HIDE DEF T
      <4>. QED  BY <4>1, LeastNumber
    <3>2. \A k \in 1..(j - 1) : k \in 1..Len(batch) /\ ~(j <= k)
      BY <3>1, LenProperties
    <3>3. \A k \in 1..(j - 1) : batch[k].seq # batch[j].seq
      BY <3>1, <3>2
    <3>4. batch[j] \in Inserted(rows, batch)
      BY <2>2, <3>1, <3>3 DEF Inserted
    <3>. QED  BY <3>1, <3>4 DEF Seqs
  <2>. QED  BY <2>1, <2>2
<1>. QED  BY <1>1, <1>2 DEF Inserted

\* Rows whose numbers are bounded have a newest one.
LEMMA NewestIsNumber ==
  ASSUME NEW rows \in SUBSET Event, NEW N \in Nat, \A e \in rows : e.seq <= N
  PROVE  /\ Newest(rows) \in Nat
         /\ Newest(rows) <= N
         /\ \A e \in rows : e.seq <= Newest(rows)
<1>. DEFINE S == Seqs(rows) \cup {0}
            T == {n \in 0..N : \A m \in S : m <= n}
<1>1. S \subseteq 0..N
  BY DEF Seqs, Event
<1>2. PICK m \in T : \A n \in T : m <= n
  <2>1. T \in SUBSET Nat /\ N \in T
    BY <1>1
  <2>. HIDE DEF T
  <2>. QED  BY <2>1, LeastNumber
<1>3. m \in S
  <2>1. SUFFICES ASSUME m \notin S PROVE FALSE
    OBVIOUS
  <2>2. \A s \in S : s < m
    BY <1>1, <1>2, <2>1
  <2>3. m - 1 \in T
    BY <1>1, <1>2, <2>2
  <2>. QED  BY <1>2, <2>3
<1>4. \E n \in S : \A k \in Seqs(rows) : k <= n
  BY <1>2, <1>3
<1>5. Newest(rows) \in S /\ \A k \in Seqs(rows) : k <= Newest(rows)
  BY <1>4 DEF Newest
<1>. QED  BY <1>1, <1>5 DEF Seqs, Event

\* Rows that differ in their numbers still do when a batch is inserted.
LEMMA InsertedDiffer ==
  ASSUME NEW rows, rows \subseteq Event, NEW batch, batch \in Seq(Event),
         \A r, o \in rows : r.seq = o.seq => r = o
  PROVE  \A r, o \in Inserted(rows, batch) : r.seq = o.seq => r = o
<1>. DEFINE New(i) == /\ batch[i].seq \notin Seqs(rows)
                      /\ \A j \in 1..(i - 1) : batch[j].seq # batch[i].seq
<1>1. Len(batch) \in Nat
  BY LenProperties
<1>2. ASSUME NEW r \in Inserted(rows, batch)
      PROVE  r \in rows \/ \E i \in 1..Len(batch) : r = batch[i] /\ New(i)
  BY DEF Inserted
<1>3. ASSUME NEW i \in 1..Len(batch), NEW j \in 1..Len(batch), New(i), New(j),
             batch[i].seq = batch[j].seq
      PROVE  i = j
  <2>1. ~(i < j) /\ ~(j < i)
    BY <1>1, <1>3
  <2>. QED  BY <1>1, <2>1
<1>4. ASSUME NEW r \in rows, NEW i \in 1..Len(batch), New(i)
      PROVE  r.seq # batch[i].seq
  BY <1>4 DEF Seqs
<1>. HIDE DEF New
<1>5. ASSUME NEW r \in Inserted(rows, batch), NEW o \in Inserted(rows, batch), r.seq = o.seq
      PROVE  r = o
  BY <1>2, <1>3, <1>4, <1>5
<1>. QED  BY <1>5

-----------------------------------------------------------------------------
\* The members of a sequence.
Members(s) == {s[i] : i \in DOMAIN s}

LEMMA MembersOfSequences ==
  ASSUME NEW s \in Seq(Event), NEW u \in Seq(Event), NEW e \in Event
  PROVE  /\ Members(s) = {s[i] : i \in 1..Len(s)}
         /\ Members(s) \subseteq Event
         /\ Members(Append(s, e)) = Members(s) \cup {e}
         /\ Members(s \o u) = Members(s) \cup Members(u)
<1>1. Len(s) \in Nat /\ DOMAIN s = 1..Len(s) /\ Len(u) \in Nat /\ DOMAIN u = 1..Len(u)
  BY LenProperties
<1>2. \A i \in 1..Len(s) : s[i] \in Event
  BY ElementOfSeq
<1>3. Members(Append(s, e)) = Members(s) \cup {e}
  <2>. DEFINE c == Append(s, e)
  <2>1. /\ c \in Seq(Event) /\ Len(c) = Len(s) + 1
        /\ \A i \in 1..Len(s) : c[i] = s[i]
        /\ c[Len(s) + 1] = e
    BY AppendProperties
  <2>. HIDE DEF c
  <2>2. DOMAIN c = 1..(Len(s) + 1)
    BY <2>1, LenProperties
  <2>3. ASSUME NEW i \in 1..(Len(s) + 1) PROVE i \in 1..Len(s) \/ i = Len(s) + 1
    BY <1>1
  <2>4. /\ \A i \in 1..Len(s) : i \in 1..(Len(s) + 1)
        /\ Len(s) + 1 \in 1..(Len(s) + 1)
    BY <1>1
  <2>5. Members(c) \subseteq Members(s) \cup {e}
    BY <1>1, <2>1, <2>2, <2>3 DEF Members
  <2>6. Members(s) \cup {e} \subseteq Members(c)
    BY <1>1, <2>1, <2>2, <2>4 DEF Members
  <2>. QED  BY <2>5, <2>6 DEF c
<1>4. Members(s \o u) = Members(s) \cup Members(u)
  <2>. DEFINE c == s \o u
  <2>1. /\ c \in Seq(Event)
        /\ Len(c) = Len(s) + Len(u)
        /\ \A i \in 1..(Len(s) + Len(u)) :
             c[i] = IF i <= Len(s) THEN s[i] ELSE u[i - Len(s)]
    BY ConcatProperties
  <2>. HIDE DEF c
  <2>2. DOMAIN c = 1..(Len(s) + Len(u))
    BY <2>1, LenProperties
  <2>3. ASSUME NEW i \in 1..(Len(s) + Len(u)) PROVE c[i] \in Members(s) \cup Members(u)
    <3>1. CASE i <= Len(s)
      <4>1. i \in 1..Len(s) /\ c[i] = s[i]
        BY <1>1, <2>1, <3>1
      <4>. QED  BY <1>1, <4>1 DEF Members
    <3>2. CASE ~(i <= Len(s))
      <4>1. i - Len(s) \in 1..Len(u) /\ c[i] = u[i - Len(s)]
        BY <1>1, <2>1, <3>2
      <4>. QED  BY <1>1, <4>1 DEF Members
    <3>. QED  BY <3>1, <3>2
  <2>4. ASSUME NEW i \in 1..Len(s) PROVE i \in DOMAIN c /\ c[i] = s[i]
    BY <1>1, <2>1, <2>2
  <2>5. ASSUME NEW i \in 1..Len(u) PROVE Len(s) + i \in DOMAIN c /\ c[Len(s) + i] = u[i]
    <3>1. /\ Len(s) + i \in 1..(Len(s) + Len(u)) /\ ~(Len(s) + i <= Len(s))
          /\ (Len(s) + i) - Len(s) = i
      BY <1>1
    <3>. QED  BY <2>1, <2>2, <3>1
  <2>6. Members(c) \subseteq Members(s) \cup Members(u)
    BY <2>2, <2>3 DEF Members
  <2>7. Members(s) \cup Members(u) \subseteq Members(c)
    BY <1>1, <2>4, <2>5 DEF Members
  <2>. QED  BY <2>6, <2>7 DEF c
<1>. QED  BY <1>1, <1>2, <1>3, <1>4 DEF Members

LEMMA NoMembers == Members(<<>>) = {} /\ <<>> \in Seq(Event)
BY EmptySeq DEF Members

\* What is waiting and what the threads hold, member by member, before and after a step.
LEMMA HeldMembers ==
  ASSUME LogType, LogType'
  PROVE  /\ Unflushed = Members(log.waiting) /\ Unflushed' = Members(log'.waiting)
         /\ \A r : r \in Unwritten <=> \E t \in LogThreads : r \in Members(threads[t].batch)
         /\ \A r : r \in Unwritten' <=> \E t \in LogThreads : r \in Members(threads'[t].batch)
<1>1. DOMAIN threads = LogThreads /\ DOMAIN threads' = LogThreads
  BY DEF LogType
<1>. QED  BY <1>1 DEF Unflushed, Unwritten, Members

\* A step that changes the batch of one thread.
LEMMA HandsOf ==
  ASSUME LogType, LogType', NEW t \in LogThreads,
         \A u \in LogThreads \ {t} : threads'[u].batch = threads[u].batch
  PROVE  /\ Unwritten \subseteq Unwritten' \cup Members(threads[t].batch)
         /\ Unwritten' \subseteq Unwritten \cup Members(threads'[t].batch)
         /\ Members(threads[t].batch) \subseteq Unwritten
         /\ Members(threads'[t].batch) \subseteq Unwritten'
BY HeldMembers

\* Records that change hands.
LEMMA RecordsMove ==
  ASSUME RecordsOK, appended' = appended, log'.rows = log.rows, Held' = Held
  PROVE  RecordsOK'
<1>2. RecordOrItsNumber'
  BY DEF RecordsOK, RecordOrItsNumber, Held
<1>. QED  BY <1>2 DEF RecordsOK

\* Every record is a row, or held, or there is a row with its number.
LEMMA NumbersOfRecords ==
  ASSUME LogType, RecordsOK
  PROVE  \A r \in appended : r \in Held \/ r.seq \in Seqs(log.rows)
BY DEF RecordsOK, RecordOrItsNumber, Held, Seqs

-----------------------------------------------------------------------------
\* The invariant holds at the start.
LEMMA InitLogInv == LogInit => LogInv
<1>. SUFFICES ASSUME LogInit PROVE LogInv
  OBVIOUS
<1>1. log = [waiting |-> <<>>, rows |-> {}, attention |-> {}] /\ appended = {}
  BY DEF LogInit
<1>2. threads = [t \in LogThreads |-> At0] /\ At0.batch = <<>> /\ At0.why = "append"
  BY DEF LogInit, At0, LogThreads
<1>3. LogType
  BY <1>1, EmptySeq
     DEF LogInit, LogType, LogThreads, StoreFields, At0, NoView, Stages, Reasons, ViewStates
<1>4. HandsAreEmpty
  BY <1>2 DEF HandsAreEmpty
<1>5. Held = {}
  BY <1>1, <1>2, EmptySeq DEF Held, Unflushed, Unwritten
<1>6. RecordsOK
  BY <1>1, <1>5 DEF RecordsOK, RecordOrItsNumber
<1>7. NumbersOK
  BY <1>1, <1>2 DEF LogInit, NumbersOK, NumbersNameRecords, LogThreads
<1>8. ViewsHaveNoGap
  BY DEF LogInit, NoView, At0, ViewsHaveNoGap
<1>. QED  BY <1>3, <1>4, <1>6, <1>7, <1>8 DEF LogInv

\* Appending a record.
LEMMA LogAppendKeepsInv ==
  ASSUME LogInv, NEW kind \in Kinds, NEW of \in Nat, AppendEvent(kind, of)
  PROVE  LogInv'
<1>. DEFINE e == [seq |-> store.next, kind |-> kind, of |-> of, gen |-> store.gen]
<1>1. LogType /\ HandsAreEmpty /\ RecordsOK /\ NumbersOK /\ ViewsHaveNoGap
  BY DEF LogInv
<1>2. e \in Event /\ log.waiting \in Seq(Event) /\ store \in StoreFields
  BY <1>1 DEF LogType, Event, StoreFields
<1>3. /\ log' = [waiting |-> Append(log.waiting, e), rows |-> log.rows,
                 attention |-> log.attention]
      /\ store' = [store EXCEPT !.next = @ + 1, !.asked = Apply(@, e)]
      /\ appended' = appended \cup {e} /\ views' = views
  BY <1>1 DEF AppendEvent, LogType
<1>4. \E pc \in {"idle", "flush"} :
        threads' = [threads EXCEPT !["session"] = [At0 EXCEPT !.pc = pc]]
  BY DEF AppendEvent
<1>5. threads["session"].batch = <<>> /\ threads["session"].why # "newest"
  BY <1>1 DEF AppendEvent, HandsAreEmpty, NumbersOK, LogThreads
<1>6. /\ \A pc \in {"idle", "flush"} :
           /\ [At0 EXCEPT !.pc = pc] \in [pc : Stages, batch : Seq(Event), why : Reasons]
           /\ [At0 EXCEPT !.pc = pc].batch = <<>>
           /\ [At0 EXCEPT !.pc = pc].why = "append"
           /\ [At0 EXCEPT !.pc = pc].pc = pc
  BY EmptySeq DEF At0, Stages, Reasons
<1>7. /\ threads' \in [LogThreads -> [pc : Stages, batch : Seq(Event), why : Reasons]]
      /\ \A t \in LogThreads : threads'[t].batch = threads[t].batch
      /\ \A t \in Readers : threads'[t] = threads[t]
      /\ threads'["session"].pc \in {"idle", "flush"}
      /\ threads'["session"].why = "append"
  BY <1>1, <1>4, <1>5, <1>6, LogAssumption DEF LogType, LogThreads
<1>. HIDE DEF e
<1>8. /\ store' \in StoreFields
      /\ store'.next = store.next + 1 /\ store'.blind = store.blind
  <2>1. Apply(store.asked, e) \in SUBSET Nat
    BY <1>2 DEF Apply, StoreFields, e
  <2>2. store' = [store EXCEPT !.next = store.next + 1, !.asked = Apply(store.asked, e)]
    BY <1>3
  <2>3. store' = [gen |-> store.gen, next |-> store.next + 1,
                  asked |-> Apply(store.asked, e), blind |-> store.blind]
    BY <1>2, <2>2 DEF StoreFields
  <2>. QED  BY <1>2, <2>1, <2>3 DEF StoreFields
<1>9. Append(log.waiting, e) \in Seq(Event)
  BY <1>2, AppendProperties
<1>10. LogType'
  BY <1>1, <1>2, <1>3, <1>7, <1>8, <1>9 DEF LogType
<1>11. HandsAreEmpty'
  BY <1>1, <1>5, <1>7 DEF HandsAreEmpty, LogThreads
<1>12. Held' = Held \cup {e}
  <2>1. Unflushed' = Unflushed \cup {e}
    BY <1>1, <1>2, <1>3, <1>10, HeldMembers, MembersOfSequences
  <2>2. Unwritten' = Unwritten
    BY <1>1, <1>7, <1>10, HeldMembers
  <2>. QED  BY <2>1, <2>2 DEF Held
<1>13. RecordsOK'
  <2>1. log'.rows = log.rows
    BY <1>3
  <2>2. \E n \in Nat : \A r \in appended' : r.seq <= n
    <3>1. PICK m \in Nat : \A r \in appended : r.seq <= m
      BY <1>1 DEF RecordsOK
    <3>2. PICK n \in Nat : m <= n /\ store.next <= n
      BY <1>2 DEF StoreFields
    <3>3. \A r \in appended : r.seq \in Nat
      BY <1>1 DEF LogType, Event
    <3>4. \A r \in appended : r.seq <= n
      BY <3>1, <3>2, <3>3
    <3>5. e.seq = store.next
      BY DEF e
    <3>. QED  BY <1>3, <3>2, <3>4, <3>5
  <2>3. RecordOrItsNumber'
    BY <1>1, <1>3, <1>12, <2>1 DEF RecordsOK, RecordOrItsNumber, Held
  <2>. QED  BY <1>1, <1>3, <1>12, <2>1, <2>2, <2>3 DEF RecordsOK
<1>14. NumbersOK'
  <2>1. e.seq = store.next /\ store.next \in Nat /\ store'.next = store.next + 1
    BY <1>2, <1>8 DEF e, StoreFields
  <2>2. ASSUME ~store.blind
        PROVE  /\ \A r \in appended : r.seq < store.next
               /\ \A r, o \in appended : r.seq = o.seq => r = o
    BY <1>1, <1>5, <2>2 DEF NumbersOK, NumbersNameRecords
  <2>3. \A r \in appended : r.seq \in Nat
    BY <1>1 DEF LogType, Event
  <2>4. ASSUME ~store.blind
        PROVE  \A r, o \in appended' : r.seq = o.seq => r = o
    <3>1. \A r \in appended : r.seq # e.seq
      BY <2>1, <2>2, <2>3, <2>4
    <3>. QED  BY <1>3, <2>2, <2>4, <3>1
  <2>5. ASSUME ~store.blind
        PROVE  \A r \in appended' : r.seq < store'.next
    <3>1. \A r \in appended : r.seq < store.next + 1
      BY <2>1, <2>2, <2>3, <2>5
    <3>. QED  BY <1>3, <2>1, <3>1
  <2>. QED  BY <1>7, <1>8, <2>4, <2>5 DEF NumbersOK, NumbersNameRecords
<1>15. ViewsHaveNoGap'
  BY <1>1, <1>3, <1>7 DEF ViewsHaveNoGap
<1>. QED  BY <1>10, <1>11, <1>13, <1>14, <1>15 DEF LogInv

\* A thread takes the waiting records out.
LEMMA TakeKeepsInv ==
  ASSUME LogInv, NEW t \in LogThreads, TakeWaiting(t)
  PROVE  LogInv'
<1>1. LogType /\ HandsAreEmpty /\ RecordsOK /\ NumbersOK /\ ViewsHaveNoGap
  BY DEF LogInv
<1>2. /\ threads[t].batch = <<>>
      /\ appended' = appended /\ store' = store /\ views' = views
  BY <1>1 DEF TakeWaiting, HandsAreEmpty
<1>3. \E pc \in {"idle", "read", "write"} :
        /\ pc # "write" => log.waiting = <<>>
        /\ pc = "idle" => threads[t].why # "newest"
        /\ threads' = [threads EXCEPT ![t] =
             [pc |-> pc, batch |-> log.waiting, why |-> @.why]]
        /\ log' = [waiting |-> <<>>, rows |-> log.rows, attention |-> log.attention]
  <2>0. threads[t] \in [pc : Stages, batch : Seq(Event), why : Reasons]
    BY <1>1 DEF LogType
  <2>1. CASE log.waiting = <<>>
    <3>1. threads' = [threads EXCEPT ![t] =
            [pc |-> Flushed(t), batch |-> log.waiting, why |-> @.why]]
      BY <1>1, <1>2, <2>0, <2>1 DEF TakeWaiting, Becomes, LogType
    <3>2. log' = [waiting |-> <<>>, rows |-> log.rows, attention |-> log.attention]
      BY <1>1, <2>1 DEF TakeWaiting, LogType
    <3>. QED  BY <2>1, <3>1, <3>2 DEF Flushed
  <2>2. CASE log.waiting # <<>>
    BY <1>1, <1>2, <2>0, <2>2 DEF TakeWaiting, LogType
  <2>. QED  BY <2>1, <2>2
<1>4. /\ threads' \in [LogThreads -> [pc : Stages, batch : Seq(Event), why : Reasons]]
      /\ threads'[t].batch = log.waiting
      /\ threads'[t].pc # "write" => log.waiting = <<>>
      /\ threads'[t].pc # "restore"
      /\ threads'[t].why = threads[t].why
      /\ threads'[t].pc = "idle" => threads[t].why # "newest"
      /\ \A u \in LogThreads \ {t} : threads'[u] = threads[u]
      /\ log' = [waiting |-> <<>>, rows |-> log.rows, attention |-> log.attention]
  BY <1>1, <1>3 DEF LogType, Stages
<1>5. LogType'
  BY <1>1, <1>2, <1>4, EmptySeq DEF LogType
<1>6. HandsAreEmpty'
  BY <1>1, <1>4 DEF HandsAreEmpty
<1>7. RecordsOK'
  <2>1. /\ Unflushed = Members(log.waiting) /\ Unflushed' = {}
        /\ Members(threads[t].batch) = {} /\ Members(threads'[t].batch) = Unflushed
    BY <1>1, <1>2, <1>4, <1>5, HeldMembers, NoMembers
  <2>2. Held' = Held
    BY <1>1, <1>4, <1>5, <2>1, HandsOf DEF Held
  <2>. QED  BY <1>1, <1>2, <1>4, <2>2, RecordsMove
<1>8. NumbersOK'
  <2>1. "session" \in LogThreads
    BY DEF LogThreads
  <2>. QED  BY <1>1, <1>2, <1>4, <2>1 DEF NumbersOK, NumbersNameRecords
<1>9. ViewsHaveNoGap'
  BY <1>1, <1>2, <1>4 DEF TakeWaiting, ViewsHaveNoGap, LogThreads
<1>. QED  BY <1>5, <1>6, <1>7, <1>8, <1>9 DEF LogInv

\* A thread writes its records, or fails to.
LEMMA LogWriteKeepsInv ==
  ASSUME LogInv, NEW t \in LogThreads, WriteRecords(t)
  PROVE  LogInv'
<1>. DEFINE b == threads[t].batch
<1>1. LogType /\ HandsAreEmpty /\ RecordsOK /\ NumbersOK /\ ViewsHaveNoGap
  BY DEF LogInv
<1>2. b \in Seq(Event) /\ log.rows \subseteq Event
      /\ threads[t] \in [pc : Stages, batch : Seq(Event), why : Reasons]
  BY <1>1 DEF LogType
<1>3. appended' = appended /\ store' = store /\ views' = views /\ threads[t].pc = "write"
  BY DEF WriteRecords
<1>4. "session" \in LogThreads
  BY DEF LogThreads
<1>5. CASE Use("failures") /\ Becomes(t, "restore") /\ UNCHANGED log
  <2>1. /\ threads' \in [LogThreads -> [pc : Stages, batch : Seq(Event), why : Reasons]]
        /\ threads'[t].pc = "restore" /\ threads'[t].why = threads[t].why
        /\ \A u \in LogThreads : threads'[u].batch = threads[u].batch
        /\ \A u \in LogThreads \ {t} : threads'[u] = threads[u]
        /\ log' = log
    <3>. HIDE DEF b
    <3>1. /\ [threads[t] EXCEPT !.pc = "restore"] \in
               [pc : Stages, batch : Seq(Event), why : Reasons]
          /\ [threads[t] EXCEPT !.pc = "restore"].batch = threads[t].batch
          /\ [threads[t] EXCEPT !.pc = "restore"].why = threads[t].why
          /\ [threads[t] EXCEPT !.pc = "restore"].pc = "restore"
      BY <1>2 DEF Stages
    <3>2. threads' = [threads EXCEPT ![t] = [threads[t] EXCEPT !.pc = "restore"]]
      BY <1>5 DEF Becomes
    <3>. QED  BY <1>1, <1>5, <3>1, <3>2 DEF LogType
  <2>2. LogType'
    BY <1>1, <1>3, <2>1 DEF LogType
  <2>3. HandsAreEmpty'
    BY <1>1, <2>1 DEF HandsAreEmpty
  <2>4. RecordsOK'
    <3>1. Held' = Held
      BY <1>1, <2>1, <2>2, HeldMembers DEF Held
    <3>. QED  BY <1>1, <1>3, <2>1, <3>1, RecordsMove
  <2>5. NumbersOK'
    BY <1>1, <1>3, <1>4, <2>1 DEF NumbersOK, NumbersNameRecords
  <2>6. ViewsHaveNoGap'
    BY <1>1, <1>3, <2>1 DEF ViewsHaveNoGap, LogThreads
  <2>. QED  BY <2>2, <2>3, <2>4, <2>5, <2>6 DEF LogInv
<1>6. CASE /\ log' = [log EXCEPT !.rows = Inserted(@, b),
                                !.attention = FoldLeft(Apply, @, b)]
           /\ threads' = [threads EXCEPT ![t].pc = Flushed(t), ![t].batch = <<>>]
  <2>. DEFINE R == Inserted(log.rows, b)
  <2>1. /\ log'.waiting = log.waiting
        /\ log'.rows = R
        /\ log' = [waiting |-> log'.waiting, rows |-> log'.rows,
                   attention |-> log'.attention]
    BY <1>1, <1>6 DEF LogType
  <2>2. /\ threads' \in [LogThreads -> [pc : Stages, batch : Seq(Event), why : Reasons]]
        /\ threads'[t].batch = <<>> /\ threads'[t].why = threads[t].why
        /\ threads'[t].pc = Flushed(t)
        /\ \A u \in LogThreads \ {t} : threads'[u] = threads[u]
    <3>. DEFINE r == [threads[t] EXCEPT !.pc = Flushed(t), !.batch = <<>>]
    <3>1. threads' = [threads EXCEPT ![t] = r]
      BY <1>6
    <3>2. Flushed(t) \in Stages
      BY DEF Flushed, Stages
    <3>3. /\ r \in [pc : Stages, batch : Seq(Event), why : Reasons]
          /\ r.batch = <<>> /\ r.pc = Flushed(t) /\ r.why = threads[t].why
      BY <1>2, <3>2, EmptySeq
    <3>. HIDE DEF r
    <3>. QED  BY <1>1, <3>1, <3>3 DEF LogType
  <2>3. /\ R \subseteq Event
        /\ log.rows \subseteq R
        /\ \A e \in R : e \in log.rows \/ e \in Members(b)
        /\ \A e \in Members(b) : e.seq \in Seqs(R)
        /\ \A r, o \in R : r.seq = o.seq => r = o
    <3>1. \A r, o \in log.rows : r.seq = o.seq => r = o
      BY <1>1 DEF RecordsOK
    <3>2. b \in Seq(Event)
      BY <1>2
    <3>3. log.rows \subseteq Event
      BY <1>2
    <3>4. Members(b) = {b[i] : i \in 1..Len(b)}
      BY <1>2, LenProperties DEF Members
    <3>. HIDE DEF b
    <3>5. R \subseteq Event /\ log.rows \subseteq R
      BY ONLY <3>2, <3>3, InsertedNumbers
    <3>6. R \subseteq log.rows \cup Members(b)
      BY <3>4 DEF Inserted
    <3>7. \A i \in 1..Len(b) : b[i].seq \in Seqs(R)
      BY ONLY <3>2, <3>3, InsertedNumbers
    <3>8. \A r, o \in R : r.seq = o.seq => r = o
      BY ONLY <3>1, <3>2, <3>3, InsertedDiffer
    <3>. HIDE DEF R
    <3>. QED  BY <3>4, <3>5, <3>6, <3>7, <3>8
  <2>. HIDE DEF R
  <2>4. LogType'
    BY <1>1, <1>3, <2>1, <2>2, <2>3 DEF LogType
  <2>5. HandsAreEmpty'
    BY <1>1, <2>2 DEF HandsAreEmpty
  <2>6. RecordsOK'
    <3>1. /\ Held' \subseteq Held /\ Members(b) \subseteq Held
          /\ Held \subseteq Held' \cup Members(b)
      <4>1. Unflushed' = Unflushed
        BY <1>1, <2>1, <2>4, HeldMembers
      <4>2. Members(threads'[t].batch) = {}
        BY <2>2, NoMembers
      <4>3. \A u \in LogThreads \ {t} : threads'[u].batch = threads[u].batch
        BY <2>2
      <4>4. /\ Unwritten \subseteq Unwritten' \cup Members(b)
            /\ Unwritten' \subseteq Unwritten /\ Members(b) \subseteq Unwritten
        BY <1>1, <2>4, <4>2, <4>3, HandsOf
      <4>. QED  BY <4>1, <4>4 DEF Held
    <3>2. log'.rows \cup Held' \subseteq appended
      BY <1>1, <2>1, <2>3, <3>1 DEF RecordsOK
    <3>3. RecordOrItsNumber'
      <4>1. ASSUME NEW r \in appended
            PROVE  r \in log'.rows \cup Held' \/ r.seq \in Seqs(log'.rows)
        <5>1. r \in log.rows \cup Held \/ r.seq \in Seqs(log.rows)
          BY <1>1 DEF RecordsOK, RecordOrItsNumber, Held, Seqs
        <5>2. Seqs(log.rows) \subseteq Seqs(log'.rows)
          BY <2>1, <2>3 DEF Seqs
        <5>. QED  BY <2>1, <2>3, <3>1, <5>1, <5>2
      <4>. QED  BY <1>3, <4>1 DEF RecordOrItsNumber, Held, Seqs
    <3>. QED  BY <1>1, <1>3, <2>1, <2>3, <3>2, <3>3 DEF RecordsOK
  <2>7. NumbersOK'
    BY <1>1, <1>3, <1>4, <2>2 DEF NumbersOK, NumbersNameRecords, Flushed
  <2>8. ViewsHaveNoGap'
    BY <1>1, <1>3, <2>2 DEF ViewsHaveNoGap, LogThreads
  <2>. QED  BY <2>4, <2>5, <2>6, <2>7, <2>8 DEF LogInv
<1>. QED  BY <1>5, <1>6 DEF WriteRecords

\* A thread puts the records of a failed write back.  A session that looked for the
\* newest number is left with a store that does not know it.
LEMMA RestoreKeepsInv ==
  ASSUME LogInv, NEW t \in LogThreads, RestoreRecords(t)
  PROVE  LogInv'
<1>. DEFINE b == threads[t].batch
            c == b \o log.waiting
<1>1. LogType /\ HandsAreEmpty /\ RecordsOK /\ NumbersOK /\ ViewsHaveNoGap
  BY DEF LogInv
<1>2. b \in Seq(Event) /\ log.waiting \in Seq(Event) /\ store \in StoreFields
  BY <1>1 DEF LogType
<1>3. c \in Seq(Event)
  BY <1>2, ConcatProperties
<1>4. /\ log' = [waiting |-> c, rows |-> log.rows, attention |-> log.attention]
      /\ appended' = appended
      /\ threads' = [threads EXCEPT ![t] = At0]
      /\ threads[t].pc = "restore"
  BY <1>1 DEF RestoreRecords, Restored, LogType
<1>5. /\ threads' \in [LogThreads -> [pc : Stages, batch : Seq(Event), why : Reasons]]
      /\ threads'[t].batch = <<>> /\ threads'[t].pc = "idle" /\ threads'[t].why = "append"
      /\ \A u \in LogThreads \ {t} : threads'[u] = threads[u]
  BY <1>1, <1>4, EmptySeq DEF At0, LogType, Stages, Reasons
<1>6. /\ store' \in StoreFields
      /\ (store' = store /\ threads[t].why # "newest") \/ store'.blind
  <2>1. CASE threads[t].why = "newest"
    <3>1. store' = [gen |-> store.gen + 1, next |-> 1, asked |-> {}, blind |-> TRUE]
      BY <2>1 DEF RestoreRecords, Starts
    <3>. QED  BY <1>2, <3>1 DEF StoreFields
  <2>2. CASE threads[t].why # "newest"
    BY <1>2, <2>2 DEF RestoreRecords
  <2>. QED  BY <2>1, <2>2
<1>7. /\ views' \in [Readers -> [after : Nat, snap : Nat, seen : SUBSET Nat,
                                 state : ViewStates]]
      /\ ViewsHaveNoGap'
  <2>1. CASE t \in Readers
    <3>. DEFINE r == [views[t] EXCEPT !.state = "partial"]
    <3>1. views' = [views EXCEPT ![t] = r]
      BY <2>1 DEF RestoreRecords
    <3>2. /\ r \in [after : Nat, snap : Nat, seen : SUBSET Nat, state : ViewStates]
          /\ r.state = "partial"
      <4>1. views[t] \in [after : Nat, snap : Nat, seen : SUBSET Nat, state : ViewStates]
        BY <1>1, <2>1 DEF LogType
      <4>. QED  BY <4>1 DEF ViewStates
    <3>. HIDE DEF r
    <3>3. /\ views' \in [Readers -> [after : Nat, snap : Nat, seen : SUBSET Nat,
                                     state : ViewStates]]
          /\ views'[t].state = "partial"
          /\ \A u \in Readers \ {t} : views'[u] = views[u]
      BY <1>1, <2>1, <3>1, <3>2 DEF LogType
    <3>. QED  BY <1>1, <1>5, <2>1, <3>3 DEF ViewsHaveNoGap, LogThreads
  <2>2. CASE t \notin Readers
    BY <1>1, <1>5, <2>2 DEF RestoreRecords, ViewsHaveNoGap, LogType, LogThreads
  <2>. QED  BY <2>1, <2>2
<1>. HIDE DEF c
<1>8. LogType'
  BY <1>1, <1>3, <1>4, <1>5, <1>6, <1>7 DEF LogType
<1>9. HandsAreEmpty'
  BY <1>1, <1>5 DEF HandsAreEmpty
<1>10. RecordsOK'
  <2>. HIDE DEF b
  <2>1. Members(c) = Members(b) \cup Members(log.waiting)
    <3>1. [seq |-> 0, kind |-> "end", of |-> 0, gen |-> 0] \in Event
      BY DEF Event, Kinds
    <3>. QED  BY <1>2, <3>1, MembersOfSequences DEF c
  <2>2. Unflushed' = Members(b) \cup Unflushed
    BY <1>1, <1>4, <1>8, <2>1, HeldMembers
  <2>3. /\ Unwritten \subseteq Unwritten' \cup Members(b)
        /\ Unwritten' \subseteq Unwritten /\ Members(b) \subseteq Unwritten
    <3>1. Members(threads'[t].batch) = {}
      BY <1>5, NoMembers
    <3>2. \A u \in LogThreads \ {t} : threads'[u].batch = threads[u].batch
      BY <1>5
    <3>. QED  BY <1>1, <1>8, <3>1, <3>2, HandsOf DEF b
  <2>4. Held' = Held
    BY <2>2, <2>3 DEF Held
  <2>. QED  BY <1>1, <1>4, <2>4, RecordsMove
<1>11. NumbersOK'
  <2>1. "session" \in LogThreads
    BY DEF LogThreads
  <2>2. threads'["session"].pc = "idle" => threads'["session"].why # "newest"
    BY <1>1, <1>5, <2>1 DEF NumbersOK
  <2>3. CASE store'.blind
    BY <2>2, <2>3 DEF NumbersOK, NumbersNameRecords
  <2>4. CASE store' = store /\ threads[t].why # "newest"
    BY <1>1, <1>4, <1>5, <2>1, <2>2, <2>4 DEF NumbersOK, NumbersNameRecords
  <2>. QED  BY <1>6, <2>3, <2>4
<1>. QED  BY <1>7, <1>8, <1>9, <1>10, <1>11 DEF LogInv

-----------------------------------------------------------------------------
\* A step that changes what a thread is about to do, and nothing of the records, keeps
\* everything but the reader's view and the session's numbers.
LEMMA TurnKeepsInv ==
  ASSUME LogInv, NEW t \in LogThreads, NEW r,
         r \in [pc : Stages, batch : Seq(Event), why : Reasons], r.batch = <<>>,
         threads[t].batch = <<>>, threads' = [threads EXCEPT ![t] = r],
         log' = log, appended' = appended, store' \in StoreFields,
         views' \in [Readers -> [after : Nat, snap : Nat, seen : SUBSET Nat,
                                 state : ViewStates]],
         ViewsHaveNoGap', NumbersOK'
  PROVE  LogInv'
<1>1. LogType /\ HandsAreEmpty /\ RecordsOK
  BY DEF LogInv
<1>2. /\ threads' \in [LogThreads -> [pc : Stages, batch : Seq(Event), why : Reasons]]
      /\ threads'[t].batch = <<>>
      /\ \A u \in LogThreads \ {t} : threads'[u] = threads[u]
  BY <1>1 DEF LogType
<1>3. \A u \in LogThreads : threads'[u].batch = threads[u].batch
  BY <1>2
<1>4. LogType'
  BY <1>1, <1>2 DEF LogType
<1>5. HandsAreEmpty'
  BY <1>1, <1>2 DEF HandsAreEmpty
<1>6. RecordsOK'
  <2>1. Held' = Held
    BY <1>1, <1>3, <1>4, HeldMembers DEF Held
  <2>. QED  BY <1>1, <2>1, RecordsMove
<1>. QED  BY <1>4, <1>5, <1>6 DEF LogInv

\* A reader has nothing to do with the session's numbers.
LEMMA ReadersLeaveNumbers ==
  ASSUME LogInv, NEW t \in Readers, NEW r, threads' = [threads EXCEPT ![t] = r],
         store' = store, appended' = appended
  PROVE  NumbersOK'
<1>1. threads'["session"] = threads["session"]
  BY LogAssumption DEF LogInv, LogType, LogThreads
<1>. QED  BY <1>1 DEF LogInv, NumbersOK, NumbersNameRecords

\* A reader asks for a page.
LEMMA AskKeepsInv ==
  ASSUME LogInv, NEW t \in Readers, AskForPage(t)
  PROVE  LogInv'
<1>. DEFINE r == [At0 EXCEPT !.pc = "flush", !.why = "page"]
<1>1. LogType /\ HandsAreEmpty /\ ViewsHaveNoGap /\ t \in LogThreads
  BY DEF LogInv, LogThreads
<1>2. /\ r \in [pc : Stages, batch : Seq(Event), why : Reasons] /\ r.batch = <<>>
      /\ threads[t].batch = <<>> /\ threads' = [threads EXCEPT ![t] = r]
  BY <1>1, EmptySeq DEF AskForPage, HandsAreEmpty, At0, Stages, Reasons
<1>3. /\ log' = log /\ store' = store /\ views' = views /\ appended' = appended
      /\ views[t].state = "open"
      /\ \A u \in Readers \ {t} : threads'[u] = threads[u]
  BY <1>1 DEF AskForPage, LogType, LogThreads
<1>4. ViewsHaveNoGap'
  BY <1>1, <1>3 DEF ViewsHaveNoGap
<1>. HIDE DEF r
<1>5. /\ store' \in StoreFields
      /\ views' \in [Readers -> [after : Nat, snap : Nat, seen : SUBSET Nat,
                                 state : ViewStates]]
  BY <1>1, <1>3 DEF LogType
<1>6. NumbersOK'
  BY <1>2, <1>3, ReadersLeaveNumbers
<1>. QED  BY <1>1, <1>2, <1>3, <1>4, <1>5, <1>6, TurnKeepsInv

\* The rows have a newest number, and none is behind it.
LEMMA NewestOfLog ==
  ASSUME LogType, RecordsOK
  PROVE  /\ Newest(log.rows) \in Nat
         /\ \A e \in log.rows : e.seq <= Newest(log.rows)
<1>1. PICK n \in Nat : \A e \in log.rows : e.seq <= n
  BY DEF RecordsOK
<1>2. log.rows \in SUBSET Event
  BY DEF LogType
<1>. QED  BY <1>1, <1>2, NewestIsNumber

\* A reader is given a page.  The page holds every number from its cursor to the last of
\* the page, or the reader is told of a gap.
LEMMA ReadKeepsInv ==
  ASSUME LogInv, NEW t \in Readers, ReadRows(t)
  PROVE  LogInv'
<1>. DEFINE v == views[t]
            snap == IF v.snap = 0 THEN Newest(log.rows) ELSE v.snap
            rows == {q \in Seqs(log.rows) : v.after < q /\ q <= snap}
<1>1. LogType /\ HandsAreEmpty /\ RecordsOK /\ ViewsHaveNoGap /\ t \in LogThreads
  BY DEF LogInv, LogThreads
<1>2. v \in [after : Nat, snap : Nat, seen : SUBSET Nat, state : ViewStates]
  BY <1>1 DEF LogType
<1>3. snap \in Nat
  <2>1. Newest(log.rows) \in Nat
    BY <1>1, NewestOfLog
  <2>. QED  BY <1>2, <2>1
<1>4. rows \subseteq Nat
  BY <1>1 DEF LogType, Seqs, Event
<1>5. PICK upto \in (IF rows = {} THEN {v.after} ELSE rows) :
        LET page == {q \in rows : q <= upto}
            more == page # rows
        IN  views' = [views EXCEPT ![t] =
              IF snap = 0 THEN [v EXCEPT !.state = "partial"]
              ELSE [after |-> upto, snap |-> snap, seen |-> v.seen \cup page,
                    state |-> IF GapIn(page, v.after, upto, snap, more) THEN "gap"
                              ELSE IF more THEN "open" ELSE "complete"]]
  BY DEF ReadRows
<1>. DEFINE page == {q \in rows : q <= upto}
            more == page # rows
            next == IF snap = 0 THEN [v EXCEPT !.state = "partial"]
                    ELSE [after |-> upto, snap |-> snap, seen |-> v.seen \cup page,
                          state |-> IF GapIn(page, v.after, upto, snap, more) THEN "gap"
                                    ELSE IF more THEN "open" ELSE "complete"]
<1>6. page \subseteq Nat /\ upto \in Nat
  BY <1>2, <1>4, <1>5
<1>7. views' = [views EXCEPT ![t] = next]
  BY <1>5
<1>8. /\ threads[t].pc = "read" /\ threads[t].batch = <<>>
      /\ threads' = [threads EXCEPT ![t] = At0]
      /\ log' = log /\ store' = store /\ appended' = appended
      /\ v.state = "open" /\ 1..v.after \subseteq v.seen
  BY <1>1 DEF ReadRows, HandsAreEmpty, ViewsHaveNoGap
<1>9. /\ next \in [after : Nat, snap : Nat, seen : SUBSET Nat, state : ViewStates]
      /\ next.state \in {"open", "complete"} => 1..next.after \subseteq next.seen
      /\ next.state = "complete" => next.snap <= next.after
  <2>. HIDE DEF v, snap, rows, page, more
  <2>1. CASE snap = 0
    BY <1>2, <2>1 DEF ViewStates
  <2>2. CASE snap # 0 /\ GapIn(page, v.after, upto, snap, more)
    BY <1>2, <1>3, <1>6, <2>2 DEF ViewStates
  <2>3. CASE snap # 0 /\ ~GapIn(page, v.after, upto, snap, more)
    <3>1. \A q \in (v.after + 1)..upto : q \in page
      BY <2>3 DEF GapIn
    <3>2. more \/ snap <= upto
      BY <1>3, <1>6, <2>3 DEF GapIn
    <3>3. 1..upto \subseteq v.seen \cup page
      BY <1>2, <1>6, <1>8, <3>1
    <3>. QED  BY <1>2, <1>3, <1>6, <2>3, <3>2, <3>3 DEF ViewStates
  <2>. QED  BY <2>1, <2>2, <2>3
<1>. HIDE DEF next
<1>10. /\ views' \in [Readers -> [after : Nat, snap : Nat, seen : SUBSET Nat,
                                  state : ViewStates]]
       /\ views'[t] = next
       /\ \A u \in Readers \ {t} : views'[u] = views[u] /\ threads'[u] = threads[u]
       /\ threads'[t] = At0
  BY <1>1, <1>7, <1>8, <1>9 DEF LogType, LogThreads
<1>11. ViewsHaveNoGap'
  BY <1>1, <1>9, <1>10 DEF At0, ViewsHaveNoGap
<1>12. At0 \in [pc : Stages, batch : Seq(Event), why : Reasons] /\ At0.batch = <<>>
  BY EmptySeq DEF At0, Stages, Reasons
<1>13. store' \in StoreFields
  BY <1>1, <1>8 DEF LogType
<1>14. NumbersOK'
  BY <1>8, ReadersLeaveNumbers
<1>. QED  BY <1>1, <1>8, <1>10, <1>11, <1>12, <1>13, <1>14, TurnKeepsInv

\* A reader starts over.
LEMMA StartOverKeepsInv ==
  ASSUME LogInv, NEW t \in Readers, StartOver(t)
  PROVE  LogInv'
<1>1. LogType /\ HandsAreEmpty /\ RecordsOK /\ NumbersOK /\ ViewsHaveNoGap
  BY DEF LogInv
<1>2. /\ log' = log /\ store' = store /\ threads' = threads /\ appended' = appended
      /\ threads[t].pc = "idle"
      /\ views' = [views EXCEPT ![t] = NoView]
  BY DEF StartOver
<1>3. /\ NoView \in [after : Nat, snap : Nat, seen : SUBSET Nat, state : ViewStates]
      /\ 1..NoView.after = {} /\ NoView.state = "open"
  BY DEF NoView, ViewStates
<1>4. /\ views' \in [Readers -> [after : Nat, snap : Nat, seen : SUBSET Nat,
                                 state : ViewStates]]
      /\ ViewsHaveNoGap'
  BY <1>1, <1>2, <1>3 DEF LogType, ViewsHaveNoGap
<1>5. LogType'
  BY <1>1, <1>2, <1>4 DEF LogType
<1>6. HandsAreEmpty' /\ NumbersOK'
  BY <1>1, <1>2 DEF HandsAreEmpty, NumbersOK, NumbersNameRecords
<1>7. RecordsOK'
  <2>1. Held' = Held
    BY <1>2 DEF Held, Unflushed, Unwritten
  <2>. QED  BY <1>1, <1>2, <2>1, RecordsMove
<1>. QED  BY <1>4, <1>5, <1>6, <1>7 DEF LogInv

\* The session reconnects: it has no number to give until it has looked for the newest.
LEMMA ReconnectKeepsInv ==
  ASSUME LogInv, Reconnect
  PROVE  LogInv'
<1>1. LogType /\ HandsAreEmpty /\ NumbersOK /\ ViewsHaveNoGap /\ "session" \in LogThreads
  BY DEF LogInv, LogThreads
<1>2. /\ LooksForNewest \in [pc : Stages, batch : Seq(Event), why : Reasons]
      /\ LooksForNewest.batch = <<>> /\ LooksForNewest.why = "newest"
      /\ LooksForNewest.pc = "flush"
      /\ threads["session"].batch = <<>>
      /\ threads' = [threads EXCEPT !["session"] = LooksForNewest]
  BY <1>1, EmptySeq DEF Reconnect, HandsAreEmpty, LooksForNewest, At0, Stages, Reasons
<1>3. /\ log' = log /\ store' = store /\ views' = views /\ appended' = appended
      /\ \A u \in Readers : threads'[u] = threads[u]
      /\ threads'["session"] = LooksForNewest
  BY <1>1, LogAssumption DEF Reconnect, LogType, LogThreads
<1>4. ViewsHaveNoGap'
  BY <1>1, <1>3 DEF ViewsHaveNoGap
<1>5. /\ store' \in StoreFields
      /\ views' \in [Readers -> [after : Nat, snap : Nat, seen : SUBSET Nat,
                                 state : ViewStates]]
  BY <1>1, <1>3 DEF LogType
<1>6. NumbersOK'
  BY <1>1, <1>2, <1>3 DEF NumbersOK, NumbersNameRecords
<1>. QED  BY <1>1, <1>2, <1>3, <1>4, <1>5, <1>6, TurnKeepsInv

\* The store of the new connection starts.  When nobody held a record, every record's
\* number is one of a row's, and the store starts behind them all.
LEMMA StoreStartsKeepsInv ==
  ASSUME LogInv, StoreStarts
  PROVE  LogInv'
<1>1. LogType /\ HandsAreEmpty /\ RecordsOK /\ NumbersOK /\ ViewsHaveNoGap
      /\ "session" \in LogThreads
  BY DEF LogInv, LogThreads
<1>2. /\ threads["session"].batch = <<>> /\ threads' = [threads EXCEPT !["session"] = At0]
      /\ log' = log /\ views' = views /\ appended' = appended
      /\ threads'["session"] = At0 /\ At0.why = "append"
      /\ \A u \in Readers : threads'[u] = threads[u]
  BY <1>1, LogAssumption DEF StoreStarts, HandsAreEmpty, LogType, LogThreads, At0
<1>3. store \in StoreFields /\ Newest(log.rows) \in Nat
  BY <1>1, NewestOfLog DEF LogType
<1>4. /\ store' \in StoreFields
      /\ \/ store'.blind
         \/ /\ ~store.blind /\ Held = {}
            /\ store'.next = Newest(log.rows) + 1
  <2>1. CASE Starts(StartBehind(log.rows), store.blind \/ Unflushed \cup Unwritten # {})
    <3>. DEFINE bl == store.blind \/ Unflushed \cup Unwritten # {}
    <3>1. store' = [gen |-> store.gen + 1, next |-> Newest(log.rows) + 1,
                    asked |-> {}, blind |-> bl]
      BY <2>1 DEF Starts, StartBehind
    <3>2. store.gen + 1 \in Nat /\ Newest(log.rows) + 1 \in Nat /\ bl \in BOOLEAN
      BY <1>3 DEF StoreFields
    <3>3. ~bl => ~store.blind /\ Held = {}
      BY DEF Held
    <3>. HIDE DEF bl
    <3>. QED  BY <3>1, <3>2, <3>3 DEF StoreFields
  <2>2. CASE Starts(1, TRUE)
    BY <1>3, <2>2 DEF Starts, StoreFields
  <2>. QED  BY <2>1, <2>2 DEF StoreStarts
<1>5. ViewsHaveNoGap'
  BY <1>1, <1>2 DEF ViewsHaveNoGap
<1>6. NumbersOK'
  <2>1. CASE store'.blind
    BY <1>2, <2>1 DEF NumbersOK, NumbersNameRecords
  <2>2. CASE ~store.blind /\ Held = {} /\ store'.next = Newest(log.rows) + 1
    <3>1. ASSUME NEW r \in appended PROVE r.seq < store'.next
      <4>1. PICK o \in log.rows : o.seq = r.seq
        BY <1>1, <2>2, NumbersOfRecords DEF Seqs
      <4>2. o.seq \in Nat /\ o.seq <= Newest(log.rows)
        BY <1>1, NewestOfLog DEF LogType, Event
      <4>. QED  BY <1>3, <2>2, <4>1, <4>2
    <3>. QED  BY <1>1, <1>2, <2>2, <3>1 DEF NumbersOK, NumbersNameRecords
  <2>. QED  BY <1>4, <2>1, <2>2
<1>7. At0 \in [pc : Stages, batch : Seq(Event), why : Reasons] /\ At0.batch = <<>>
  BY EmptySeq DEF At0, Stages, Reasons
<1>8. views' \in [Readers -> [after : Nat, snap : Nat, seen : SUBSET Nat,
                             state : ViewStates]]
  BY <1>1, <1>2 DEF LogType
<1>. QED  BY <1>1, <1>2, <1>4, <1>5, <1>6, <1>7, <1>8, TurnKeepsInv

\* The process dies.  What is left are the rows, which differ in their numbers.
LEMMA LogCrashKeepsInv ==
  ASSUME LogInv, LogCrash
  PROVE  LogInv'
<1>1. LogType /\ RecordsOK
  BY DEF LogInv
<1>2. /\ log' = [waiting |-> <<>>, rows |-> log.rows, attention |-> log.attention]
      /\ threads' = [t \in LogThreads |-> IF t = "session" THEN LooksForNewest ELSE At0]
      /\ views' = [t \in Readers |-> NoView]
      /\ appended' = log.rows
      /\ store' = [store EXCEPT !.asked = {}, !.blind = FALSE]
  BY <1>1 DEF LogCrash, LogType
<1>3. /\ At0 \in [pc : Stages, batch : Seq(Event), why : Reasons]
      /\ LooksForNewest \in [pc : Stages, batch : Seq(Event), why : Reasons]
      /\ At0.batch = <<>> /\ At0.pc = "idle" /\ LooksForNewest.batch = <<>>
      /\ LooksForNewest.pc = "flush" /\ LooksForNewest.why = "newest"
  BY EmptySeq DEF LooksForNewest, At0, Stages, Reasons
<1>4. /\ NoView \in [after : Nat, snap : Nat, seen : SUBSET Nat, state : ViewStates]
      /\ 1..NoView.after = {} /\ NoView.state = "open"
  BY DEF NoView, ViewStates
<1>5. store' \in StoreFields
  BY <1>1, <1>2 DEF LogType, StoreFields
<1>6. LogType'
  BY <1>1, <1>2, <1>3, <1>4, <1>5, EmptySeq DEF LogType
<1>7. HandsAreEmpty'
  BY <1>2, <1>3 DEF HandsAreEmpty
<1>8. Held' = {}
  BY <1>1, <1>2, <1>3, <1>6, HeldMembers, NoMembers DEF Held
<1>9. RecordsOK'
  <2>1. PICK n \in Nat : \A r \in appended : r.seq <= n
    BY <1>1 DEF RecordsOK
  <2>2. log.rows \subseteq appended /\ \A r, o \in log.rows : r.seq = o.seq => r = o
    BY <1>1 DEF RecordsOK
  <2>. QED  BY <1>2, <1>8, <2>1, <2>2 DEF RecordsOK, RecordOrItsNumber
<1>10. NumbersOK'
  <2>1. threads'["session"] = LooksForNewest
    BY <1>2 DEF LogThreads
  <2>2. \A r, o \in appended' : r.seq = o.seq => r = o
    BY <1>1, <1>2 DEF RecordsOK
  <2>. QED  BY <1>3, <2>1, <2>2 DEF NumbersOK, NumbersNameRecords
<1>11. ViewsHaveNoGap'
  <2>1. \A t \in Readers : threads'[t] = At0
    BY <1>2, LogAssumption DEF LogThreads
  <2>. QED  BY <1>2, <1>3, <1>4, <2>1 DEF ViewsHaveNoGap
<1>. QED  BY <1>6, <1>7, <1>9, <1>10, <1>11 DEF LogInv

\* Every step keeps the invariant.
LEMMA NextKeepsLogInv == LogInv /\ [LogNext]_logVars => LogInv'
<1>. SUFFICES ASSUME LogInv, [LogNext]_logVars PROVE LogInv'
  OBVIOUS
<1>1. store.next \in Nat /\ store.asked \subseteq Nat
  BY DEF LogInv, LogType, StoreFields
<1>2. ASSUME AppendText \/ AppendAsk \/ AppendAnswer \/ AppendEnd PROVE LogInv'
  <2>1. PICK kind \in Kinds, of \in Nat : AppendEvent(kind, of)
    BY <1>1, <1>2 DEF AppendText, AppendAsk, AppendAnswer, AppendEnd, Kinds
  <2>. QED  BY <2>1, LogAppendKeepsInv
<1>3. ASSUME NEW t \in Readers \cup {"session"},
             TakeWaiting(t) \/ WriteRecords(t) \/ RestoreRecords(t)
      PROVE  LogInv'
  BY <1>3, TakeKeepsInv, LogWriteKeepsInv, RestoreKeepsInv DEF LogThreads
<1>4. ASSUME NEW t \in Readers, AskForPage(t) \/ ReadRows(t) \/ StartOver(t)
      PROVE  LogInv'
  BY <1>4, AskKeepsInv, ReadKeepsInv, StartOverKeepsInv
<1>5. CASE Reconnect
  BY <1>5, ReconnectKeepsInv
<1>6. CASE StoreStarts
  BY <1>6, StoreStartsKeepsInv
<1>7. CASE LogCrash
  BY <1>7, LogCrashKeepsInv
<1>8. CASE UNCHANGED logVars
  <2>. USE <1>8 DEF logVars
  <2>1. LogType'
    BY DEF LogInv, LogType
  <2>2. HandsAreEmpty' /\ ViewsHaveNoGap' /\ NumbersOK'
    BY DEF LogInv, HandsAreEmpty, ViewsHaveNoGap, NumbersOK, NumbersNameRecords
  <2>3. RecordsOK'
    <3>1. Held' = Held
      BY DEF Held, Unflushed, Unwritten
    <3>2. RecordsOK
      BY DEF LogInv
    <3>. QED  BY <3>1, <3>2, RecordsMove
  <2>. QED  BY <2>1, <2>2, <2>3 DEF LogInv
<1>. QED  BY <1>2, <1>3, <1>4, <1>5, <1>6, <1>7, <1>8 DEF LogNext

\* The invariant, for any readers and any number of events, failures, restarts and
\* reconnects.
THEOREM LogInvariant == LogSpec => []LogInv
<1>1. LogInit => LogInv
  BY InitLogInv
<1>2. LogInv /\ [LogNext]_logVars => LogInv'
  BY NextKeepsLogInv
<1>. QED  BY <1>1, <1>2, PTL DEF LogSpec

\* No number is given twice, across reconnects and restarts, while each store started
\* behind every record there was (the newest number could be read, and no reader had
\* records in its hands).
THEOREM NumbersAreGivenOnce == LogSpec => []NumbersNameRecords
<1>1. LogInv => NumbersNameRecords
  BY DEF LogInv, NumbersOK
<1>. QED  BY <1>1, LogInvariant, PTL

\* No record is lost between the vector, the threads that write and the rows, whoever
\* appends while a flush fails (flush_pending, restore_pending): it is in one of the
\* three, and INSERT OR IGNORE drops it only for another record with its number, after
\* a store that started without knowing the newest one.
THEOREM NoRecordIsLost == LogSpec => []AppendedIsAccountedFor
<1>1. LogInv => AppendedIsAccountedFor
  <2>. SUFFICES ASSUME LogInv, NEW r \in appended,
                       r \notin log.rows \cup Unflushed \cup Unwritten
                PROVE  store.blind /\ \E o \in log.rows : o # r /\ o.seq = r.seq
    BY DEF AppendedIsAccountedFor
  <2>1. PICK o \in log.rows : o.seq = r.seq
    BY DEF LogInv, RecordsOK, RecordOrItsNumber
  <2>2. o # r /\ o \in appended
    BY DEF LogInv, RecordsOK
  <2>3. store.blind
    BY <2>1, <2>2 DEF LogInv, NumbersOK, NumbersNameRecords
  <2>. QED  BY <2>1, <2>2, <2>3
<1>. QED  BY <1>1, LogInvariant, PTL

\* A reader that reaches the end of its snapshot and is told of no gap has been given
\* every number up to it (replay_page, scan_event_page_rows).
THEOREM PagesComplete == LogSpec => []BackfillIsComplete
<1>1. LogInv => BackfillIsComplete
  <2>. SUFFICES ASSUME LogInv, NEW t \in Readers, views[t].state = "complete"
                PROVE  1..views[t].snap \subseteq views[t].seen
    BY DEF BackfillIsComplete
  <2>1. views[t].snap \in Nat /\ views[t].after \in Nat
    BY DEF LogInv, LogType
  <2>2. views[t].snap <= views[t].after /\ 1..views[t].after \subseteq views[t].seen
    BY DEF LogInv, ViewsHaveNoGap
  <2>. QED  BY <2>1, <2>2
<1>. QED  BY <1>1, LogInvariant, PTL

--------------------------------------------------------------------------------

(***************************************************************************)
(* The runs of scheduled tasks: a run whose runner is gone can be closed,   *)
(* what is reported of a run is what its record says, and no result of a    *)
(* subscription in force is lost, whatever edits of the task list undo       *)
(* each other.                                                              *)
(*                                                                         *)
(* A run is named by its number.  Everything but the subscriptions is an    *)
(* invariant of each run by itself: of its runner, its record, its lease    *)
(* and the outcomes that have been read from the history to be reported.    *)
(***************************************************************************)
SpareFields == {"limit", "runs", "deaths", "faults", "edits", "minutes", "grants"}
TaskFields == {"present", "enabled", "sub"}
EditFields == {"editor", "next", "step"}
RecordFields == {"id", "status", "leased", "finished", "sub", "hermes"}
RunnerFields == {"run", "pc", "at", "sub", "outcome", "copy"}
ResultFields == {"id", "outcome", "sub", "under", "status"}
MailFields == {"pc", "runs", "copy", "run"}

\* The numbers of the runs so far, the persisted records, and the parts of one run.
Ids == 1..(NewRun - 1)
History == {records[n] : n \in DOMAIN records}
RunnersOf(id) == {x \in runners : x.run = id}
RecordsOf(id) == {r \in History : r.id = id}
Said(id) == {d.outcome : d \in {d \in results : d.id = id}}
            \cup {r.status : r \in {r \in mail.runs : r.id = id}}

Before == {"start", "append"}
Writing == {"early", "persist", "store"}
Telling == {"reread", "enqueue"}

\* xs, rs, said, lease: the runner of a run, its record, the outcomes reported of it and
\* its lease.
RunnerOK(x, rs, said, lease) ==
  /\ DOMAIN x = RunnerFields
  /\ x.pc \in Before \cup {"work"} \cup Writing \cup Telling
  /\ x.pc = "start" => x.outcome = "running"
  /\ x.pc = "append" => x.outcome \in {"running", "failed"}
  /\ (x.pc \in Before => x.pc = "append" /\ x.outcome = "running") => lease = "held"
  /\ x.pc \in Before => rs = {} /\ said = {}
  /\ x.pc \in Telling => x.sub # NoSub
  /\ x.pc = "work" => said = {} /\ \A r \in rs : r.status = "running"
  /\ x.pc \in Writing \cup Telling =>
       /\ x.outcome # "running" /\ said \subseteq {x.outcome}
       /\ \A r \in rs : r.status = x.outcome \/ (x.pc \in Writing /\ r.status = "running")

RecordOK(r, xs, said, lease) ==
  /\ DOMAIN r = RecordFields
  /\ r.finished = (r.status # "running")
  /\ r.hermes = IF r.sub = NoSub THEN "none"
                ELSE IF r.status = "running" THEN "waiting" ELSE "pending"
  /\ r.status = "running" => r.leased /\ said = {} /\ (xs # {} \/ lease = "free")
  /\ r.status # "running" => said \subseteq {r.status}

RunOK(xs, rs, said, lease) ==
  /\ \A x, y \in xs : x = y
  /\ \A x \in xs : RunnerOK(x, rs, said, lease)
  /\ \A r, s \in rs : r = s
  /\ \A r \in rs : RecordOK(r, xs, said, lease)

Run(id) == RunOK(RunnersOf(id), RecordsOf(id), Said(id), leases[id])

RunsOK ==
  /\ \A x \in runners : x.run \in Ids
  /\ \A r \in History : r.id \in Ids
  /\ \A d \in results : d.id \in Ids
  /\ \A r \in mail.runs : r.id \in Ids
  /\ \A id \in Ids : Run(id)

\* A subscription that was given has an id of its own for each grant.  One that was in
\* force once still is, or its grant was withdrawn; an entry of the outbox may be revoked
\* when the grant was, or the route went.
Granted(s) == s = NoSub \/ (s.id \in 1..spare.grants /\ s.grant = s.id)
Followed(s) == Granted(s) /\ (s = NoSub \/ s.grant \in ended \/ (Present /\ task.sub = s))
Revocable(d) == d.sub.grant \in ended \/ d.sub.target \notin routes
RunnerSub(x) ==
  Followed(x.sub) /\ (x.pc = "enqueue" => x.copy = x.sub \/ x.sub.grant \in ended)
EntrySub(d) ==
  Followed(d.sub) /\ d.sub # NoSub /\ (d.status = "revoked" => Revocable(d))

SubsOK ==
  /\ Granted(task.sub) /\ \A e \in edits : Granted(e.next.sub)
  /\ \A x \in runners : RunnerSub(x)
  /\ \A r \in History : Followed(r.sub)
  /\ \A d \in results : EntrySub(d)
  /\ \A r \in mail.runs : Followed(r.sub) /\ r.sub = mail.copy /\ r.sub # NoSub

Sequence(h) == \E S : h \in Seq(S)

ShapeOK ==
  /\ DOMAIN spare = SpareFields /\ DOMAIN task = TaskFields /\ DOMAIN mail = MailFields
  /\ spare.runs \in Nat /\ spare.limit.runs \in Nat /\ spare.limit.keep \in Nat
  /\ spare.runs <= spare.limit.runs /\ spare.grants \in Nat
  /\ DOMAIN leases = 1..spare.limit.runs
  /\ Sequence(records)
  /\ \A d \in results : DOMAIN d = ResultFields
  /\ \A e \in edits : DOMAIN e = EditFields /\ DOMAIN e.next = TaskFields

CronInv == ShapeOK /\ RunsOK /\ SubsOK

-----------------------------------------------------------------------------
\* The history.

\* A history of which each record is kept or changed is still a sequence.
LEMMA ChangedSequence ==
  ASSUME NEW h, Sequence(h), NEW f PROVE Sequence([n \in DOMAIN h |-> f[n]])
<1>. DEFINE k == [n \in DOMAIN h |-> f[n]]
            S == {f[n] : n \in DOMAIN h}
<1>1. DOMAIN h = 1..Len(h) /\ Len(h) \in Nat
  BY DEF Sequence
<1>2. k \in Seq(S)
  BY <1>1
<1>. QED  BY <1>2 DEF Sequence

\* The sweep.
LEMMA SweptHistory ==
  ASSUME NEW i, Sequence(records), records' = Swept(i)
  PROVE  /\ Sequence(records')
         /\ History' = {IF r.status = "running" /\ RunnerIsGone(r, i)
                        THEN ClosedAsFailed(r) ELSE r : r \in History}
<1>. DEFINE f == [n \in DOMAIN records |->
                    IF records[n].status = "running" /\ RunnerIsGone(records[n], i)
                    THEN ClosedAsFailed(records[n]) ELSE records[n]]
<1>1. records' = [n \in DOMAIN records |-> f[n]]
  BY DEF Swept
<1>2. Sequence(records')
  <2>. HIDE DEF f
  <2>. QED  BY <1>1, ChangedSequence
<1>3. DOMAIN records' = DOMAIN records
  BY <1>1
<1>. QED  BY <1>1, <1>2, <1>3 DEF History

\* The outcome of a run is written.
LEMMA OutcomeWritten ==
  ASSUME NEW id, NEW outcome, Sequence(records),
         records' = [n \in DOMAIN records |->
                       IF records[n].id = id THEN WithResult(outcome, records[n])
                       ELSE records[n]]
  PROVE  /\ Sequence(records')
         /\ History' = {IF r.id = id THEN WithResult(outcome, r) ELSE r : r \in History}
<1>. DEFINE f == [n \in DOMAIN records |->
                    IF records[n].id = id THEN WithResult(outcome, records[n])
                    ELSE records[n]]
<1>1. records' = [n \in DOMAIN records |-> f[n]]
  OBVIOUS
<1>2. Sequence(records')
  <2>. HIDE DEF f
  <2>. QED  BY <1>1, ChangedSequence
<1>3. DOMAIN records' = DOMAIN records
  BY <1>1
<1>. QED  BY <1>1, <1>2, <1>3 DEF History

\* A record of a run is replaced.
LEMMA RecordReplaced ==
  ASSUME NEW id, NEW new, Sequence(records),
         records' = [n \in DOMAIN records |->
                       IF records[n].id = id THEN new ELSE records[n]]
  PROVE  /\ Sequence(records')
         /\ History' = {IF r.id = id THEN new ELSE r : r \in History}
<1>. DEFINE f == [n \in DOMAIN records |-> IF records[n].id = id THEN new ELSE records[n]]
<1>1. records' = [n \in DOMAIN records |-> f[n]]
  OBVIOUS
<1>2. Sequence(records')
  <2>. HIDE DEF f
  <2>. QED  BY <1>1, ChangedSequence
<1>3. DOMAIN records' = DOMAIN records
  BY <1>1
<1>. QED  BY <1>1, <1>2, <1>3 DEF History

\* A record is appended, and the oldest ones may go.
LEMMA RecordAppended ==
  ASSUME NEW r, Sequence(records), spare.limit.keep \in Nat, records' = Appended(r)
  PROVE  Sequence(records') /\ History' \subseteq History \cup {r}
<1>1. PICK S : records \in Seq(S)
  BY DEF Sequence
<1>. DEFINE T == S \cup {r}
            all == Append(records, r)
            excess == IF Len(all) > spare.limit.keep THEN Len(all) - spare.limit.keep ELSE 0
<1>2. /\ all \in Seq(T) /\ Len(all) = Len(records) + 1 /\ Len(records) \in Nat
      /\ \A n \in 1..Len(all) : all[n] = IF n <= Len(records) THEN records[n] ELSE r
  BY <1>1
<1>3. excess \in 0..Len(all)
  BY <1>2
<1>. HIDE DEF all
<1>4. records' = SubSeq(all, excess + 1, Len(all))
  BY DEF Appended, all
<1>. HIDE DEF excess
<1>5. /\ records' \in Seq(T) /\ Len(records') = Len(all) - excess
      /\ \A n \in 1..Len(records') : records'[n] = all[n + excess]
  BY <1>2, <1>3, <1>4
<1>6. ASSUME NEW n \in DOMAIN records' PROVE records'[n] \in History \cup {r}
  <2>1. n + excess \in 1..Len(all) /\ records'[n] = all[n + excess]
    BY <1>2, <1>3, <1>5
  <2>2. DOMAIN records = 1..Len(records)
    BY <1>1
  <2>. QED  BY <1>2, <2>1, <2>2 DEF History
<1>. QED  BY <1>5, <1>6 DEF Sequence, History

-----------------------------------------------------------------------------
\* One run.

\* Records may be removed, and less may be said of a run.
LEMMA LessOfARun ==
  ASSUME NEW xs, NEW rs, NEW said, NEW lease, RunOK(xs, rs, said, lease),
         NEW rs2 \in SUBSET rs, NEW said2 \in SUBSET said
  PROVE  RunOK(xs, rs2, said2, lease)
BY DEF RunOK, RunnerOK, RecordOK

\* A runner that ends leaves its lease behind: its record can be closed.
LEMMA RunnerGone ==
  ASSUME NEW xs, NEW rs, NEW said, NEW lease, RunOK(xs, rs, said, lease), xs # {}
  PROVE  RunOK({}, rs, said, IF lease = "held" THEN "free" ELSE lease)
<1>1. PICK x \in xs : RunnerOK(x, rs, said, lease)
  BY DEF RunOK
<1>2. rs # {} => lease = "held"
  BY <1>1 DEF RunnerOK
<1>. QED  BY <1>2 DEF RunOK, RecordOK

\* The sweep closes no run that has a runner.
LEMMA RunSwept ==
  ASSUME NEW xs, NEW rs, NEW said, NEW lease, RunOK(xs, rs, said, lease)
  PROVE  RunOK(xs, {IF r.status = "running" /\ r.leased /\ lease = "free"
                    THEN ClosedAsFailed(r) ELSE r : r \in rs}, said, lease)
<1>1. CASE lease = "free" /\ rs # {}
  <2>1. xs = {}
    BY <1>1 DEF RunOK, RunnerOK
  <2>2. ASSUME NEW r \in rs, r.status = "running" PROVE RecordOK(ClosedAsFailed(r), {}, said, lease)
    BY <2>1, <2>2 DEF RunOK, RecordOK, ClosedAsFailed, RecordFields
  <2>. QED  BY <2>1, <2>2 DEF RunOK
<1>2. CASE lease # "free" \/ rs = {}
  <2>1. {IF r.status = "running" /\ r.leased /\ lease = "free" THEN ClosedAsFailed(r)
         ELSE r : r \in rs} = rs
    BY <1>2
  <2>. QED  BY <2>1
<1>. QED  BY <1>1, <1>2

-----------------------------------------------------------------------------
\* All runs.

\* What an action leaves of the runs it is not about.
Others(id) ==
  /\ RunnersOf(id)' = RunnersOf(id) /\ leases'[id] = leases[id]
  /\ RecordsOf(id)' \subseteq RecordsOf(id) /\ Said(id)' \subseteq Said(id)

\* Everything that is known belongs to a run.
Named ==
  /\ \A x \in runners : x.run \in Ids
  /\ \A r \in History : r.id \in Ids
  /\ \A d \in results : d.id \in Ids
  /\ \A r \in mail.runs : r.id \in Ids

\* A run that is left alone.
LEMMA OtherRun == ASSUME NEW id, Run(id), Others(id) PROVE Run(id)'
<1>1. /\ RunOK(RunnersOf(id), RecordsOf(id)', Said(id)', leases[id])
      /\ RunnersOf(id)' = RunnersOf(id) /\ leases'[id] = leases[id]
  BY LessOfARun DEF Run, Others
<1>2. RunOK(RunnersOf(id)', RecordsOf(id)', Said(id)', leases'[id])
  BY <1>1
<1>. QED  BY <1>2 DEF Run

\* An action that is about one run.
LEMMA OneRun ==
  ASSUME RunsOK, Ids' = Ids, Named', NEW k, Run(k)',
         \A id \in Ids : id # k => Others(id)
  PROVE  RunsOK'
<1>1. \A id \in Ids : Run(id)'
  BY OtherRun DEF RunsOK
<1>. QED  BY <1>1 DEF RunsOK, Named

\* An action that is about no run.
LEMMA NoRun == ASSUME RunsOK, Ids' = Ids, Named', \A id \in Ids : Others(id) PROVE RunsOK'
<1>1. \A id \in Ids : Run(id)'
  BY OtherRun DEF RunsOK
<1>. QED  BY <1>1 DEF RunsOK, Named

\* A runner takes a step.
LEMMA RunnerSteps ==
  ASSUME RunsOK, NEW x \in runners, NEW y, y.run = x.run, Step(x, y)
  PROVE  /\ RunnersOf(x.run)' = {y}
         /\ \A id : id # x.run => RunnersOf(id)' = RunnersOf(id)
         /\ \A z \in runners' : z = y \/ z \in runners
<1>1. RunnersOf(x.run) = {x}
  BY DEF RunsOK, Run, RunOK, RunnersOf
<1>. QED  BY <1>1 DEF RunnersOf, Step

\* A runner ends.
LEMMA RunnerEnds ==
  ASSUME RunsOK, ShapeOK, Ids \subseteq 1..spare.limit.runs, NEW x \in runners, Ends(x)
  PROVE  /\ RunnersOf(x.run)' = {}
         /\ \A id : id # x.run => RunnersOf(id)' = RunnersOf(id)
         /\ runners' \subseteq runners
         /\ DOMAIN leases' = DOMAIN leases
         /\ leases'[x.run] = IF leases[x.run] = "held" THEN "free" ELSE leases[x.run]
         /\ \A id \in Ids : id # x.run => leases'[id] = leases[id]
<1>1. RunnersOf(x.run) = {x}
  BY DEF RunsOK, Run, RunOK, RunnersOf
<1>2. x.run \in DOMAIN leases
  BY DEF RunsOK, ShapeOK
<1>. QED  BY <1>1, <1>2 DEF RunnersOf, Ends

-----------------------------------------------------------------------------
\* What the actions share.

\* No run starts and no subscription is given.
Steady ==
  /\ DOMAIN spare' = SpareFields /\ spare'.runs = spare.runs
  /\ spare'.limit = spare.limit /\ spare'.grants = spare.grants

\* What is left of the other bounds says nothing about runs.
LEMMA SteadySpare ==
  ASSUME ShapeOK, NEW what \in {"faults", "deaths", "edits", "minutes"},
         UNCHANGED spare \/ Draw(what)
  PROVE  Steady
BY DEF ShapeOK, Draw, Steady, SpareFields

\* The numbers of the runs so far are numbers of leases.
LEMMA IdsAreLeased ==
  ASSUME ShapeOK PROVE Ids \subseteq 1..spare.limit.runs /\ Ids \subseteq DOMAIN leases
BY DEF ShapeOK, Ids, NewRun

LEMMA SteadyIds == ASSUME Steady PROVE Ids' = Ids
BY DEF Steady, Ids, NewRun

\* A new run gets a number that no run has.
LEMMA NextRun ==
  ASSUME ShapeOK, Draw("runs")
  PROVE  /\ Ids' = Ids \cup {NewRun} /\ NewRun \notin Ids
         /\ DOMAIN spare' = SpareFields /\ spare'.limit = spare.limit
         /\ spare'.grants = spare.grants
         /\ spare'.runs \in Nat /\ spare'.runs <= spare.limit.runs
<1>1. /\ DOMAIN spare' = SpareFields /\ spare'.limit = spare.limit
      /\ spare'.grants = spare.grants /\ spare'.runs = spare.runs - 1 /\ spare.runs > 0
  BY DEF ShapeOK, Draw, SpareFields
<1>2. /\ spare.runs \in Nat /\ spare.limit.runs \in Nat
      /\ spare.runs <= spare.limit.runs
  BY DEF ShapeOK
<1>3. NewRun' = NewRun + 1 /\ NewRun \in Nat /\ NewRun >= 1
  BY <1>1, <1>2 DEF NewRun
<1>4. Ids' = 1..NewRun
  BY <1>3 DEF Ids
<1>. QED  BY <1>1, <1>2, <1>3, <1>4 DEF Ids

\* The shapes of things.
LEMMA ShapeKept ==
  ASSUME ShapeOK, Steady, DOMAIN task' = TaskFields, DOMAIN mail' = MailFields,
         DOMAIN leases' = DOMAIN leases, Sequence(records'),
         \A d \in results' : DOMAIN d = ResultFields, edits' \subseteq edits
  PROVE  ShapeOK'
BY DEF ShapeOK, Steady, Sequence

\* The subscriptions, when the task does not change.
LEMMA SubsKept ==
  ASSUME SubsOK, spare'.grants = spare.grants, UNCHANGED <<task, ended, routes>>,
         edits' \subseteq edits,
         \A x \in runners' : RunnerSub(x), \A r \in History' : Followed(r.sub),
         \A d \in results' : EntrySub(d),
         \A r \in mail'.runs : Followed(r.sub) /\ r.sub = mail'.copy /\ r.sub # NoSub
  PROVE  SubsOK'
<1>1. \A u : Granted(u)' <=> Granted(u)
  BY DEF Granted
<1>2. \A u : Followed(u)' <=> Followed(u)
  BY <1>1 DEF Followed, Present
<1>3. /\ \A x : RunnerSub(x)' <=> RunnerSub(x)
      /\ \A d : EntrySub(d)' <=> EntrySub(d)
  BY <1>2 DEF RunnerSub, EntrySub, Revocable
<1>. QED  BY <1>1, <1>2, <1>3 DEF SubsOK

\* The parts of the state that are not changed.
LEMMA SameParts ==
  /\ records' = records =>
       History' = History /\ \A id : RecordsOf(id)' = RecordsOf(id)
  /\ runners' = runners => \A id : RunnersOf(id)' = RunnersOf(id)
  /\ results' = results /\ mail'.runs = mail.runs => \A id : Said(id)' = Said(id)
BY DEF History, RecordsOf, RunnersOf, Said

\* A record has the fields of a record.
LEMMA RecordsShape ==
  ASSUME RunsOK, NEW r \in History PROVE DOMAIN r = RecordFields /\ r.id \in Ids
BY DEF RunsOK, Run, RunOK, RecordOK, RecordsOf

LEMMA RunnersShape ==
  ASSUME RunsOK, NEW x \in runners
  PROVE  x.run \in Ids /\ RunnerOK(x, RecordsOf(x.run), Said(x.run), leases[x.run])
BY DEF RunsOK, Run, RunOK, RunnersOf

-----------------------------------------------------------------------------
\* The actions.

LEMMA SweepKeepsInv == ASSUME CronInv, NEW i, SweepRuns(i) PROVE CronInv'
<1>1. ShapeOK /\ RunsOK /\ SubsOK
  BY DEF CronInv
<1>2. Steady
  <2>1. UNCHANGED spare \/ Draw("faults")
    BY DEF SweepRuns, Works, Fails
  <2>. QED  BY <1>1, <2>1, SteadySpare
<1>3. /\ UNCHANGED <<listVars, routes>> /\ leases' = leases /\ runners' = runners /\ results' = results
      /\ mail' = mail
      /\ records' = Swept(i) \/ records' = records
  BY DEF SweepRuns
<1>4. CASE records' = records
  <2>1. \A id \in Ids : Others(id)
    BY <1>3, <1>4, SameParts DEF Others
  <2>2. Named' /\ Ids' = Ids
    BY <1>1, <1>2, <1>3, <1>4, SameParts, SteadyIds DEF RunsOK, Named
  <2>3. RunsOK'
    BY <1>1, <2>1, <2>2, NoRun
  <2>4. ShapeOK'
    BY <1>1, <1>2, <1>3, <1>4, ShapeKept DEF ShapeOK, listVars
  <2>5. SubsOK'
    BY <1>1, <1>2, <1>3, <1>4, SubsKept, SameParts DEF SubsOK, Steady, listVars
  <2>. QED  BY <2>3, <2>4, <2>5 DEF CronInv
<1>5. CASE records' = Swept(i)
  <2>. DEFINE C(r) == IF r.status = "running" /\ RunnerIsGone(r, i)
                      THEN ClosedAsFailed(r) ELSE r
  <2>1. Sequence(records') /\ History' = {C(r) : r \in History}
    BY <1>1, <1>5, SweptHistory DEF ShapeOK
  <2>2. \A r \in History : C(r).id = r.id /\ C(r).sub = r.sub
    BY <1>1, RecordsShape DEF ClosedAsFailed, RecordFields
  <2>. HIDE DEF C
  <2>3. \A id : RecordsOf(id)' = {C(r) : r \in RecordsOf(id)}
    BY <2>1, <2>2 DEF RecordsOf
  <2>4. ASSUME NEW id \in Ids PROVE Run(id)'
    <3>. DEFINE D(r) == IF r.status = "running" /\ r.leased /\ leases[id] = "free"
                        THEN ClosedAsFailed(r) ELSE r
    <3>1. \A r \in RecordsOf(id) : C(r) = D(r)
      BY DEF C, RunnerIsGone, RecordsOf
    <3>2. RecordsOf(id)' = {D(r) : r \in RecordsOf(id)}
      BY <2>3, <3>1
    <3>3. RunOK(RunnersOf(id), {D(r) : r \in RecordsOf(id)}, Said(id), leases[id])
      BY <1>1, RunSwept DEF RunsOK, Run
    <3>4. RunnersOf(id)' = RunnersOf(id) /\ Said(id)' = Said(id) /\ leases'[id] = leases[id]
      BY <1>3, SameParts
    <3>. HIDE DEF D
    <3>5. RunOK(RunnersOf(id)', RecordsOf(id)', Said(id)', leases'[id])
      BY <3>2, <3>3, <3>4
    <3>. QED  BY <3>5 DEF Run
  <2>5. RunsOK'
    BY <1>1, <1>2, <1>3, <2>1, <2>2, <2>4, SteadyIds DEF RunsOK
  <2>6. ShapeOK'
    BY <1>1, <1>2, <1>3, <2>1, ShapeKept DEF ShapeOK, listVars
  <2>7. SubsOK'
    BY <1>1, <1>2, <1>3, <2>1, <2>2, SubsKept DEF SubsOK, Steady, listVars
  <2>. QED  BY <2>5, <2>6, <2>7 DEF CronInv
<1>. QED  BY <1>3, <1>4, <1>5

\* A runner starts, with a number no run has.
LEMMA LaunchKeepsInv ==
  ASSUME CronInv, NEW i, Launched(i), Draw("runs"), Present,
         UNCHANGED <<listVars, routes, records, leases, results, mail>>
  PROVE  CronInv'
<1>. DEFINE x == Runner(i)
<1>1. ShapeOK /\ RunsOK /\ SubsOK
  BY DEF CronInv
<1>. PICK k : k = NewRun
  OBVIOUS
<1>2. /\ Ids' = Ids \cup {k} /\ k \notin Ids
      /\ DOMAIN spare' = SpareFields /\ spare'.limit = spare.limit
      /\ spare'.grants = spare.grants
      /\ spare'.runs \in Nat /\ spare'.runs <= spare.limit.runs
  BY <1>1, NextRun
<1>3. runners' = runners \cup {x}
  BY DEF Launched
<1>4. /\ DOMAIN x = RunnerFields /\ x.run = k /\ x.pc = "start" /\ x.sub = task.sub
      /\ x.outcome = "running"
  BY DEF Runner, RunnerFields
<1>. HIDE DEF x
<1>5. ASSUME NEW id \in Ids PROVE Run(id)'
  <2>1. RunnersOf(id)' = RunnersOf(id)
    BY <1>2, <1>3, <1>4 DEF RunnersOf
  <2>2. Others(id)
    BY <2>1, SameParts DEF Others
  <2>. QED  BY <1>1, <2>2, OtherRun DEF RunsOK
<1>6. Run(k)'
  <2>1. RunnersOf(k)' = {x}
    BY <1>1, <1>2, <1>3, <1>4 DEF RunnersOf, RunsOK
  <2>2. RecordsOf(k)' = {} /\ Said(k)' = {}
    BY <1>1, <1>2, SameParts DEF RecordsOf, Said, RunsOK
  <2>3. RunOK({x}, {}, {}, leases'[k])
    BY <1>4 DEF RunOK, RunnerOK, Before, Writing, Telling
  <2>4. RunOK(RunnersOf(k)', RecordsOf(k)', Said(k)', leases'[k])
    BY <2>1, <2>2, <2>3
  <2>. QED  BY <2>4 DEF Run
<1>7. RunsOK'
  <2>1. Named'
    BY <1>1, <1>2, <1>3, <1>4, SameParts DEF RunsOK, Named
  <2>. QED  BY <1>2, <1>5, <1>6, <2>1 DEF RunsOK, Named
<1>8. ShapeOK'
  BY <1>1, <1>2 DEF ShapeOK, Sequence, listVars
<1>9. SubsOK'
  <2>1. RunnerSub(x)
    BY <1>1, <1>4 DEF SubsOK, RunnerSub, Followed
  <2>. QED  BY <1>1, <1>2, <1>3, <2>1, SubsKept, SameParts DEF SubsOK, listVars
<1>. QED  BY <1>7, <1>8, <1>9 DEF CronInv

\* A runner takes a step that writes nothing.
LEMMA StepKeepsInv ==
  ASSUME CronInv, NEW x \in runners, NEW y, Step(x, y), y.run = x.run, y.sub = x.sub,
         leases' = leases \/ (x.pc = "start" /\ leases' = [leases EXCEPT ![x.run] = "held"]),
         RunnerOK(y, RecordsOf(x.run), Said(x.run), leases'[x.run]),
         y.pc = "enqueue" => y.copy = x.sub \/ x.sub.grant \in ended,
         Steady, UNCHANGED <<listVars, routes, records, results, mail>>
  PROVE  CronInv'
<1>1. ShapeOK /\ RunsOK /\ SubsOK
  BY DEF CronInv
<1>2. /\ RunnersOf(x.run)' = {y}
      /\ \A id : id # x.run => RunnersOf(id)' = RunnersOf(id)
      /\ \A z \in runners' : z = y \/ z \in runners
  BY <1>1, RunnerSteps
<1>3. x.run \in Ids /\ RunnerOK(x, RecordsOf(x.run), Said(x.run), leases[x.run])
  BY <1>1, RunnersShape
<1>4. /\ DOMAIN leases' = DOMAIN leases
      /\ \A id \in Ids : id # x.run => leases'[id] = leases[id]
  BY <1>1, <1>3, IdsAreLeased
<1>5. Run(x.run)'
  <2>1. RecordsOf(x.run)' = RecordsOf(x.run) /\ Said(x.run)' = Said(x.run)
    BY SameParts
  <2>2. RunOK(RunnersOf(x.run), RecordsOf(x.run), Said(x.run), leases[x.run])
    BY <1>1, <1>3 DEF RunsOK, Run
  <2>3. \A r \in RecordsOf(x.run) : RecordOK(r, {y}, Said(x.run), leases'[x.run])
    BY <2>2 DEF RunOK, RecordOK
  <2>4. RunOK({y}, RecordsOf(x.run), Said(x.run), leases'[x.run])
    BY <2>2, <2>3 DEF RunOK
  <2>5. RunOK(RunnersOf(x.run)', RecordsOf(x.run)', Said(x.run)', leases'[x.run])
    BY <1>2, <2>1, <2>4
  <2>. QED  BY <2>5 DEF Run
<1>6. \A id \in Ids : id # x.run => Others(id)
  BY <1>2, <1>4, SameParts DEF Others
<1>7. Named' /\ Ids' = Ids
  BY <1>1, <1>2, <1>3, SameParts, SteadyIds DEF RunsOK, Named
<1>8. RunsOK'
  BY <1>1, <1>5, <1>6, <1>7, OneRun
<1>9. ShapeOK'
  BY <1>1, <1>4, ShapeKept DEF ShapeOK, listVars
<1>10. SubsOK'
  <2>1. RunnerSub(y)
    BY <1>1 DEF SubsOK, RunnerSub
  <2>. QED  BY <1>1, <1>2, <2>1, SubsKept, SameParts DEF SubsOK, Steady, listVars
<1>. QED  BY <1>8, <1>9, <1>10 DEF CronInv

\* A runner ends, whether it has come to its end or not.
LEMMA EndKeepsInv ==
  ASSUME CronInv, NEW x \in runners, Ends(x), Steady,
         UNCHANGED <<listVars, routes, records, results, mail>>
  PROVE  CronInv'
<1>1. ShapeOK /\ RunsOK /\ SubsOK
  BY DEF CronInv
<1>2. /\ RunnersOf(x.run)' = {}
      /\ \A id : id # x.run => RunnersOf(id)' = RunnersOf(id)
      /\ runners' \subseteq runners
      /\ DOMAIN leases' = DOMAIN leases
      /\ leases'[x.run] = IF leases[x.run] = "held" THEN "free" ELSE leases[x.run]
      /\ \A id \in Ids : id # x.run => leases'[id] = leases[id]
  BY <1>1, RunnerEnds, IdsAreLeased
<1>3. x.run \in Ids
  BY <1>1, RunnersShape
<1>4. Run(x.run)'
  <2>1. RecordsOf(x.run)' = RecordsOf(x.run) /\ Said(x.run)' = Said(x.run)
    BY SameParts
  <2>2. RunOK(RunnersOf(x.run), RecordsOf(x.run), Said(x.run), leases[x.run])
    BY <1>1, <1>3 DEF RunsOK, Run
  <2>3. RunOK({}, RecordsOf(x.run), Said(x.run), leases'[x.run])
    BY <1>2, <2>2, RunnerGone DEF RunnersOf
  <2>4. RunOK(RunnersOf(x.run)', RecordsOf(x.run)', Said(x.run)', leases'[x.run])
    BY <1>2, <2>1, <2>3
  <2>. QED  BY <2>4 DEF Run
<1>5. \A id \in Ids : id # x.run => Others(id)
  BY <1>2, SameParts DEF Others
<1>6. Named' /\ Ids' = Ids
  BY <1>1, <1>2, <1>3, SameParts, SteadyIds DEF RunsOK, Named
<1>7. RunsOK'
  BY <1>1, <1>4, <1>5, <1>6, OneRun
<1>8. ShapeOK'
  BY <1>1, <1>2, ShapeKept DEF ShapeOK, listVars
<1>9. SubsOK'
  BY <1>1, <1>2, SubsKept, SameParts DEF SubsOK, Steady, listVars
<1>. QED  BY <1>7, <1>8, <1>9 DEF CronInv

\* A step of a runner that writes its record.
LEMMA WriteKeepsInv ==
  ASSUME CronInv, NEW x \in runners, Steady, UNCHANGED <<listVars, routes, results, mail>>,
         Sequence(records'),
         \A r \in History' : r \in History \/ (r.id = x.run /\ Followed(r.sub)),
         \A id : id # x.run => RunnersOf(id)' = RunnersOf(id),
         \A z \in runners' :
           z \in runners \/ (z.run = x.run /\ z.sub = x.sub /\ z.pc # "enqueue"),
         DOMAIN leases' = DOMAIN leases,
         \A id \in Ids : id # x.run => leases'[id] = leases[id],
         RunOK(RunnersOf(x.run)', RecordsOf(x.run)', Said(x.run), leases'[x.run])
  PROVE  CronInv'
<1>1. ShapeOK /\ RunsOK /\ SubsOK
  BY DEF CronInv
<1>2. x.run \in Ids
  BY <1>1, RunnersShape
<1>3. Run(x.run)'
  <2>1. Said(x.run)' = Said(x.run)
    BY SameParts
  <2>2. RunOK(RunnersOf(x.run)', RecordsOf(x.run)', Said(x.run)', leases'[x.run])
    BY <2>1
  <2>. QED  BY <2>2 DEF Run
<1>4. ASSUME NEW id \in Ids, id # x.run PROVE Others(id)
  <2>1. RecordsOf(id)' \subseteq RecordsOf(id)
    BY <1>4 DEF RecordsOf
  <2>. QED  BY <1>4, <2>1, SameParts DEF Others
<1>5. Named' /\ Ids' = Ids
  BY <1>1, <1>2, SteadyIds DEF RunsOK, Named
<1>6. RunsOK'
  BY <1>1, <1>3, <1>4, <1>5, OneRun
<1>7. ShapeOK'
  BY <1>1, ShapeKept DEF ShapeOK, listVars
<1>8. SubsOK'
  <2>1. \A z \in runners' : RunnerSub(z)
    BY <1>1 DEF SubsOK, RunnerSub
  <2>. QED  BY <1>1, <2>1, SubsKept DEF SubsOK, Steady, listVars
<1>. QED  BY <1>6, <1>7, <1>8 DEF CronInv

\* The first record of a run.
LEMMA FirstRecordOK ==
  ASSUME NEW x, DOMAIN x = RunnerFields, x.outcome \in {"running", "failed"}
  PROVE  LET r == FirstRecord(x)
         IN  /\ DOMAIN r = RecordFields /\ r.id = x.run /\ r.sub = x.sub
             /\ r.status = x.outcome /\ r.finished = (r.status # "running")
             /\ r.status = "running" => r.leased
             /\ r.hermes = IF r.sub = NoSub THEN "none"
                           ELSE IF r.status = "running" THEN "waiting" ELSE "pending"
BY DEF FirstRecord, WithResult, RecordFields

LEMMA AppendKeepsInv == ASSUME CronInv, NEW x \in runners, AppendRecord(x) PROVE CronInv'
<1>. DEFINE r == FirstRecord(x)
<1>1. ShapeOK /\ RunsOK /\ SubsOK
  BY DEF CronInv
<1>2. Steady
  <2>1. UNCHANGED spare \/ Draw("faults")
    BY DEF AppendRecord, Works, Fails
  <2>. QED  BY <1>1, <2>1, SteadySpare
<1>3. x.run \in Ids /\ RunnerOK(x, RecordsOf(x.run), Said(x.run), leases[x.run])
  BY <1>1, RunnersShape
<1>4. /\ DOMAIN x = RunnerFields /\ x.outcome \in {"running", "failed"}
      /\ RecordsOf(x.run) = {} /\ Said(x.run) = {}
      /\ x.outcome = "running" => leases[x.run] = "held"
  BY <1>3 DEF RunnerOK, AppendRecord, Before
<1>5. /\ DOMAIN r = RecordFields /\ r.id = x.run /\ r.sub = x.sub
      /\ r.status = x.outcome /\ r.finished = (r.status # "running")
      /\ r.status = "running" => r.leased
      /\ r.hermes = IF r.sub = NoSub THEN "none"
                    ELSE IF r.status = "running" THEN "waiting" ELSE "pending"
  BY <1>4, FirstRecordOK
<1>6. UNCHANGED <<listVars, routes, results, mail>>
  BY DEF AppendRecord
<1>7. CASE records' = records /\ Ends(x)
  BY <1>2, <1>6, <1>7, EndKeepsInv
<1>8. ASSUME records' = Appended(r),
             IF x.outcome = "failed" THEN Ends(x)
             ELSE Step(x, [x EXCEPT !.pc = "work"]) /\ UNCHANGED leases
      PROVE  CronInv'
  <2>. HIDE DEF r
  <2>1. Sequence(records') /\ History' \subseteq History \cup {r}
    BY <1>1, <1>8, RecordAppended DEF ShapeOK
  <2>2. \A s \in History' : s \in History \/ (s.id = x.run /\ Followed(s.sub))
    BY <1>1, <1>5, <2>1 DEF SubsOK, RunnerSub
  <2>3. RecordsOf(x.run)' \subseteq {r}
    BY <1>4, <2>1 DEF RecordsOf
  <2>4. CASE x.outcome = "failed"
    <3>1. Ends(x)
      BY <1>8, <2>4
    <3>2. /\ RunnersOf(x.run)' = {} /\ runners' \subseteq runners
          /\ \A id : id # x.run => RunnersOf(id)' = RunnersOf(id)
          /\ DOMAIN leases' = DOMAIN leases
          /\ \A id \in Ids : id # x.run => leases'[id] = leases[id]
      BY <1>1, <3>1, RunnerEnds, IdsAreLeased
    <3>3. RunOK(RunnersOf(x.run)', RecordsOf(x.run)', Said(x.run), leases'[x.run])
      <4>1. RunOK({}, {r}, {}, leases'[x.run])
        BY <1>5, <2>4 DEF RunOK, RecordOK
      <4>. QED  BY <1>4, <2>3, <3>2, <4>1, LessOfARun
    <3>. QED  BY <1>2, <1>6, <2>1, <2>2, <3>2, <3>3, WriteKeepsInv
  <2>5. CASE x.outcome = "running"
    <3>. DEFINE y == [x EXCEPT !.pc = "work"]
    <3>1. Step(x, y) /\ leases' = leases
      BY <1>8, <2>5
    <3>2. /\ DOMAIN y = RunnerFields /\ y.run = x.run /\ y.sub = x.sub /\ y.pc = "work"
      BY <1>4 DEF RunnerFields
    <3>. HIDE DEF y
    <3>3. /\ RunnersOf(x.run)' = {y}
          /\ \A id : id # x.run => RunnersOf(id)' = RunnersOf(id)
          /\ \A z \in runners' : z = y \/ z \in runners
      BY <1>1, <3>1, <3>2, RunnerSteps
    <3>4. RunOK(RunnersOf(x.run)', RecordsOf(x.run)', Said(x.run), leases'[x.run])
      <4>1. RunOK({y}, {r}, {}, leases[x.run])
        BY <1>4, <1>5, <2>5, <3>2
           DEF RunOK, RecordOK, RunnerOK, Before, Writing, Telling
      <4>. QED  BY <1>4, <2>3, <3>1, <3>3, <4>1, LessOfARun
    <3>. QED  BY <1>2, <1>6, <2>1, <2>2, <3>1, <3>2, <3>3, <3>4, WriteKeepsInv
  <2>. QED  BY <1>4, <2>4, <2>5
<1>. QED  BY <1>7, <1>8 DEF AppendRecord

\* The outcome, written before and after the output is drained.
LEMMA PersistKeepsInv == ASSUME CronInv, NEW x \in runners, PersistOutcome(x) PROVE CronInv'
<1>. DEFINE y == [x EXCEPT !.pc = IF @ = "early" THEN "persist" ELSE "store"]
            W(r) == WithResult(x.outcome, r)
<1>1. ShapeOK /\ RunsOK /\ SubsOK
  BY DEF CronInv
<1>2. Steady
  <2>1. UNCHANGED spare \/ Draw("faults")
    BY DEF PersistOutcome, Works, Fails
  <2>. QED  BY <1>1, <2>1, SteadySpare
<1>3. x.run \in Ids /\ RunnerOK(x, RecordsOf(x.run), Said(x.run), leases[x.run])
  BY <1>1, RunnersShape
<1>4. /\ DOMAIN x = RunnerFields /\ x.pc \in {"early", "persist"}
      /\ x.outcome # "running" /\ leases[x.run] = "held"
      /\ Said(x.run) \subseteq {x.outcome}
      /\ \A r \in RecordsOf(x.run) : r.status \in {"running", x.outcome}
  BY <1>3 DEF RunnerOK, PersistOutcome, Before, Writing
<1>5. Step(x, y) /\ UNCHANGED <<listVars, routes, leases, results, mail>>
  BY DEF PersistOutcome
<1>6. /\ DOMAIN y = RunnerFields /\ y.run = x.run /\ y.sub = x.sub
      /\ y.outcome = x.outcome /\ y.pc \in {"persist", "store"}
  BY <1>4 DEF RunnerFields
<1>. HIDE DEF y
<1>7. ASSUME NEW rs, \A r \in rs : r.status \in {"running", x.outcome}
      PROVE  RunnerOK(y, rs, Said(x.run), leases[x.run])
  BY <1>4, <1>6, <1>7 DEF RunnerOK, Before, Writing, Telling
<1>8. CASE records' = records
  <2>1. RunnerOK(y, RecordsOf(x.run), Said(x.run), leases[x.run])
    BY <1>4, <1>7
  <2>. QED  BY <1>2, <1>5, <1>6, <1>8, <2>1, StepKeepsInv
<1>9. CASE records' = [n \in DOMAIN records |->
                         IF records[n].id = x.run THEN W(records[n]) ELSE records[n]]
  <2>1. /\ Sequence(records')
        /\ History' = {IF r.id = x.run THEN W(r) ELSE r : r \in History}
    BY <1>1, <1>9, OutcomeWritten DEF ShapeOK
  <2>2. \A r \in History :
          /\ DOMAIN W(r) = RecordFields /\ W(r).id = r.id /\ W(r).sub = r.sub
          /\ W(r).status = x.outcome /\ W(r).finished = TRUE
          /\ W(r).hermes = IF r.hermes = "none" THEN "none" ELSE "pending"
    BY <1>1, RecordsShape DEF WithResult, RecordFields
  <2>. HIDE DEF W
  <2>3. RecordsOf(x.run)' = {W(r) : r \in RecordsOf(x.run)}
    BY <2>1, <2>2 DEF RecordsOf
  <2>4. \A r \in RecordsOf(x.run) : r \in History
    BY DEF RecordsOf
  <2>5. /\ RunnersOf(x.run)' = {y}
        /\ \A id : id # x.run => RunnersOf(id)' = RunnersOf(id)
        /\ \A z \in runners' : z = y \/ z \in runners
    BY <1>1, <1>5, <1>6, RunnerSteps
  <2>6. RunOK({y}, {W(r) : r \in RecordsOf(x.run)}, Said(x.run), leases[x.run])
    <3>. DEFINE rs == {W(r) : r \in RecordsOf(x.run)}
    <3>1. RunOK(RunnersOf(x.run), RecordsOf(x.run), Said(x.run), leases[x.run])
      BY <1>1, <1>3 DEF RunsOK, Run
    <3>2. \A r, s \in rs : r = s
      BY <3>1 DEF RunOK
    <3>3. ASSUME NEW r \in RecordsOf(x.run)
          PROVE  RecordOK(W(r), {y}, Said(x.run), leases[x.run])
      <4>1. r.hermes = "none" <=> r.sub = NoSub
        BY <3>1 DEF RunOK, RecordOK
      <4>. QED  BY <1>4, <2>2, <2>4, <4>1 DEF RecordOK
    <3>4. RunnerOK(y, rs, Said(x.run), leases[x.run])
      BY <1>7, <2>2, <2>4
    <3>. QED  BY <3>2, <3>3, <3>4 DEF RunOK
  <2>7. RunOK(RunnersOf(x.run)', RecordsOf(x.run)', Said(x.run), leases'[x.run])
    BY <1>5, <2>3, <2>5, <2>6
  <2>8. \A r \in History' : r \in History \/ (r.id = x.run /\ Followed(r.sub))
    BY <1>1, <2>1, <2>2 DEF SubsOK
  <2>9. \A z \in runners' :
          z \in runners \/ (z.run = x.run /\ z.sub = x.sub /\ z.pc # "enqueue")
    BY <1>6, <2>5
  <2>. QED  BY <1>2, <1>5, <2>1, <2>5, <2>7, <2>8, <2>9, WriteKeepsInv
<1>. QED  BY <1>8, <1>9 DEF PersistOutcome, Updated

\* The completion and its recipient, written together.
LEMMA StoreKeepsInv == ASSUME CronInv, NEW x \in runners, StoreRun(x) PROVE CronInv'
<1>. DEFINE y == [x EXCEPT !.pc = "reread"]
            first == FirstRecord([x EXCEPT !.outcome = "running"])
            new == WithResult(x.outcome, first)
<1>1. ShapeOK /\ RunsOK /\ SubsOK
  BY DEF CronInv
<1>2. Steady
  <2>1. UNCHANGED spare \/ Draw("faults")
    BY DEF StoreRun, Works, Fails
  <2>. QED  BY <1>1, <2>1, SteadySpare
<1>3. x.run \in Ids /\ RunnerOK(x, RecordsOf(x.run), Said(x.run), leases[x.run])
  BY <1>1, RunnersShape
<1>4. /\ DOMAIN x = RunnerFields
      /\ x.outcome # "running" /\ leases[x.run] = "held"
      /\ Said(x.run) \subseteq {x.outcome}
  BY <1>3 DEF RunnerOK, StoreRun, Before, Writing
<1>5. UNCHANGED <<listVars, routes, results, mail>>
  BY DEF StoreRun
<1>6. CASE records' = records /\ Ends(x)
  BY <1>2, <1>5, <1>6, EndKeepsInv
<1>7. ASSUME records' = [n \in DOMAIN records |->
                           IF records[n].id = x.run THEN new ELSE records[n]],
             Ends(x) \/ (Step(x, y) /\ UNCHANGED leases /\ x.sub # NoSub)
      PROVE  CronInv'
  <2>1. /\ DOMAIN first = RecordFields /\ first.id = x.run /\ first.sub = x.sub
        /\ first.hermes = IF first.sub = NoSub THEN "none" ELSE "waiting"
    <3>. DEFINE x0 == [x EXCEPT !.outcome = "running"]
    <3>1. /\ DOMAIN x0 = RunnerFields /\ x0.outcome = "running" /\ x0.run = x.run
          /\ x0.sub = x.sub
      BY <1>4 DEF RunnerFields
    <3>. HIDE DEF x0
    <3>2. /\ DOMAIN FirstRecord(x0) = RecordFields /\ FirstRecord(x0).id = x.run
          /\ FirstRecord(x0).sub = x.sub
          /\ FirstRecord(x0).hermes =
               IF FirstRecord(x0).sub = NoSub THEN "none" ELSE "waiting"
      BY <3>1, FirstRecordOK
    <3>. QED  BY <3>2 DEF x0
  <2>. HIDE DEF first
  <2>2. /\ DOMAIN new = RecordFields /\ new.id = x.run /\ new.sub = x.sub
        /\ new.status = x.outcome /\ new.finished = TRUE
        /\ new.hermes = IF new.sub = NoSub THEN "none" ELSE "pending"
    BY <2>1 DEF WithResult, RecordFields
  <2>. HIDE DEF new
  <2>3. /\ Sequence(records')
        /\ History' = {IF r.id = x.run THEN new ELSE r : r \in History}
    BY <1>1, <1>7, RecordReplaced DEF ShapeOK
  <2>4. RecordsOf(x.run)' \subseteq {new}
    BY <2>3 DEF RecordsOf
  <2>5. \A r \in History' : r \in History \/ (r.id = x.run /\ Followed(r.sub))
    BY <1>1, <2>2, <2>3 DEF SubsOK, RunnerSub
  <2>6. ASSUME NEW xs, NEW lease PROVE RecordOK(new, xs, Said(x.run), lease)
    BY <1>4, <2>2 DEF RecordOK
  <2>7. CASE Ends(x)
    <3>1. /\ RunnersOf(x.run)' = {} /\ runners' \subseteq runners
          /\ \A id : id # x.run => RunnersOf(id)' = RunnersOf(id)
          /\ DOMAIN leases' = DOMAIN leases
          /\ \A id \in Ids : id # x.run => leases'[id] = leases[id]
      BY <1>1, <2>7, RunnerEnds, IdsAreLeased
    <3>2. RunOK(RunnersOf(x.run)', RecordsOf(x.run)', Said(x.run), leases'[x.run])
      <4>1. RunOK({}, {new}, Said(x.run), leases'[x.run])
        BY <2>6 DEF RunOK
      <4>. QED  BY <2>4, <3>1, <4>1, LessOfARun
    <3>. QED  BY <1>2, <1>5, <2>3, <2>5, <3>1, <3>2, WriteKeepsInv
  <2>8. CASE Step(x, y) /\ UNCHANGED leases /\ x.sub # NoSub
    <3>1. /\ DOMAIN y = RunnerFields /\ y.run = x.run /\ y.sub = x.sub
          /\ y.pc = "reread" /\ y.outcome = x.outcome
      BY <1>4 DEF RunnerFields
    <3>. HIDE DEF y
    <3>2. /\ RunnersOf(x.run)' = {y}
          /\ \A id : id # x.run => RunnersOf(id)' = RunnersOf(id)
          /\ \A z \in runners' : z = y \/ z \in runners
      BY <1>1, <2>8, <3>1, RunnerSteps
    <3>3. RunOK(RunnersOf(x.run)', RecordsOf(x.run)', Said(x.run), leases'[x.run])
      <4>1. RunnerOK(y, {new}, Said(x.run), leases[x.run])
        BY <1>4, <2>2, <2>8, <3>1 DEF RunnerOK, Before, Writing, Telling
      <4>2. RunOK({y}, {new}, Said(x.run), leases[x.run])
        BY <2>6, <4>1 DEF RunOK
      <4>. QED  BY <2>4, <2>8, <3>2, <4>2, LessOfARun
    <3>. QED  BY <1>2, <1>5, <2>3, <2>5, <2>8, <3>1, <3>2, <3>3, WriteKeepsInv
  <2>. QED  BY <1>7, <2>7, <2>8
<1>. QED  BY <1>6, <1>7 DEF StoreRun, Updated

\* The steps of a runner.
LEMMA RunnerKeepsInv ==
  ASSUME CronInv, NEW x \in runners,
         \/ AcquireLease(x) \/ ProgramEnds(x) \/ RereadTask(x) \/ RunnerDies(x)
  PROVE  CronInv'
<1>1. ShapeOK /\ RunsOK /\ SubsOK
  BY DEF CronInv
<1>2. Steady
  <2>1. UNCHANGED spare \/ Draw("faults") \/ Draw("deaths")
    BY DEF AcquireLease, ProgramEnds, RereadTask, RunnerDies, Works, Fails
  <2>. QED  BY <1>1, <2>1, SteadySpare
<1>3. x.run \in Ids /\ RunnerOK(x, RecordsOf(x.run), Said(x.run), leases[x.run])
  BY <1>1, RunnersShape
<1>4. DOMAIN x = RunnerFields
  BY <1>3 DEF RunnerOK
<1>5. UNCHANGED <<listVars, routes, records, results, mail>>
  BY DEF AcquireLease, ProgramEnds, RereadTask, RunnerDies
<1>6. CASE Ends(x)
  BY <1>2, <1>5, <1>6, EndKeepsInv
<1>7. CASE AcquireLease(x)
  <2>1. CASE leases' = [leases EXCEPT ![x.run] = "held"]
             /\ Step(x, [x EXCEPT !.pc = "append"])
    <3>. DEFINE y == [x EXCEPT !.pc = "append"]
    <3>1. /\ DOMAIN y = RunnerFields /\ y.run = x.run /\ y.sub = x.sub /\ y.pc = "append"
          /\ y.outcome = x.outcome
      BY <1>4 DEF RunnerFields
    <3>2. leases'[x.run] = "held"
      BY <1>1, <1>3, <2>1, IdsAreLeased
    <3>. HIDE DEF y
    <3>3. RunnerOK(y, RecordsOf(x.run), Said(x.run), leases'[x.run])
      BY <1>3, <1>7, <3>1, <3>2 DEF RunnerOK, AcquireLease, Before, Writing, Telling
    <3>4. Step(x, y)
      BY <2>1 DEF y
    <3>. QED  BY <1>2, <1>5, <1>7, <2>1, <3>1, <3>3, <3>4, StepKeepsInv DEF AcquireLease
  <2>2. CASE leases' = leases /\ Step(x, [x EXCEPT !.pc = "append", !.outcome = "failed"])
    <3>. DEFINE y == [x EXCEPT !.pc = "append", !.outcome = "failed"]
    <3>1. /\ DOMAIN y = RunnerFields /\ y.run = x.run /\ y.sub = x.sub /\ y.pc = "append"
          /\ y.outcome = "failed"
      BY <1>4 DEF RunnerFields
    <3>. HIDE DEF y
    <3>2. RunnerOK(y, RecordsOf(x.run), Said(x.run), leases'[x.run])
      BY <1>3, <1>7, <2>2, <3>1 DEF RunnerOK, AcquireLease, Before, Writing, Telling
    <3>3. Step(x, y)
      BY <2>2 DEF y
    <3>. QED  BY <1>2, <1>5, <2>2, <3>1, <3>2, <3>3, StepKeepsInv
  <2>. QED  BY <1>7, <2>1, <2>2 DEF AcquireLease
<1>8. CASE ProgramEnds(x)
  <2>1. PICK outcome \in {"success", "failed", "timeout"}, pc \in {"early", "persist"} :
          Step(x, [x EXCEPT !.pc = pc, !.outcome = outcome])
    BY <1>8 DEF ProgramEnds
  <2>. DEFINE y == [x EXCEPT !.pc = pc, !.outcome = outcome]
  <2>2. /\ DOMAIN y = RunnerFields /\ y.run = x.run /\ y.sub = x.sub
        /\ y.pc \in {"early", "persist"} /\ y.outcome # "running"
    BY <1>4, <2>1 DEF RunnerFields
  <2>3. Step(x, y) /\ leases' = leases
    BY <1>8, <2>1 DEF ProgramEnds
  <2>. HIDE DEF y
  <2>4. RunnerOK(y, RecordsOf(x.run), Said(x.run), leases'[x.run])
    BY <1>3, <1>8, <2>2, <2>3 DEF RunnerOK, ProgramEnds, Before, Writing, Telling
  <2>. QED  BY <1>2, <1>5, <2>2, <2>3, <2>4, StepKeepsInv
<1>9. CASE RereadTask(x) /\ ~Ends(x)
  <2>. DEFINE y == [x EXCEPT !.pc = "enqueue", !.copy = task.sub]
  <2>1. Step(x, y) /\ leases' = leases /\ x.pc = "reread"
    BY <1>9 DEF RereadTask
  <2>2. /\ DOMAIN y = RunnerFields /\ y.run = x.run /\ y.sub = x.sub /\ y.copy = task.sub
        /\ y.pc = "enqueue" /\ y.outcome = x.outcome
    BY <1>4 DEF RunnerFields
  <2>. HIDE DEF y
  <2>3. RunnerOK(y, RecordsOf(x.run), Said(x.run), leases'[x.run])
    BY <1>3, <2>1, <2>2 DEF RunnerOK, Before, Writing, Telling
  <2>4. y.copy = x.sub \/ x.sub.grant \in ended
    <3>1. Followed(x.sub) /\ x.sub # NoSub
      BY <1>1, <1>3, <2>1 DEF SubsOK, RunnerSub, RunnerOK, Telling
    <3>. QED  BY <2>2, <3>1 DEF Followed
  <2>. QED  BY <1>2, <1>5, <2>1, <2>2, <2>3, <2>4, StepKeepsInv
<1>. QED  BY <1>6, <1>7, <1>8, <1>9 DEF RunnerDies

\* More is said of a run once its record is terminal.
LEMMA MoreSaid ==
  ASSUME NEW xs, NEW rs, NEW said, NEW lease, RunOK(xs, rs, said, lease), NEW said2,
         \A o \in said2 : o \in said \/ \E r \in rs : r.status # "running" /\ o = r.status
  PROVE  RunOK(xs, rs, said2, lease)
<1>1. ASSUME NEW x \in xs PROVE RunnerOK(x, rs, said2, lease)
  BY DEF RunOK, RunnerOK, Before, Writing, Telling
<1>2. ASSUME NEW r \in rs PROVE RecordOK(r, xs, said2, lease)
  BY DEF RunOK, RecordOK
<1>. QED  BY <1>1, <1>2 DEF RunOK

\* A step of the bridge: what it queues or collects was said, or is in the history.
LEMMA BridgeStepKeepsInv ==
  ASSUME CronInv, Steady, UNCHANGED <<listVars, routes, records, leases, runners>>,
         DOMAIN mail' = MailFields,
         \A d \in results' :
           /\ DOMAIN d = ResultFields /\ EntrySub(d)
           /\ \/ \E e \in results : e.id = d.id /\ e.outcome = d.outcome
              \/ \E r \in mail.runs : r.id = d.id /\ r.status = d.outcome,
         \A r \in mail'.runs :
           /\ Followed(r.sub) /\ r.sub = mail'.copy /\ r.sub # NoSub
           /\ r \in mail.runs \/ (r \in History /\ r.status # "running")
  PROVE  CronInv'
<1>1. ShapeOK /\ RunsOK /\ SubsOK
  BY DEF CronInv
<1>2. ASSUME NEW id \in Ids PROVE Run(id)'
  <2>1. RunOK(RunnersOf(id), RecordsOf(id), Said(id), leases[id])
    BY <1>1 DEF RunsOK, Run
  <2>2. ASSUME NEW o \in Said(id)'
        PROVE  o \in Said(id) \/ \E r \in RecordsOf(id) : r.status # "running" /\ o = r.status
    <3>1. CASE \E d \in results' : d.id = id /\ d.outcome = o
      BY <3>1 DEF Said
    <3>2. CASE \E r \in mail'.runs : r.id = id /\ r.status = o
      BY <3>2 DEF Said, RecordsOf
    <3>. QED  BY <2>2, <3>1, <3>2 DEF Said
  <2>3. RunOK(RunnersOf(id), RecordsOf(id), Said(id)', leases[id])
    BY <2>1, <2>2, MoreSaid
  <2>4. /\ RunnersOf(id)' = RunnersOf(id) /\ RecordsOf(id)' = RecordsOf(id)
        /\ leases'[id] = leases[id]
    BY SameParts
  <2>5. RunOK(RunnersOf(id)', RecordsOf(id)', Said(id)', leases'[id])
    BY <2>3, <2>4
  <2>. QED  BY <2>5 DEF Run
<1>3. RunsOK'
  <2>1. Named' /\ Ids' = Ids
    BY <1>1, SameParts, SteadyIds DEF RunsOK, Named
  <2>. QED  BY <1>2, <2>1 DEF RunsOK, Named
<1>4. ShapeOK'
  BY <1>1, ShapeKept DEF ShapeOK, listVars
<1>5. SubsOK'
  BY <1>1, SubsKept, SameParts DEF SubsOK, Steady, listVars
<1>. QED  BY <1>3, <1>4, <1>5 DEF CronInv

\* Opening the outbox again keeps what its entries say.
LEMMA OpenedOutbox ==
  ASSUME CronInv
  PROVE  \A d \in Opened :
           /\ DOMAIN d = ResultFields /\ EntrySub(d)
           /\ \E e \in results : e.id = d.id /\ e.outcome = d.outcome
<1>1. \A d \in results : DOMAIN d = ResultFields /\ EntrySub(d)
  BY DEF CronInv, ShapeOK, SubsOK
<1>2. ASSUME NEW d \in Opened
      PROVE  \E e \in results : \/ d = e
                                \/ d = [e EXCEPT !.status = "unknown"]
  BY <1>2 DEF Opened, ReopenedOutbox
<1>. QED  BY <1>1, <1>2 DEF ResultFields, EntrySub, Revocable

\* The result of a run, for the copy of the task somebody read: a copy that differs from
\* what the run was started with was read after that had been withdrawn.
LEMMA ResultOK ==
  ASSUME NEW id, NEW outcome, NEW sub, NEW copy, Followed(sub), sub # NoSub,
         copy = sub \/ sub.grant \in ended
  PROVE  LET d == Result(id, outcome, sub, copy)
         IN  DOMAIN d = ResultFields /\ d.id = id /\ d.outcome = outcome /\ EntrySub(d)
<1>. DEFINE d == Result(id, outcome, sub, copy)
<1>1. /\ DOMAIN d = ResultFields /\ d.id = id /\ d.outcome = outcome /\ d.sub = sub
      /\ d.status = "revoked" => ~SubMatches(sub, copy) \/ sub.target \notin routes
  BY DEF Result, ResultFields
<1>. HIDE DEF d
<1>2. sub.id \in 1..spare.grants
  BY DEF Followed, Granted
<1>3. copy = sub => SubMatches(sub, copy)
  BY <1>2 DEF SubMatches
<1>4. EntrySub(d)
  BY <1>1, <1>3 DEF EntrySub, Revocable
<1>. QED  BY <1>1, <1>4 DEF d

\* An entry that is not authorized may be revoked.
LEMMA NotInForce ==
  ASSUME NEW d, Followed(d.sub), d.sub # NoSub, ~InForce(d) PROVE Revocable(d)
<1>1. d.sub.id \in 1..spare.grants
  BY DEF Followed, Granted
<1>2. Present /\ task.sub = d.sub => SubMatches(d.sub, task.sub)
  BY <1>1 DEF SubMatches
<1>. QED  BY <1>2 DEF Followed, Revocable, InForce

\* A runner hands its result to the bridge.
LEMMA EnqueueKeepsInv == ASSUME CronInv, NEW x \in runners, EnqueueResult(x) PROVE CronInv'
<1>. DEFINE d == Result(x.run, x.outcome, x.sub, x.copy)
<1>1. ShapeOK /\ RunsOK /\ SubsOK
  BY DEF CronInv
<1>2. Steady
  BY <1>1, SteadySpare DEF EnqueueResult
<1>3. x.run \in Ids /\ RunnerOK(x, RecordsOf(x.run), Said(x.run), leases[x.run])
  BY <1>1, RunnersShape
<1>4. /\ Ends(x) /\ UNCHANGED <<listVars, routes, records, mail>>
      /\ \A e \in results' : e \in Opened \/ e \in results \/ e = d
  BY DEF EnqueueResult, QueuedDelivery
<1>5. Followed(x.sub) /\ x.sub # NoSub /\ (x.copy = x.sub \/ x.sub.grant \in ended)
  BY <1>1, <1>3 DEF SubsOK, RunnerSub, RunnerOK, EnqueueResult, Telling
<1>6. DOMAIN d = ResultFields /\ d.id = x.run /\ d.outcome = x.outcome /\ EntrySub(d)
  BY <1>5, ResultOK
<1>. HIDE DEF d
<1>7. \A e \in results' :
        /\ DOMAIN e = ResultFields /\ EntrySub(e)
        /\ \/ \E f \in results : f.id = e.id /\ f.outcome = e.outcome
           \/ e.id = x.run /\ e.outcome = x.outcome
  BY <1>1, <1>4, <1>6, OpenedOutbox DEF ShapeOK, SubsOK
<1>8. /\ RunnersOf(x.run)' = {} /\ runners' \subseteq runners
      /\ \A id : id # x.run => RunnersOf(id)' = RunnersOf(id)
      /\ DOMAIN leases' = DOMAIN leases
      /\ leases'[x.run] = IF leases[x.run] = "held" THEN "free" ELSE leases[x.run]
      /\ \A id \in Ids : id # x.run => leases'[id] = leases[id]
  BY <1>1, <1>4, RunnerEnds, IdsAreLeased
<1>9. Run(x.run)'
  <2>1. RunOK(RunnersOf(x.run), RecordsOf(x.run), Said(x.run), leases[x.run])
    BY <1>1, <1>3 DEF RunsOK, Run
  <2>2. RunOK({}, RecordsOf(x.run), Said(x.run), leases'[x.run])
    BY <1>8, <2>1, RunnerGone DEF RunnersOf
  <2>3. \A r \in RecordsOf(x.run) : r.status = x.outcome /\ x.outcome # "running"
    BY <1>3 DEF RunnerOK, EnqueueResult, Before, Writing, Telling
  <2>4. \A o \in Said(x.run)' : o \in Said(x.run) \/ o = x.outcome
    BY <1>4, <1>7 DEF Said
  <2>5. RunOK({}, RecordsOf(x.run), Said(x.run)', leases'[x.run])
    <3>1. CASE RecordsOf(x.run) = {}
      BY <3>1 DEF RunOK
    <3>2. CASE RecordsOf(x.run) # {}
      BY <2>2, <2>3, <2>4, <3>2, MoreSaid
    <3>. QED  BY <3>1, <3>2
  <2>6. RecordsOf(x.run)' = RecordsOf(x.run)
    BY <1>4, SameParts
  <2>7. RunOK(RunnersOf(x.run)', RecordsOf(x.run)', Said(x.run)', leases'[x.run])
    BY <1>8, <2>5, <2>6
  <2>. QED  BY <2>7 DEF Run
<1>10. ASSUME NEW id \in Ids, id # x.run PROVE Others(id)
  <2>1. Said(id)' \subseteq Said(id)
    BY <1>4, <1>7, <1>10 DEF Said
  <2>. QED  BY <1>4, <1>8, <1>10, <2>1, SameParts DEF Others
<1>11. Named' /\ Ids' = Ids
  BY <1>1, <1>2, <1>3, <1>4, <1>7, <1>8, SameParts, SteadyIds DEF RunsOK, Named
<1>12. RunsOK'
  BY <1>1, <1>9, <1>10, <1>11, OneRun
<1>13. ShapeOK'
  BY <1>1, <1>2, <1>4, <1>7, <1>8, ShapeKept DEF ShapeOK, listVars
<1>14. SubsOK'
  BY <1>1, <1>2, <1>4, <1>7, <1>8, SubsKept, SameParts DEF SubsOK, Steady, listVars
<1>. QED  BY <1>12, <1>13, <1>14 DEF CronInv

\* The polling of the bridge: collecting, queueing, reserving and finishing.
LEMMA MailKeepsInv ==
  ASSUME CronInv,
         \/ \E i \in Instances : CollectResults(i)
         \/ ReconcileResults \/ ReserveResult \/ FinishResult
  PROVE  CronInv'
<1>1. ShapeOK /\ RunsOK /\ SubsOK
  BY DEF CronInv
<1>2. Steady /\ UNCHANGED <<listVars, routes, records, leases, runners>>
  <2>1. UNCHANGED spare
    BY DEF CollectResults, ReconcileResults, ReserveResult, FinishResult
  <2>. QED
    BY <1>1, <2>1, SteadySpare
       DEF CollectResults, ReconcileResults, ReserveResult, FinishResult
<1>3. \A d \in results : DOMAIN d = ResultFields /\ EntrySub(d)
  BY <1>1 DEF ShapeOK, SubsOK
<1>4. DOMAIN mail = MailFields
  BY <1>1 DEF ShapeOK
<1>5. DOMAIN Resting = MailFields /\ Resting.runs = {}
  BY DEF Resting, MailFields
<1>6. CASE \E i \in Instances : CollectResults(i)
  <2>1. /\ results' = Opened /\ DOMAIN mail' = MailFields /\ mail'.copy = task.sub
        /\ task.sub # NoSub /\ Present
        /\ \A r \in mail'.runs : r \in History /\ r.status # "running" /\ r.sub = task.sub
    BY <1>4, <1>6 DEF CollectResults, History, MailFields
  <2>2. \A r \in mail'.runs :
          /\ Followed(r.sub) /\ r.sub = mail'.copy /\ r.sub # NoSub
          /\ r \in mail.runs \/ (r \in History /\ r.status # "running")
    BY <1>1, <2>1 DEF SubsOK
  <2>. QED  BY <1>2, <2>1, <2>2, OpenedOutbox, BridgeStepKeepsInv
<1>7. CASE ReconcileResults
  <2>1. mail' = Resting
    BY <1>7 DEF ReconcileResults
  <2>2. ASSUME NEW d \in results', d \notin results
        PROVE  /\ DOMAIN d = ResultFields /\ EntrySub(d)
               /\ \E r \in mail.runs : r.id = d.id /\ r.status = d.outcome
    <3>1. PICK r \in mail.runs : d = Result(r.id, r.status, r.sub, mail.copy)
      BY <1>7, <2>2 DEF ReconcileResults
    <3>2. Followed(r.sub) /\ r.sub = mail.copy /\ r.sub # NoSub
      BY <1>1 DEF SubsOK
    <3>. QED  BY <3>1, <3>2, ResultOK
  <2>. QED  BY <1>2, <1>3, <1>5, <2>1, <2>2, BridgeStepKeepsInv
<1>8. ASSUME NEW d \in results, NEW e, results' = Saved(results, e),
             DOMAIN e = ResultFields, e.id = d.id, e.outcome = d.outcome, e.sub = d.sub,
             e.status = "revoked" => Revocable(d),
             DOMAIN mail' = MailFields, mail'.runs \in {{}, mail.runs},
             mail'.runs = mail.runs => mail'.runs = {} \/ mail'.copy = mail.copy
      PROVE  CronInv'
  <2>1. \A r \in mail'.runs :
          /\ Followed(r.sub) /\ r.sub = mail'.copy /\ r.sub # NoSub
          /\ r \in mail.runs \/ (r \in History /\ r.status # "running")
    BY <1>1, <1>8 DEF SubsOK
  <2>2. \A f \in results' : f = e \/ f \in results
    BY <1>8 DEF Saved
  <2>3. EntrySub(e)
    BY <1>3, <1>8 DEF EntrySub, Revocable
  <2>. QED  BY <1>2, <1>3, <1>8, <2>1, <2>2, <2>3, BridgeStepKeepsInv
<1>9. CASE ReserveResult
  <2>1. PICK d \in results :
          LET r == ReservedDelivery(d, InForce(d)) IN
          /\ results' = Saved(results,
                IF r.status = "sending" THEN [r EXCEPT !.under = task.sub.grant] ELSE r)
          /\ mail' = IF r.status = "sending"
                     THEN [mail EXCEPT !.pc = "send", !.run = d.id] ELSE mail
    BY <1>9 DEF ReserveResult
  <2>. DEFINE r == ReservedDelivery(d, InForce(d))
              e == IF r.status = "sending" THEN [r EXCEPT !.under = task.sub.grant] ELSE r
  <2>2. /\ DOMAIN e = ResultFields /\ e.id = d.id /\ e.outcome = d.outcome
        /\ e.sub = d.sub /\ (e.status = "revoked" => Revocable(d))
    BY <1>3, NotInForce DEF ReservedDelivery, ResultFields, EntrySub
  <2>3. /\ DOMAIN mail' = MailFields /\ mail'.runs = mail.runs /\ mail'.copy = mail.copy
    BY <1>4, <2>1 DEF MailFields
  <2>4. results' = Saved(results, e)
    BY <2>1
  <2>. HIDE DEF e
  <2>. QED  BY <1>8, <2>2, <2>3, <2>4
<1>10. CASE FinishResult
  <2>1. PICK d \in results, receipt \in {"sent", "not_sent", "unknown"} :
          results' = Saved(results, FinishedDelivery(d, receipt, InForce(d)))
    BY <1>10 DEF FinishResult
  <2>. DEFINE e == FinishedDelivery(d, receipt, InForce(d))
  <2>2. /\ DOMAIN e = ResultFields /\ e.id = d.id /\ e.outcome = d.outcome
        /\ e.sub = d.sub /\ (e.status = "revoked" => Revocable(d))
    BY <1>3, <2>1 DEF FinishedDelivery, ResultFields, EntrySub
  <2>3. mail' = Resting
    BY <1>10 DEF FinishResult
  <2>4. results' = Saved(results, e)
    BY <2>1
  <2>. HIDE DEF e
  <2>. QED  BY <1>5, <1>8, <2>2, <2>3, <2>4
<1>. QED  BY <1>6, <1>7, <1>9, <1>10

\* What was given stays given, and what was in force once is followed, whatever becomes of
\* the task, as long as a grant that does not stay in force is written down as withdrawn.
LEMMA FollowedOn ==
  ASSUME spare.grants \in Nat, spare'.grants \in Nat, spare'.grants >= spare.grants,
         ended \subseteq ended', routes' \subseteq routes,
         Present /\ task.sub # NoSub =>
           (Present' /\ task'.sub = task.sub) \/ task.sub.grant \in ended'
  PROVE  /\ \A u : Granted(u) => Granted(u)'
         /\ \A u : Followed(u) => Followed(u)'
         /\ \A d : Revocable(d) => Revocable(d)'
<1>1. \A u : Granted(u) => Granted(u)'
  BY DEF Granted
<1>2. \A u : Followed(u) => Followed(u)'
  BY <1>1 DEF Followed
<1>. QED  BY <1>1, <1>2 DEF Revocable

\* An edit of the task list, at each of its steps, and a route that goes: the history may
\* go with the task, and the outbox may be opened, or be withdrawn from.
LEMMA ListKeepsInv ==
  ASSUME CronInv, UNCHANGED <<leases, runners, mail>>, records' \in {records, <<>>},
         DOMAIN spare' = SpareFields, spare'.runs = spare.runs, spare'.limit = spare.limit,
         spare'.grants \in Nat, spare'.grants >= spare.grants,
         ended \subseteq ended', routes' \subseteq routes,
         Present /\ task.sub # NoSub =>
           (Present' /\ task'.sub = task.sub) \/ task.sub.grant \in ended',
         DOMAIN task' = TaskFields, Granted(task.sub)',
         \A e \in edits' : /\ DOMAIN e = EditFields /\ DOMAIN e.next = TaskFields
                           /\ Granted(e.next.sub)',
         \A d \in results' :
           /\ DOMAIN d = ResultFields
           /\ \E e \in results : /\ e.id = d.id /\ e.outcome = d.outcome /\ e.sub = d.sub
                                 /\ \/ d.status = "revoked" => e.status = "revoked"
                                    \/ d.sub.target \notin routes'
  PROVE  CronInv'
<1>1. ShapeOK /\ RunsOK /\ SubsOK
  BY DEF CronInv
<1>2. Sequence(records') /\ History' \subseteq History
  <2>1. CASE records' = records
    BY <1>1, <2>1 DEF ShapeOK, History
  <2>2. CASE records' = <<>>
    BY <2>2 DEF Sequence, History
  <2>. QED  BY <2>1, <2>2
<1>3. ASSUME NEW id \in Ids PROVE Others(id)
  <2>1. Said(id)' \subseteq Said(id)
    BY DEF Said
  <2>2. RecordsOf(id)' \subseteq RecordsOf(id)
    BY <1>2 DEF RecordsOf
  <2>. QED  BY <2>1, <2>2, SameParts DEF Others
<1>4. Named' /\ Ids' = Ids
  <2>1. Ids' = Ids
    BY DEF Ids, NewRun
  <2>. QED  BY <1>1, <1>2, <2>1 DEF RunsOK, Named
<1>5. RunsOK'
  BY <1>1, <1>3, <1>4, NoRun
<1>6. ShapeOK'
  BY <1>1, <1>2 DEF ShapeOK, Sequence
<1>7. SubsOK'
  <2>1. /\ \A u : Followed(u) => Followed(u)'
        /\ \A d : Revocable(d) => Revocable(d)'
    BY <1>1, FollowedOn DEF ShapeOK
  <2>2. \A x \in runners : RunnerSub(x)'
    BY <1>1, <2>1 DEF SubsOK, RunnerSub
  <2>3. \A d \in results' : EntrySub(d)'
    BY <1>1, <2>1 DEF SubsOK, EntrySub, Revocable
  <2>. QED  BY <1>1, <1>2, <2>1, <2>2, <2>3 DEF SubsOK
<1>. QED  BY <1>5, <1>6, <1>7 DEF CronInv

\* An entry of the outbox that was opened again.
LEMMA OpenedEntries ==
  ASSUME CronInv
  PROVE  \A d \in Opened :
           /\ DOMAIN d = ResultFields
           /\ \E e \in results : /\ e.id = d.id /\ e.outcome = d.outcome /\ e.sub = d.sub
                                 /\ d.status = "revoked" => e.status = "revoked"
<1>1. \A d \in results : DOMAIN d = ResultFields
  BY DEF CronInv, ShapeOK
<1>2. ASSUME NEW d \in Opened
      PROVE  \E e \in results : d = e \/ d = [e EXCEPT !.status = "unknown"]
  BY <1>2 DEF Opened, ReopenedOutbox
<1>. QED  BY <1>1, <1>2 DEF ResultFields

\* An editor has read the list.
LEMMA StartKeepsInv ==
  ASSUME CronInv, NEW editor, NEW next, NEW step, StartEdit(editor, next, step),
         DOMAIN next = TaskFields, Granted(next.sub)',
         DOMAIN spare' = SpareFields, spare'.runs = spare.runs, spare'.limit = spare.limit,
         spare'.grants \in Nat, spare'.grants >= spare.grants,
         results' \in {results, Opened}
  PROVE  CronInv'
<1>1. ShapeOK /\ SubsOK
  BY DEF CronInv
<1>2. /\ UNCHANGED <<task, ended, routes, records, leases, runners, mail>>
      /\ edits' = edits \cup {[editor |-> editor, next |-> next, step |-> step]}
  BY DEF StartEdit
<1>3. \A u : Granted(u) => Granted(u)'
  BY <1>1, <1>2, FollowedOn DEF ShapeOK, Present
<1>4. \A e \in edits' : /\ DOMAIN e = EditFields /\ DOMAIN e.next = TaskFields
                        /\ Granted(e.next.sub)'
  BY <1>1, <1>2, <1>3 DEF ShapeOK, SubsOK, EditFields
<1>5. \A d \in results' :
        /\ DOMAIN d = ResultFields
        /\ \E e \in results : /\ e.id = d.id /\ e.outcome = d.outcome /\ e.sub = d.sub
                              /\ d.status = "revoked" => e.status = "revoked"
  BY <1>1, OpenedEntries DEF ShapeOK
<1>6. DOMAIN task' = TaskFields /\ Granted(task.sub)'
  BY <1>1, <1>2, <1>3 DEF ShapeOK, SubsOK
<1>7. \A d \in results' :
        /\ DOMAIN d = ResultFields
        /\ \E e \in results : /\ e.id = d.id /\ e.outcome = d.outcome /\ e.sub = d.sub
                              /\ \/ d.status = "revoked" => e.status = "revoked"
                                 \/ d.sub.target \notin routes'
  <2>. SUFFICES ASSUME NEW d \in results'
                PROVE  /\ DOMAIN d = ResultFields
                       /\ \E e \in results :
                            /\ e.id = d.id /\ e.outcome = d.outcome /\ e.sub = d.sub
                            /\ \/ d.status = "revoked" => e.status = "revoked"
                               \/ d.sub.target \notin routes'
    OBVIOUS
  <2>1. PICK e \in results : /\ e.id = d.id /\ e.outcome = d.outcome /\ e.sub = d.sub
                             /\ d.status = "revoked" => e.status = "revoked"
    BY <1>5
  <2>. QED  BY <1>5, <2>1
<1>8. /\ UNCHANGED <<leases, runners, mail>> /\ records' \in {records, <<>>}
      /\ ended \subseteq ended' /\ routes' \subseteq routes
      /\ Present /\ task.sub # NoSub =>
           (Present' /\ task'.sub = task.sub) \/ task.sub.grant \in ended'
  BY <1>2 DEF Present
<1>. QED  BY <1>4, <1>6, <1>7, <1>8, ListKeepsInv

\* A new subscription has a number no subscription had.
LEMMA UpdateKeepsInv == ASSUME CronInv, NEW editor, UpdateTask(editor) PROVE CronInv'
<1>1. ShapeOK /\ SubsOK
  BY DEF CronInv
<1>2. spare.grants \in Nat /\ DOMAIN spare = SpareFields /\ DOMAIN task = TaskFields
  BY <1>1 DEF ShapeOK
<1>3. PICK target \in {0, 1, 2} :
        LET sub == IF target = 0 THEN NoSub ELSE VersionSubscription(target)
            new == sub \notin {NoSub, task.sub}
        IN
        /\ StartEdit(editor, [task EXCEPT !.sub = sub], "write")
        /\ results' = IF new THEN Opened ELSE results
        /\ spare' = [spare EXCEPT !.edits = @ - 1, !.grants = IF new THEN @ + 1 ELSE @]
  BY DEF UpdateTask
<1>4. PICK sub : sub = IF target = 0 THEN NoSub ELSE VersionSubscription(target)
  OBVIOUS
<1>5. PICK next : next = [task EXCEPT !.sub = sub]
  OBVIOUS
<1>6. \/ sub \in {NoSub, task.sub}
      \/ sub.id = spare.grants + 1 /\ sub.grant = spare.grants + 1
  BY <1>4 DEF VersionSubscription
<1>7. /\ DOMAIN spare' = SpareFields /\ spare'.runs = spare.runs
      /\ spare'.limit = spare.limit
      /\ spare'.grants = IF sub \notin {NoSub, task.sub}
                         THEN spare.grants + 1 ELSE spare.grants
      /\ results' \in {results, Opened} /\ StartEdit(editor, next, "write")
  <2>1. SpareFields = {"limit", "runs", "deaths", "faults", "edits", "minutes", "grants"}
    BY DEF SpareFields
  <2>. QED  BY <1>2, <1>3, <1>4, <1>5, <2>1
<1>8. DOMAIN next = TaskFields /\ next.sub = sub
  BY <1>2, <1>5 DEF TaskFields
<1>9. Granted(sub)'
  BY <1>1, <1>2, <1>6, <1>7 DEF SubsOK, Granted
<1>. QED  BY <1>2, <1>7, <1>8, <1>9, StartKeepsInv

\* The other edits give no subscription.
LEMMA EditKeepsInv ==
  ASSUME CronInv, NEW editor, ToggleTask(editor) \/ DeleteTask(editor) \/ EditOtherTask(editor)
  PROVE  CronInv'
<1>1. ShapeOK /\ SubsOK
  BY DEF CronInv
<1>2. DOMAIN task = TaskFields /\ Granted(task.sub)
  BY <1>1 DEF ShapeOK, SubsOK
<1>3. Steady /\ results' = results
  BY <1>1, SteadySpare DEF ToggleTask, DeleteTask, EditOtherTask
<1>4. PICK next, step : /\ StartEdit(editor, next, step)
                        /\ DOMAIN next = TaskFields /\ next.sub = task.sub
  BY <1>2 DEF ToggleTask, DeleteTask, EditOtherTask, TaskFields
<1>. QED  BY <1>1, <1>2, <1>3, <1>4, StartKeepsInv DEF Steady, ShapeOK, Granted

\* An edit writes the list back, and removes the history.
LEMMA WriteBackKeepsInv ==
  ASSUME CronInv, NEW e \in edits, WriteTask(e) \/ RemoveHistory(e) PROVE CronInv'
<1>1. ShapeOK /\ SubsOK
  BY DEF CronInv
<1>2. Steady
  <2>1. UNCHANGED spare \/ Draw("faults")
    BY DEF WriteTask, RemoveHistory, Works, Fails
  <2>. QED  BY <1>1, <2>1, SteadySpare
<1>3. /\ UNCHANGED <<routes, leases, runners, results, mail>>
      /\ records' \in {records, <<>>}
  BY DEF WriteTask, RemoveHistory
<1>4. /\ DOMAIN e = EditFields /\ DOMAIN e.next = TaskFields /\ Granted(e.next.sub)
      /\ DOMAIN task = TaskFields /\ Granted(task.sub)
  BY <1>1 DEF ShapeOK, SubsOK
<1>5. \A f \in edits' : f \in edits \/ f = [e EXCEPT !.step = "clean"]
  BY DEF WriteTask, RemoveHistory
<1>6. \A f \in edits' : /\ DOMAIN f = EditFields /\ DOMAIN f.next = TaskFields
                        /\ Granted(f.next.sub)'
  BY <1>1, <1>2, <1>4, <1>5 DEF ShapeOK, SubsOK, Steady, Granted, EditFields
<1>7. \/ task' = e.next /\ ended' = ended \cup WithdrawnBy(e.next)
      \/ task' = task /\ ended' = ended
  BY DEF WriteTask, RemoveHistory
<1>8. /\ DOMAIN task' = TaskFields /\ Granted(task.sub)'
      /\ ended \subseteq ended'
      /\ Present /\ task.sub # NoSub =>
           (Present' /\ task'.sub = task.sub) \/ task.sub.grant \in ended'
  BY <1>2, <1>4, <1>7 DEF WithdrawnBy, Present, Steady, Granted
<1>9. \A d \in results' : DOMAIN d = ResultFields
  BY <1>1, <1>3 DEF ShapeOK
<1>10. spare.grants \in Nat
  BY <1>1 DEF ShapeOK
<1>. QED  BY <1>2, <1>3, <1>6, <1>8, <1>9, <1>10, ListKeepsInv DEF Steady

\* A route goes.
LEMMA RouteKeepsInv == ASSUME CronInv, NEW i, RouteGoes(i) PROVE CronInv'
<1>1. ShapeOK /\ SubsOK
  BY DEF CronInv
<1>2. Steady
  BY <1>1, SteadySpare DEF RouteGoes
<1>3. PICK t \in routes :
        /\ routes' = routes \ {t}
        /\ results' \in {Opened, Withdrawn(Opened, {d \in Opened : d.sub.target = t})}
  BY DEF RouteGoes
<1>4. UNCHANGED <<task, edits, ended, records, leases, runners, mail>>
  BY DEF RouteGoes, listVars
<1>5. ASSUME NEW d \in results'
      PROVE  \E c \in Opened :
               \/ d = c
               \/ d = [c EXCEPT !.status = "revoked"] /\ c.sub.target = t
  BY <1>3, <1>5 DEF Withdrawn
<1>6. ASSUME NEW d \in results'
      PROVE  /\ DOMAIN d = ResultFields
             /\ \E e \in results : /\ e.id = d.id /\ e.outcome = d.outcome /\ e.sub = d.sub
                                   /\ \/ d.status = "revoked" => e.status = "revoked"
                                      \/ d.sub.target \notin routes'
  <2>1. PICK c \in Opened : \/ d = c
                            \/ d = [c EXCEPT !.status = "revoked"] /\ c.sub.target = t
    BY <1>5, <1>6
  <2>2. PICK e \in results : /\ e.id = c.id /\ e.outcome = c.outcome /\ e.sub = c.sub
                             /\ c.status = "revoked" => e.status = "revoked"
    BY <2>1, OpenedEntries
  <2>3. DOMAIN c = ResultFields
    BY <2>1, OpenedEntries
  <2>4. CASE d = c
    BY <2>2, <2>3, <2>4
  <2>5. CASE d = [c EXCEPT !.status = "revoked"] /\ c.sub.target = t
    <3>1. /\ DOMAIN d = ResultFields /\ d.id = c.id /\ d.outcome = c.outcome
          /\ d.sub = c.sub
      BY <2>3, <2>5 DEF ResultFields
    <3>. QED  BY <1>3, <2>2, <2>5, <3>1
  <2>. QED  BY <2>1, <2>4, <2>5
<1>7. /\ DOMAIN task' = TaskFields /\ Granted(task.sub)'
      /\ \A e \in edits' : /\ DOMAIN e = EditFields /\ DOMAIN e.next = TaskFields
                            /\ Granted(e.next.sub)'
  BY <1>1, <1>2, <1>4 DEF ShapeOK, SubsOK, Granted, Steady
<1>8. spare.grants \in Nat /\ routes' \subseteq routes
  BY <1>1, <1>3 DEF ShapeOK
<1>. QED  BY <1>2, <1>4, <1>6, <1>7, <1>8, ListKeepsInv DEF Steady, Present

\* An instance dies with its runners, and with the bridge if it had it.
LEMMA DeathKeepsInv == ASSUME CronInv, NEW i, InstanceDies(i) PROVE CronInv'
<1>1. ShapeOK /\ RunsOK /\ SubsOK
  BY DEF CronInv
<1>2. Steady
  BY <1>1, SteadySpare DEF InstanceDies
<1>3. /\ UNCHANGED <<task, ended, routes, records, results>> /\ mail' \in {mail, Resting}
      /\ edits' \subseteq edits
      /\ runners' = {x \in runners : x.at # i}
      /\ leases' = [r \in DOMAIN leases |->
                      IF leases[r] = "held" /\ \E x \in runners : x.run = r /\ x.at = i
                      THEN "free" ELSE leases[r]]
  BY DEF InstanceDies
<1>4. DOMAIN mail' = MailFields /\ (mail' = mail \/ mail'.runs = {})
  BY <1>1, <1>3 DEF ShapeOK, Resting, MailFields
<1>5. ASSUME NEW id \in Ids PROVE Run(id)'
  <2>1. RunOK(RunnersOf(id), RecordsOf(id), Said(id), leases[id])
    BY <1>1 DEF RunsOK, Run
  <2>2. RecordsOf(id)' = RecordsOf(id)
    BY <1>3, SameParts
  <2>3. Said(id)' \subseteq Said(id)
    BY <1>3, <1>4 DEF Said
  <2>4. leases'[id] = IF leases[id] = "held" /\ \E x \in RunnersOf(id) : x.at = i
                      THEN "free" ELSE leases[id]
    BY <1>1, <1>3, IdsAreLeased DEF RunnersOf
  <2>5. RunnersOf(id)' = {x \in RunnersOf(id) : x.at # i}
    BY <1>3 DEF RunnersOf
  <2>6. RunOK(RunnersOf(id)', RecordsOf(id), Said(id), leases'[id])
    <3>1. CASE \E x \in RunnersOf(id) : x.at = i
      <4>1. RunnersOf(id)' = {}
        BY <2>1, <2>5, <3>1 DEF RunOK
      <4>2. leases'[id] = IF leases[id] = "held" THEN "free" ELSE leases[id]
        BY <2>4, <3>1
      <4>. QED  BY <2>1, <3>1, <4>1, <4>2, RunnerGone
    <3>2. CASE ~\E x \in RunnersOf(id) : x.at = i
      <4>1. RunnersOf(id)' = RunnersOf(id) /\ leases'[id] = leases[id]
        BY <2>4, <2>5, <3>2
      <4>. QED  BY <2>1, <4>1
    <3>. QED  BY <3>1, <3>2
  <2>7. RunOK(RunnersOf(id)', RecordsOf(id)', Said(id)', leases'[id])
    BY <2>2, <2>3, <2>6, LessOfARun
  <2>. QED  BY <2>7 DEF Run
<1>6. RunsOK'
  <2>1. Named' /\ Ids' = Ids
    BY <1>1, <1>2, <1>3, <1>4, SameParts, SteadyIds DEF RunsOK, Named
  <2>. QED  BY <1>5, <2>1 DEF RunsOK, Named
<1>7. ShapeOK'
  BY <1>1, <1>2, <1>3, <1>4, ShapeKept DEF ShapeOK
<1>8. SubsOK'
  BY <1>1, <1>2, <1>3, <1>4, SubsKept, SameParts DEF SubsOK, Steady
<1>. QED  BY <1>6, <1>7, <1>8 DEF CronInv

-----------------------------------------------------------------------------
\* There is no run yet, and at most one subscription.
LEMMA CronInitInv == CronInit => CronInv
<1>. SUFFICES ASSUME CronInit PROVE CronInv
  OBVIOUS
<1>1. PICK b \in CronBounds, sub \in {NoSub, [target |-> 1, id |-> 1, grant |-> 1]} :
        /\ spare = [limit |-> b, runs |-> b.runs, deaths |-> b.deaths, faults |-> b.faults,
                    edits |-> b.edits, minutes |-> b.minutes, grants |-> sub.grant]
        /\ task = [present |-> TRUE, enabled |-> TRUE, sub |-> sub]
        /\ leases = [r \in 1..b.runs |-> "none"]
  BY DEF CronInit
<1>2. records = <<>> /\ results = {} /\ runners = {} /\ mail = Resting /\ edits = {}
  BY DEF CronInit
<1>3. b.runs \in Nat /\ b.keep \in Nat
  BY CronAssumption
<1>4. sub.grant \in Nat /\ (sub = NoSub \/ (sub.id \in 1..sub.grant /\ sub.grant = sub.id))
  BY DEF NoSub
<1>5. History = {}
  BY <1>2 DEF History
<1>6. ShapeOK
  BY <1>1, <1>2, <1>3, <1>4
     DEF ShapeOK, SpareFields, TaskFields, MailFields, Resting, Sequence
<1>7. RunsOK
  <2>1. Ids = {}
    BY <1>1, <1>3 DEF Ids, NewRun
  <2>. QED  BY <1>2, <1>5, <2>1 DEF RunsOK, Resting
<1>8. SubsOK
  BY <1>1, <1>2, <1>4, <1>5 DEF SubsOK, Granted, Resting
<1>. QED  BY <1>6, <1>7, <1>8 DEF CronInv

\* Every step keeps the invariant.
LEMMA CronStepInv == CronInv /\ [CronNext]_cronVars => CronInv'
<1>. SUFFICES ASSUME CronInv, [CronNext]_cronVars PROVE CronInv'
  OBVIOUS
<1>1. ShapeOK /\ SubsOK
  BY DEF CronInv
<1>2. ASSUME UNCHANGED <<listVars, routes, records, leases, runners, results, mail>>, Steady
      PROVE  CronInv'
  <2>1. \A u : Granted(u)' <=> Granted(u)
    BY <1>2 DEF Granted, Steady
  <2>2. spare.grants \in Nat /\ UNCHANGED <<task, edits, ended>>
    BY <1>1, <1>2 DEF ShapeOK, listVars
  <2>3. /\ DOMAIN task' = TaskFields /\ Granted(task.sub)'
        /\ \A e \in edits' : /\ DOMAIN e = EditFields /\ DOMAIN e.next = TaskFields
                              /\ Granted(e.next.sub)'
        /\ \A d \in results' : DOMAIN d = ResultFields
    BY <1>1, <1>2, <2>1, <2>2 DEF ShapeOK, SubsOK
  <2>. QED  BY <1>2, <2>2, <2>3, ListKeepsInv DEF Steady, Present
<1>3. ASSUME NEW i \in Instances, SweepRuns(i) PROVE CronInv'
  BY <1>3, SweepKeepsInv
<1>4. ASSUME NEW i \in Instances, FireDue(i) \/ RunNow(i) PROVE CronInv'
  BY <1>4, LaunchKeepsInv DEF FireDue, RunNow
<1>5. ASSUME NEW i \in Instances, NothingDue(i) \/ InstanceStarts(i) PROVE CronInv'
  BY <1>1, <1>2, <1>5, SteadySpare DEF NothingDue, InstanceStarts
<1>6. CASE MinutePasses
  BY <1>1, <1>2, <1>6, SteadySpare DEF MinutePasses
<1>7. ASSUME NEW i \in Instances, CollectResults(i) PROVE CronInv'
  BY <1>7, MailKeepsInv
<1>8. ASSUME NEW i \in Instances, InstanceDies(i) PROVE CronInv'
  BY <1>8, DeathKeepsInv
<1>9. ASSUME NEW x \in runners,
             \/ AcquireLease(x) \/ AppendRecord(x) \/ ProgramEnds(x) \/ PersistOutcome(x)
             \/ StoreRun(x) \/ RereadTask(x) \/ EnqueueResult(x) \/ RunnerDies(x)
      PROVE  CronInv'
  BY <1>9, RunnerKeepsInv, AppendKeepsInv, PersistKeepsInv, StoreKeepsInv, EnqueueKeepsInv
<1>10. CASE ReconcileResults \/ ReserveResult \/ FinishResult
  BY <1>10, MailKeepsInv
<1>11. ASSUME NEW editor, \/ UpdateTask(editor) \/ ToggleTask(editor)
                          \/ DeleteTask(editor) \/ EditOtherTask(editor)
       PROVE  CronInv'
  BY <1>11, UpdateKeepsInv, EditKeepsInv
<1>12. ASSUME NEW e \in edits, WriteTask(e) \/ RemoveHistory(e) PROVE CronInv'
  BY <1>12, WriteBackKeepsInv
<1>13. ASSUME NEW i, RouteGoes(i) PROVE CronInv'
  BY <1>13, RouteKeepsInv
<1>14. CASE UNCHANGED cronVars
  <2>1. UNCHANGED <<listVars, routes, records, leases, runners, results, mail, spare>>
    BY <1>14 DEF cronVars
  <2>. QED  BY <1>1, <1>2, <2>1, SteadySpare
<1>. QED
  BY <1>3, <1>4, <1>5, <1>6, <1>7, <1>8, <1>9, <1>10, <1>11, <1>12, <1>13,
     <1>14
     DEF CronNext

\* The invariant: each run has one runner at most, which holds the run's lease from before
\* its record exists to its own end; the record, the runner and what has been read to be
\* reported agree on the outcome; and what a run was started under is in force still, or its
\* grant was withdrawn, whatever edits of the task list are written back late.
THEOREM CronInvariant == CronSpec => []CronInv
BY CronInitInv, CronStepInv, PTL DEF CronSpec

\* No run stays "running" for ever because nobody can prove its runner dead, for any number
\* of instances, runs, deaths and failed writes.
THEOREM OrphansCanBeClosed == CronSpec => []OrphanIsRecoverable
<1>1. CronInv => OrphanIsRecoverable
  <2>. SUFFICES ASSUME CronInv, NEW n \in DOMAIN records, records[n].status = "running",
                       ~\E x \in runners : x.run = records[n].id, NEW i \in Instances
                PROVE  RunnerIsGone(records[n], i)
    BY DEF OrphanIsRecoverable
  <2>. DEFINE r == records[n]
  <2>1. r.id \in Ids /\ r \in RecordsOf(r.id)
    BY DEF CronInv, RunsOK, History, RecordsOf
  <2>2. RecordOK(r, RunnersOf(r.id), Said(r.id), leases[r.id])
    BY <2>1 DEF CronInv, RunsOK, Run, RunOK
  <2>3. RunnersOf(r.id) = {}
    BY DEF RunnersOf
  <2>. QED  BY <2>2, <2>3 DEF RecordOK, RunnerIsGone
<1>. QED  BY <1>1, CronInvariant, PTL

\* What is reported of a run is what its record says, for any number of instances, sweeps,
\* deaths and failed writes.
THEOREM OutcomesStand == CronSpec => []ReportedOutcomeStands
<1>1. CronInv => ReportedOutcomeStands
  <2>. SUFFICES ASSUME CronInv, NEW n \in DOMAIN records, NEW d \in results,
                       d.id = records[n].id
                PROVE  d.outcome = records[n].status
    BY DEF ReportedOutcomeStands
  <2>. DEFINE r == records[n]
  <2>1. r.id \in Ids /\ r \in RecordsOf(r.id)
    BY DEF CronInv, RunsOK, History, RecordsOf
  <2>2. RecordOK(r, RunnersOf(r.id), Said(r.id), leases[r.id])
    BY <2>1 DEF CronInv, RunsOK, Run, RunOK
  <2>3. d.outcome \in Said(r.id)
    BY DEF Said
  <2>. QED  BY <2>2, <2>3 DEF RecordOK
<1>. QED  BY <1>1, CronInvariant, PTL

\* As long as the subscription a run was started under is in force, its result is found in
\* the history; and none is revoked unless its grant was withdrawn or its route went, for any
\* number of edits of the task list, by any editors, in any order of their reads and writes.
THEOREM ResultsAreKept == CronSpec => []NoResultIsLost
<1>1. CronInv => NoResultIsLost
  <2>. SUFFICES ASSUME CronInv PROVE NoResultIsLost
    OBVIOUS
  <2>1. ASSUME NEW n \in DOMAIN records, records[n].status # "running",
               SubMatches(records[n].sub, task.sub)
        PROVE  records[n].finished /\ records[n].hermes = "pending"
    <3>. DEFINE r == records[n]
    <3>1. r.id \in Ids /\ r \in RecordsOf(r.id)
      BY DEF CronInv, RunsOK, History, RecordsOf
    <3>2. RecordOK(r, RunnersOf(r.id), Said(r.id), leases[r.id])
      BY <3>1 DEF CronInv, RunsOK, Run, RunOK
    <3>3. r.sub # NoSub
      BY <2>1 DEF SubMatches, NoSub
    <3>. QED  BY <2>1, <3>2, <3>3 DEF RecordOK
  <2>2. \A d \in results :
          d.status = "revoked" => d.sub.grant \in ended \/ d.sub.target \notin routes
    BY DEF CronInv, SubsOK, EntrySub, Revocable
  <2>. QED  BY <2>1, <2>2 DEF NoResultIsLost
<1>. QED  BY <1>1, CronInvariant, PTL

\* Only a reservation writes down a grant: that of the subscription in force, whose id the
\* run's own subscription carries.
LEMMA GrantStep ==
  ASSUME CronInv, [CronNext]_cronVars, ResultsKeepTheirGrant
  PROVE  ResultsKeepTheirGrant'
<1>1. ShapeOK /\ SubsOK
  BY DEF CronInv
<1>2. \A d \in results : DOMAIN d = ResultFields /\ Granted(d.sub)
  BY <1>1 DEF ShapeOK, SubsOK, EntrySub, Followed
<1>3. \A d \in Opened : d.under # 0 => d.under = d.sub.grant
  <2>1. ASSUME NEW d \in Opened
        PROVE  \E e \in results : d = e \/ d = [e EXCEPT !.status = "unknown"]
    BY <2>1 DEF Opened, ReopenedOutbox
  <2>. QED  BY <1>2, <2>1 DEF ResultsKeepTheirGrant, ResultFields
<1>4. \A id, outcome, sub, copy : Result(id, outcome, sub, copy).under = 0
  BY DEF Result
<1>5. CASE \E x \in runners : EnqueueResult(x)
  <2>1. \A d \in results' :
          \/ d \in Opened \/ d \in results
          \/ \E x \in runners : d = Result(x.run, x.outcome, x.sub, x.copy)
    BY <1>5 DEF EnqueueResult, QueuedDelivery
  <2>. QED  BY <1>3, <1>4, <2>1 DEF ResultsKeepTheirGrant
<1>6. CASE \E i \in Instances : CollectResults(i)
  BY <1>3, <1>6 DEF CollectResults, ResultsKeepTheirGrant
<1>7. CASE ReconcileResults
  BY <1>4, <1>7 DEF ReconcileResults, ResultsKeepTheirGrant
<1>8. CASE ReserveResult
  <2>1. PICK d \in results :
          results' = Saved(results,
             IF ReservedDelivery(d, InForce(d)).status = "sending"
             THEN [ReservedDelivery(d, InForce(d)) EXCEPT !.under = task.sub.grant]
             ELSE ReservedDelivery(d, InForce(d)))
    BY <1>8 DEF ReserveResult
  <2>. DEFINE e == IF ReservedDelivery(d, InForce(d)).status = "sending"
                   THEN [ReservedDelivery(d, InForce(d)) EXCEPT !.under = task.sub.grant]
                   ELSE ReservedDelivery(d, InForce(d))
  <2>2. /\ e.sub = d.sub
        /\ e.under = d.under \/ (InForce(d) /\ e.under = task.sub.grant)
    BY <1>2 DEF ReservedDelivery, ResultFields
  <2>3. InForce(d) => task.sub.grant = d.sub.grant
    BY <1>1, <1>2 DEF SubsOK, Granted, InForce, SubMatches, NoSub
  <2>4. \A f \in results' : f = e \/ f \in results
    BY <2>1 DEF Saved
  <2>. HIDE DEF e
  <2>. QED  BY <2>2, <2>3, <2>4 DEF ResultsKeepTheirGrant
<1>9. CASE FinishResult
  <2>1. PICK d \in results, receipt \in {"sent", "not_sent", "unknown"} :
          results' = Saved(results, FinishedDelivery(d, receipt, InForce(d)))
    BY <1>9 DEF FinishResult
  <2>2. /\ FinishedDelivery(d, receipt, InForce(d)).sub = d.sub
        /\ FinishedDelivery(d, receipt, InForce(d)).under = d.under
    BY <1>2 DEF FinishedDelivery, ResultFields
  <2>. QED  BY <2>1, <2>2 DEF ResultsKeepTheirGrant, Saved
<1>10. CASE \/ \E i \in Instances : RouteGoes(i)
            \/ \E editor \in Editors : UpdateTask(editor)
  <2>1. ASSUME NEW d \in results'
        PROVE  d \in results \/ \E c \in Opened : d = c \/ d = [c EXCEPT !.status = "revoked"]
    BY <1>10 DEF RouteGoes, UpdateTask, Withdrawn
  <2>2. \A c \in Opened : DOMAIN c = ResultFields
    BY OpenedEntries
  <2>. QED  BY <1>3, <2>1, <2>2 DEF ResultsKeepTheirGrant, ResultFields
<1>12. CASE UNCHANGED results
  BY <1>12 DEF ResultsKeepTheirGrant
<1>11. \/ \E x \in runners : EnqueueResult(x)
       \/ \E i \in Instances : CollectResults(i)
       \/ ReconcileResults \/ ReserveResult \/ FinishResult
       \/ \E i \in Instances : RouteGoes(i)
       \/ \E editor \in Editors : UpdateTask(editor)
       \/ UNCHANGED results
  BY DEF CronNext, cronVars, SweepRuns, FireDue, NothingDue, RunNow, InstanceDies,
         InstanceStarts, MinutePasses, AcquireLease, AppendRecord, ProgramEnds,
         PersistOutcome, StoreRun, RereadTask, RunnerDies, ToggleTask, DeleteTask,
         EditOtherTask, WriteTask, RemoveHistory
<1>. QED  BY <1>5, <1>6, <1>7, <1>8, <1>9, <1>10, <1>11, <1>12

\* What is sent is sent under the grant its run was started with, for any number of edits,
\* whatever was read before them.
THEOREM GrantsAreKept == CronSpec => []ResultsKeepTheirGrant
<1>1. CronInit => ResultsKeepTheirGrant
  BY DEF CronInit, ResultsKeepTheirGrant
<1>2. CronInv /\ [CronNext]_cronVars /\ ResultsKeepTheirGrant => ResultsKeepTheirGrant'
  BY GrantStep
<1>. QED  BY <1>1, <1>2, CronInvariant, PTL DEF CronSpec

==================================================================================
