-------------------------------- MODULE EventLog --------------------------------
(***************************************************************************)
(* The event log of a managed session (native_event_log.rs): a vector of    *)
(* records waiting to be written, a database of rows keyed by sequence       *)
(* number, and a summary of the questions the user has not answered, folded  *)
(* along with the rows (workspace_decorations.rs).                           *)
(*                                                                         *)
(* Anybody who reads the log flushes it first: the waiting records are      *)
(* taken out under one lock and written under another, and put back if the  *)
(* write failed.  The session appends its own events one at a time (its     *)
(* store's lock is held through the flush); readers come and go.            *)
(*                                                                         *)
(* A reader pages through the rows up to the newest one its first page      *)
(* found, with a cursor.                                                     *)
(*                                                                         *)
(* appended is history: the records this process appended, and the rows it   *)
(* found.  A record carries the generation of the store it was appended to,  *)
(* so that two records with one number are two records.                      *)
(***************************************************************************)
EXTENDS Naturals, SequencesExt

CONSTANTS Readers,    \* threads that read the log
          LogBounds   \* bounds: events, questions, records that wait
                      \* (EVENT_LOG_FLUSH_BATCH_SIZE), failed writes, restarts of the
                      \* application, reconnects, pages
ASSUME LogAssumption ==
  /\ "session" \notin Readers
  /\ LogBounds \subseteq [events : Nat, asks : Nat, batch : Nat \ {0}, failures : Nat,
                          crashes : Nat, reconnects : Nat, pages : Nat]

VARIABLES log,      \* waiting records, rows, attention summary
          appended, \* records
          store,    \* the session's own store: generation, next number, open questions;
                    \* blind once a store did not start behind everything appended
          threads,  \* what each thread is doing
          views,    \* what each reader has been given
          left      \* what is left of each bound
logVars == <<log, appended, store, threads, views, left>>

At0 == [pc |-> "idle", batch |-> <<>>, why |-> "append"]
\* snap and after: 0 before the first page.
NoView == [after |-> 0, snap |-> 0, seen |-> {}, state |-> "open"]

LogInit ==
  \E b \in LogBounds :
    /\ left = b
    /\ log = [waiting |-> <<>>, rows |-> {}, attention |-> {}]
    /\ appended = {}
    /\ store = [gen |-> 1, next |-> 1, asked |-> {}, blind |-> FALSE]
    /\ threads = [t \in Readers \cup {"session"} |-> At0]
    /\ views = [t \in Readers |-> NoView]

Use(what) == left[what] > 0 /\ left' = [left EXCEPT ![what] = @ - 1]
Becomes(t, pc) == threads' = [threads EXCEPT ![t].pc = pc]

-----------------------------------------------------------------------------
(* Data.                                                                    *)

\* AttentionSummary::apply: a question, its answer, the end of the turn.
Apply(pending, e) ==
  CASE e.kind = "ask"    -> pending \cup {e.of}
    [] e.kind = "answer" -> pending \ {e.of}
    [] e.kind = "end"    -> {}
    [] OTHER             -> pending

Seqs(events) == {e.seq : e \in events}

\* INSERT OR IGNORE, one record after the other.
Inserted(rows, batch) ==
  rows \cup {batch[i] : i \in {i \in 1..Len(batch) :
                /\ batch[i].seq \notin Seqs(rows)
                /\ \A j \in 1..(i - 1) : batch[j].seq # batch[i].seq}}

\* event_seq_bounds, newest_seq; 0 for none.
Newest(rows) == CHOOSE n \in Seqs(rows) \cup {0} : \A m \in Seqs(rows) : m <= n
InOrder(events) == SetToSortSeq(events, LAMBDA a, b : a.seq < b.seq)

\* should_flush_after_append.
FlushesAtOnce(kind) == kind # "text"

-----------------------------------------------------------------------------
(* Appending (SessionStore::append, NativeEventLog::append).                *)

AppendEvent(kind, of) ==
  LET e == [seq |-> store.next, kind |-> kind, of |-> of, gen |-> store.gen] IN
  /\ threads["session"].pc = "idle" /\ left.events > 0
  /\ store' = [store EXCEPT !.next = @ + 1, !.asked = Apply(@, e)]
  /\ appended' = appended \cup {e}
  /\ log' = [log EXCEPT !.waiting = Append(@, e)]
  /\ threads' = [threads EXCEPT !["session"] =
       [At0 EXCEPT !.pc = IF Len(log'.waiting) >= left.batch \/ FlushesAtOnce(kind)
                          THEN "flush" ELSE "idle"]]
  /\ left' = [left EXCEPT !.events = @ - 1, !.asks = IF kind = "ask" THEN @ - 1 ELSE @]
  /\ UNCHANGED views

AppendText == AppendEvent("text", 0)
AppendAsk == left.asks > 0 /\ AppendEvent("ask", store.next)
AppendAnswer == \E q \in store.asked : AppendEvent("answer", q)
AppendEnd == store.asked # {} /\ AppendEvent("end", 0)

-----------------------------------------------------------------------------
(* flush_pending.                                                           *)

Flushed(t) == IF threads[t].why = "append" THEN "idle" ELSE "read"

TakeWaiting(t) ==
  /\ threads[t].pc = "flush"
  /\ IF log.waiting = <<>>
     THEN Becomes(t, Flushed(t)) /\ UNCHANGED log
     ELSE /\ threads' = [threads EXCEPT ![t].pc = "write", ![t].batch = log.waiting]
          /\ log' = [log EXCEPT !.waiting = <<>>]
  /\ UNCHANGED <<appended, store, views, left>>

\* write_records: one transaction.
WriteRecords(t) ==
  /\ threads[t].pc = "write"
  /\ \/ /\ log' = [log EXCEPT !.rows = Inserted(@, threads[t].batch),
                              !.attention = FoldLeft(Apply, @, threads[t].batch)]
        /\ threads' = [threads EXCEPT ![t].pc = Flushed(t), ![t].batch = <<>>]
        /\ UNCHANGED left
     \/ Use("failures") /\ Becomes(t, "restore") /\ UNCHANGED log
  /\ UNCHANGED <<appended, store, views>>

\* Mutant: the restored records replace those appended meanwhile.
RestoredOver(batch, waiting) == batch

Restored(batch, waiting) == batch \o waiting

\* The newest number there is, and one.
StartBehind(rows) == Newest(rows) + 1

\* The session's new store.  The open questions of the old one are not its own.
Starts(number, blind) ==
  store' = [gen |-> store.gen + 1, next |-> number, asked |-> {}, blind |-> blind]

\* The records of a failed write go in front of those appended meanwhile.  A reader
\* gets an error, and its caller what the session's own store still has.  A session
\* that reconnects takes the error for a log without rows.
RestoreRecords(t) ==
  /\ threads[t].pc = "restore"
  /\ log' = [log EXCEPT !.waiting = Restored(threads[t].batch, @)]
  /\ threads' = [threads EXCEPT ![t] = At0]
  /\ views' = IF t \in Readers THEN [views EXCEPT ![t].state = "partial"] ELSE views
  /\ IF threads[t].why = "newest" THEN Starts(1, TRUE) ELSE UNCHANGED store
  /\ UNCHANGED <<appended, left>>

-----------------------------------------------------------------------------
(* Reading.                                                                 *)

AskForPage(t) ==
  /\ threads[t].pc = "idle" /\ views[t].state = "open" /\ Use("pages")
  /\ threads' = [threads EXCEPT ![t] = [At0 EXCEPT !.pc = "flush", !.why = "page"]]
  /\ UNCHANGED <<log, appended, store, views>>

\* Mutant: missing rows are looked for between the rows of a page only.
GapBetween(page, after, upto, snap, more) == \E q \in page : q # upto /\ q + 1 \notin page

\* The gap checks of scan_event_page_rows.
GapIn(page, after, upto, snap, more) ==
  \/ \E q \in (after + 1)..upto : q \notin page
  \/ ~more /\ upto < snap

\* replay_page: how many rows fit is up to their size, but one does.  Without rows there
\* is no snapshot and the caller is referred to the session's store.
ReadRows(t) ==
  LET v == views[t]
      snap == IF v.snap = 0 THEN Newest(log.rows) ELSE v.snap
      rows == {q \in Seqs(log.rows) : v.after < q /\ q <= snap}
  IN
  /\ t \in Readers /\ threads[t].pc = "read"
  /\ \E upto \in (IF rows = {} THEN {v.after} ELSE rows) :
       LET page == {q \in rows : q <= upto}
           more == page # rows
       IN  views' = [views EXCEPT ![t] =
             IF snap = 0 THEN [v EXCEPT !.state = "partial"]
             ELSE [after |-> upto, snap |-> snap, seen |-> v.seen \cup page,
                   state |-> IF GapIn(page, v.after, upto, snap, more) THEN "gap"
                             ELSE IF more THEN "open" ELSE "complete"]]
  /\ threads' = [threads EXCEPT ![t] = At0]
  /\ UNCHANGED <<log, appended, store, left>>

\* A reader whose view is settled starts over.
StartOver(t) ==
  /\ views[t].state # "open" /\ threads[t].pc = "idle" /\ left.pages > 0
  /\ views' = [views EXCEPT ![t] = NoView]
  /\ UNCHANGED <<log, appended, store, threads, left>>

-----------------------------------------------------------------------------
(* A new helper, a new process.                                             *)

Unwritten == UNION {{threads[t].batch[i] : i \in DOMAIN threads[t].batch} :
                      t \in DOMAIN threads}
Unflushed == {log.waiting[i] : i \in DOMAIN log.waiting}

\* The session looks for the newest number: it flushes, then reads.
LooksForNewest == [At0 EXCEPT !.pc = "flush", !.why = "newest"]

\* A new helper: the session's new store starts behind the newest row.
Reconnect ==
  /\ threads["session"].pc = "idle" /\ Use("reconnects")
  /\ threads' = [threads EXCEPT !["session"] = LooksForNewest]
  /\ UNCHANGED <<log, appended, store, views>>

\* It flushed, but a record may be in the hands of a reader, or put back by one.  A
\* query that fails counts as a log without rows.
StoreStarts ==
  /\ threads["session"].pc = "read"
  /\ \/ Starts(StartBehind(log.rows), store.blind \/ Unflushed \cup Unwritten # {})
        /\ UNCHANGED left
     \/ Starts(1, TRUE) /\ Use("failures")
  /\ threads' = [threads EXCEPT !["session"] = At0]
  /\ UNCHANGED <<log, appended, views>>

\* The process dies with everything that is not a row.  The session has no store
\* before it is launched again.
LogCrash ==
  /\ Use("crashes")
  /\ log' = [log EXCEPT !.waiting = <<>>]
  /\ appended' = log.rows
  /\ threads' = [t \in DOMAIN threads |-> IF t = "session" THEN LooksForNewest ELSE At0]
  /\ views' = [t \in Readers |-> NoView]
  /\ store' = [store EXCEPT !.asked = {}, !.blind = FALSE]

LogNext ==
  \/ AppendText \/ AppendAsk \/ AppendAnswer \/ AppendEnd
  \/ \E t \in Readers \cup {"session"} : TakeWaiting(t) \/ WriteRecords(t) \/ RestoreRecords(t)
  \/ \E t \in Readers : AskForPage(t) \/ ReadRows(t) \/ StartOver(t)
  \/ Reconnect \/ StoreStarts \/ LogCrash

LogSpec == LogInit /\ [][LogNext]_logVars

-----------------------------------------------------------------------------
(* A record that was appended is waiting, in the hands of a thread that     *)
(* writes it, or a row, however many flushes fail, and whoever appends       *)
(* while they do.  INSERT OR IGNORE drops one only if a store once started   *)
(* without knowing the newest number (newest_seq failed, or a reader held a  *)
(* batch), for another record with its number.                               *)
AppendedIsAccountedFor ==
  \A r \in appended :
    \/ r \in log.rows \cup Unflushed \cup Unwritten
    \/ store.blind /\ \E o \in log.rows : o # r /\ o.seq = r.seq

(* A reader that reaches the end of its snapshot without being told of a     *)
(* gap has been given a row for every number up to there, although the rows  *)
(* of one batch may be written before those of an earlier one and the log    *)
(* grows and restarts while it reads.                                        *)
BackfillIsComplete ==
  \A t \in Readers : views[t].state = "complete" => 1..views[t].snap \subseteq views[t].seen

(* Violated: when all records are written, the persisted summary is what     *)
(* folding the rows in order gives.  Two batches may be written in the       *)
(* wrong order, and an answer folded before its question leaves the question *)
(* open.                                                                     *)
AttentionMatchesEvents ==
  Unflushed \cup Unwritten = {} => log.attention = FoldLeft(Apply, {}, InOrder(log.rows))
=============================================================================
