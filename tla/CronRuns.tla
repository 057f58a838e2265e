-------------------------------- MODULE CronRuns --------------------------------
(***************************************************************************)
(* The runs of a scheduled task (cron.rs, cron/recovery.rs) and the         *)
(* delivery of their results to a chat (cron/hermes_notifications.rs,       *)
(* hermes_bridge/cron_notifications.rs).                                    *)
(*                                                                         *)
(* Several instances of the application share the task list and the run     *)
(* history.  A runner is a thread of one of them; it holds a lease that the *)
(* operating system releases with the thread or the process, so that a      *)
(* sweep by any instance can tell a dead runner from a busy one.  One        *)
(* instance at a time has the bridge's database open.  A change of the      *)
(* history is one action (the mutation lock), as is a transaction of the    *)
(* bridge; the task list is read without either, and an edit of it reads     *)
(* all of it and later writes all of it back.                               *)
(*                                                                         *)
(* One task.  A subscription is a target and an id; `grant' numbers the     *)
(* grants the user made, whatever id the code gives them.  A target is a    *)
(* generation of a route of the bridge; once gone it stays gone.            *)
(***************************************************************************)
EXTENDS Naturals, Sequences, FiniteSets, HermesOutbox

CONSTANTS CronBounds  \* bounds: runs, records kept (MAX_RUNS_PER_TASK), deaths, failures,
                      \* edits of the task list and routes that go, instances, minutes
ASSUME CronAssumption ==
  CronBounds \subseteq [runs : Nat, keep : Nat \ {0}, deaths : Nat, faults : Nat,
                        edits : Nat, instances : Nat \ {0}, minutes : Nat]

VARIABLES task,      \* the task: whether it is in the list; its subscription
          edits,     \* edits of the task list that are not over
          ended,     \* history: the grants that were withdrawn
          routes,    \* the targets that can be reached
          records,   \* the persisted run history
          leases,    \* of each run
          runners,   \* runner threads
          instances, \* each: up, scheduler, whether it fired in this minute
          bridge,    \* the instance that has the bridge's database open, 0 for none
          results,   \* the bridge's outbox
          mail,      \* the bridge's polling thread
          spare      \* what is left of each bound, and the bounds
listVars == <<task, edits, ended>>
cronVars == <<listVars, routes, records, leases, runners, instances, bridge, results, mail,
              spare>>

NoSub == [target |-> 0, id |-> 0, grant |-> 0]
Resting == [pc |-> "idle", runs |-> {}, copy |-> NoSub, run |-> 0]
Down == [up |-> FALSE, sched |-> "down", fired |-> FALSE]

CronInit ==
  \E b \in CronBounds, sub \in {NoSub, [target |-> 1, id |-> 1, grant |-> 1]} :
    /\ spare = [limit |-> b, runs |-> b.runs, deaths |-> b.deaths, faults |-> b.faults,
                edits |-> b.edits, minutes |-> b.minutes, grants |-> sub.grant]
    /\ task = [present |-> TRUE, enabled |-> TRUE, sub |-> sub]
    /\ edits = {} /\ ended = {} /\ routes = {1, 2}
    /\ records = <<>> /\ results = {} /\ runners = {}
    /\ leases = [r \in 1..b.runs |-> "none"]
    /\ instances = [i \in 1..b.instances |->
                      IF i = 1 THEN [Down EXCEPT !.up = TRUE, !.sched = "start"] ELSE Down]
    /\ bridge = 0 /\ mail = Resting

Instances == DOMAIN instances
Present == task.present
Draw(what) == spare[what] > 0 /\ spare' = [spare EXCEPT ![what] = @ - 1]
\* An operation succeeds, or fails and uses up one of the failures.
Works == UNCHANGED spare
Fails == Draw("faults")

-----------------------------------------------------------------------------
(* The history.                                                             *)

RunIds == {records[n].id : n \in DOMAIN records}
\* append_run.
Appended(r) ==
  LET all == Append(records, r)
      excess == IF Len(all) > spare.limit.keep THEN Len(all) - spare.limit.keep ELSE 0
  IN  SubSeq(all, excess + 1, Len(all))
\* update_run: an error, and no change, when the record is not there any more.
Updated(id, Change(_)) ==
  [n \in DOMAIN records |-> IF records[n].id = id THEN Change(records[n]) ELSE records[n]]

WithResult(outcome, r) ==
  [r EXCEPT !.status = outcome, !.finished = TRUE,
            !.hermes = IF @ = "none" THEN "none" ELSE "pending"]

\* Mutant: ownership is judged by the runners of this instance.
GoneFromHere(r, i) == ~\E x \in runners : x.run = r.id /\ x.at = i

\* The sweep's judgement and runner_is_gone; a missing lease proves nothing.
RunnerIsGone(r, i) == r.leased /\ leases[r.id] = "free"

\* Mutant: the notification of a closed run stays "waiting".
SweptSilently(r) == [r EXCEPT !.status = "failed", !.finished = TRUE]

\* close_orphaned_running_runs, for one record.
ClosedAsFailed(r) ==
  [r EXCEPT !.status = "failed", !.finished = TRUE,
            !.hermes = IF @ = "waiting" THEN "pending" ELSE @]

\* sweep_orphaned_cron_runs.
Swept(i) ==
  [n \in DOMAIN records |->
     LET r == records[n] IN
     IF r.status = "running" /\ RunnerIsGone(r, i) THEN ClosedAsFailed(r) ELSE r]

-----------------------------------------------------------------------------
(* Schedulers.                                                              *)

NewRun == 1 + spare.limit.runs - spare.runs
Runner(i) == [run |-> NewRun, pc |-> "start", at |-> i, sub |-> task.sub,
              outcome |-> "running", copy |-> NoSub]

\* Mutant: the runner starts without a lease.
LaunchedUnowned(i) == runners' = runners \cup {[Runner(i) EXCEPT !.pc = "append"]}

\* execute_task is spawned with a copy of the task.
Launched(i) == runners' = runners \cup {Runner(i)}

\* start_cron_scheduler before its thread, and each turn of the thread: the sweep first.
SweepRuns(i) ==
  /\ instances[i].sched \in {"start", "asleep"}
  /\ \/ records' = Swept(i) /\ Works
     \/ Swept(i) # records /\ records' = records /\ Fails
  /\ instances' = [instances EXCEPT ![i].sched = IF @ = "start" THEN "asleep" ELSE "look"]
  /\ UNCHANGED <<listVars, routes, leases, runners, bridge, results, mail>>

\* The rest of a turn: a task that is due and has not fired in this minute.
FireDue(i) ==
  /\ instances[i].sched = "look"
  /\ Present /\ task.enabled /\ ~instances[i].fired
  /\ instances' = [instances EXCEPT ![i].sched = "asleep", ![i].fired = TRUE]
  /\ Draw("runs") /\ Launched(i)
  /\ UNCHANGED <<listVars, routes, records, leases, bridge, results, mail>>

NothingDue(i) ==
  /\ instances[i].sched = "look"
  /\ instances' = [instances EXCEPT ![i].sched = "asleep"]
  /\ UNCHANGED <<listVars, routes, records, leases, runners, bridge, results, mail, spare>>

MinutePasses ==
  /\ \E i \in Instances : instances[i].fired
  /\ Draw("minutes")
  /\ instances' = [i \in Instances |-> [instances[i] EXCEPT !.fired = FALSE]]
  /\ UNCHANGED <<listVars, routes, records, leases, runners, bridge, results, mail>>

\* run_cron_task_now: also a task that is disabled.
RunNow(i) ==
  /\ instances[i].up /\ Present
  /\ Draw("runs") /\ Launched(i)
  /\ UNCHANGED <<listVars, routes, records, leases, instances, bridge, results, mail>>

-----------------------------------------------------------------------------
(* execute_task.                                                            *)

Step(x, y) == runners' = (runners \ {x}) \cup {y}
\* The lease goes with the thread.
Ends(x) ==
  /\ runners' = runners \ {x}
  /\ leases' = [leases EXCEPT ![x.run] = IF @ = "held" THEN "free" ELSE @]

AcquireLease(x) ==
  /\ x.pc = "start"
  /\ \/ leases' = [leases EXCEPT ![x.run] = "held"]
        /\ Step(x, [x EXCEPT !.pc = "append"]) /\ Works
     \/ Step(x, [x EXCEPT !.pc = "append", !.outcome = "failed"]) /\ Fails
        /\ UNCHANGED leases
  /\ UNCHANGED <<listVars, routes, records, instances, bridge, results, mail>>

FirstRecord(x) ==
  LET r == [id |-> x.run, status |-> "running", leased |-> TRUE, finished |-> FALSE,
            sub |-> x.sub, hermes |-> IF x.sub = NoSub THEN "none" ELSE "waiting"]
  IN  IF x.outcome = "failed" THEN [WithResult("failed", r) EXCEPT !.leased = FALSE] ELSE r

AppendRecord(x) ==
  /\ x.pc = "append"
  /\ \/ /\ records' = Appended(FirstRecord(x)) /\ Works
        /\ IF x.outcome = "failed" THEN Ends(x)
           ELSE Step(x, [x EXCEPT !.pc = "work"]) /\ UNCHANGED leases
     \/ Fails /\ Ends(x) /\ UNCHANGED records
  /\ UNCHANGED <<listVars, routes, instances, bridge, results, mail>>

\* The program ends, is killed at its deadline, or could not be launched.
ProgramEnds(x) ==
  /\ x.pc = "work"
  /\ \E outcome \in {"success", "failed", "timeout"}, pc \in {"early", "persist"} :
       /\ outcome = "success" => pc = "persist"
       /\ Step(x, [x EXCEPT !.pc = pc, !.outcome = outcome])
  /\ UNCHANGED <<listVars, routes, records, leases, instances, bridge, results, mail, spare>>

\* The two best-effort writes of the outcome, before and after the output is drained.
PersistOutcome(x) ==
  /\ x.pc \in {"early", "persist"}
  /\ \/ records' = Updated(x.run, LAMBDA r : WithResult(x.outcome, r)) /\ Works
     \/ x.run \in RunIds /\ records' = records /\ Fails
  /\ Step(x, [x EXCEPT !.pc = IF @ = "early" THEN "persist" ELSE "store"])
  /\ UNCHANGED <<listVars, routes, leases, instances, bridge, results, mail>>

\* "Persist the completion and recipient together before exposing a sendable result."
StoreRun(x) ==
  /\ x.pc = "store"
  /\ \/ /\ x.run \in RunIds /\ Works
        /\ records' = Updated(x.run, LAMBDA r :
                        WithResult(x.outcome, FirstRecord([x EXCEPT !.outcome = "running"])))
        /\ IF x.sub = NoSub THEN Ends(x)
           ELSE Step(x, [x EXCEPT !.pc = "reread"]) /\ UNCHANGED leases
     \/ x.run \notin RunIds /\ Works /\ Ends(x) /\ UNCHANGED records
     \/ x.run \in RunIds /\ Fails /\ Ends(x) /\ UNCHANGED records
  /\ UNCHANGED <<listVars, routes, instances, bridge, results, mail>>

\* hermes_notifications::complete reads the task again.
RereadTask(x) ==
  /\ x.pc = "reread"
  /\ \/ Present /\ Works /\ Step(x, [x EXCEPT !.pc = "enqueue", !.copy = task.sub])
        /\ UNCHANGED leases
     \/ ~Present /\ Works /\ Ends(x)
     \/ Fails /\ Ends(x)
  /\ UNCHANGED <<listVars, routes, records, instances, bridge, results, mail>>

-----------------------------------------------------------------------------
(* The bridge, in whichever instance has its database open.                 *)

Hosting(i) == bridge \in {0, i}
Opened == IF bridge = 0 THEN ReopenedOutbox(results) ELSE results

\* Mutant: a result is authorized by its target alone.
MatchesTarget(sub, current) == sub.target # 0 /\ sub.target = current.target

\* subscription_matches.
SubMatches(sub, current) ==
  sub.id # 0 /\ sub.target = current.target /\ sub.id = current.id

\* cron_notifications::enqueue, with the copy of the task the caller read.
Result(id, outcome, sub, copy) ==
  [id |-> id, outcome |-> outcome, sub |-> sub, under |-> 0,
   status |-> IF SubMatches(sub, copy) /\ sub.target \in routes THEN "pending" ELSE "revoked"]

\* enqueue_cron_notification, the end of `complete'; an error leaves it to the polling.
EnqueueResult(x) ==
  /\ x.pc = "enqueue"
  /\ IF Hosting(x.at)
     THEN /\ bridge' = x.at
          /\ results' = QueuedDelivery(Opened, Result(x.run, x.outcome, x.sub, x.copy))
     ELSE UNCHANGED <<bridge, results>>
  /\ Ends(x)
  /\ UNCHANGED <<listVars, routes, records, instances, mail, spare>>

\* pending_completions: the task and its terminal runs, read without a lock.
CollectResults(i) ==
  /\ instances[i].up /\ Hosting(i) /\ mail.pc = "idle"
  /\ Present /\ task.sub # NoSub
  /\ LET found == {records[n] : n \in DOMAIN records} IN
     mail' = [mail EXCEPT !.pc = "collected", !.copy = task.sub,
                !.runs = {r \in found : /\ r.status # "running" /\ r.finished
                                        /\ r.hermes = "pending" /\ r.sub = task.sub}]
  /\ bridge' = i /\ results' = Opened
  /\ UNCHANGED <<listVars, routes, records, leases, runners, instances, spare>>

\* reconcile_cron_notifications.
ReconcileResults ==
  /\ mail.pc = "collected"
  /\ results' = results \cup
       {Result(r.id, r.status, r.sub, mail.copy) :
          r \in {r \in mail.runs : ~\E d \in results : d.id = r.id}}
  /\ mail' = Resting
  /\ UNCHANGED <<listVars, routes, records, leases, runners, instances, bridge, spare>>

\* authorized_route, with delivery_authorized.
InForce(d) == Present /\ SubMatches(d.sub, task.sub) /\ d.sub.target \in routes

\* reserve_delivery_with: the authority is read again, now under the bridge's locks.
ReserveResult ==
  /\ bridge # 0 /\ mail.pc = "idle"
  /\ \E d \in results :
       /\ d.status = "pending"
       /\ LET r == ReservedDelivery(d, InForce(d)) IN
          /\ results' = Saved(results,
                IF r.status = "sending" THEN [r EXCEPT !.under = task.sub.grant] ELSE r)
          /\ mail' = IF r.status = "sending"
                     THEN [mail EXCEPT !.pc = "send", !.run = d.id] ELSE mail
  /\ UNCHANGED <<listVars, routes, records, leases, runners, instances, bridge, spare>>

\* The chat host's answer, and finish_delivery_with.
FinishResult ==
  /\ mail.pc = "send"
  /\ \E d \in results, receipt \in {"sent", "not_sent", "unknown"} :
       d.id = mail.run /\ results' = Saved(results, FinishedDelivery(d, receipt, InForce(d)))
  /\ mail' = Resting
  /\ UNCHANGED <<listVars, routes, records, leases, runners, instances, bridge, spare>>

-----------------------------------------------------------------------------
(* Edits of the task list, and of the routes.                                *)

\* version_subscription: an id is kept while the target is, else a new one is drawn.
VersionSubscription(target) ==
  IF target = task.sub.target THEN task.sub
  ELSE [target |-> target, id |-> spare.grants + 1, grant |-> spare.grants + 1]

\* An instance edits the list in its window and for its Telegram bridge, one edit at a
\* time each; the command line (apps/cli/src/cron.ts) is a process of its own.
Editors ==
  [by : {"window", "telegram"}, at : Instances] \cup {[by |-> "cli", at |-> 0]}

\* read_tasks: the editor has read the list, and the task will become `next'.
StartEdit(editor, next, step) ==
  /\ editor.by # "cli" => instances[editor.at].up
  /\ ~\E e \in edits : e.editor = editor
  /\ edits' = edits \cup {[editor |-> editor, next |-> next, step |-> step]}
  /\ UNCHANGED <<task, ended, routes, records, leases, runners, instances, mail>>

\* update_cron_task: the subscription is cleared, kept, or set to another target, which
\* has to be reachable.
UpdateTask(editor) ==
  /\ editor.by = "window" /\ Present /\ spare.edits > 0
  /\ \E target \in {0, 1, 2} :
       LET sub == IF target = 0 THEN NoSub ELSE VersionSubscription(target)
           new == sub \notin {NoSub, task.sub}
       IN
       /\ StartEdit(editor, [task EXCEPT !.sub = sub], "write")
       /\ new => target \in routes /\ Hosting(editor.at)
       /\ bridge' = IF new THEN editor.at ELSE bridge
       /\ results' = IF new THEN Opened ELSE results
       /\ spare' = [spare EXCEPT !.edits = @ - 1, !.grants = IF new THEN @ + 1 ELSE @]

\* toggle_cron_task.
ToggleTask(editor) ==
  /\ editor.by # "cli" /\ Present /\ Draw("edits")
  /\ StartEdit(editor, [task EXCEPT !.enabled = ~@], "write")
  /\ UNCHANGED <<bridge, results>>

\* delete_cron_task; the command line leaves the history alone.
DeleteTask(editor) ==
  /\ editor.by # "telegram" /\ Present /\ Draw("edits")
  /\ StartEdit(editor, [task EXCEPT !.present = FALSE],
               IF editor.by = "cli" THEN "write" ELSE "delete")
  /\ UNCHANGED <<bridge, results>>

\* add_cron_task, and any edit of another task: this one is written back as it was read.
EditOtherTask(editor) ==
  /\ Draw("edits") /\ StartEdit(editor, task, "write")
  /\ UNCHANGED <<bridge, results>>

\* The grant that is not in force any more once the task is `next'.
WithdrawnBy(next) ==
  IF Present /\ task.sub # NoSub /\ ~(next.present /\ next.sub = task.sub)
  THEN {task.sub.grant} ELSE {}

\* write_tasks: the list as it was read, with the edit; a deletion goes on to the history.
WriteTask(e) ==
  /\ e.step \in {"write", "delete"}
  /\ \/ /\ task' = e.next /\ ended' = ended \cup WithdrawnBy(e.next) /\ Works
        /\ edits' = (edits \ {e}) \cup
             (IF e.step = "delete" THEN {[e EXCEPT !.step = "clean"]} ELSE {})
     \/ Fails /\ edits' = edits \ {e} /\ UNCHANGED <<task, ended>>
  /\ UNCHANGED <<routes, records, leases, runners, instances, bridge, results, mail>>

\* The end of delete_cron_task: the history goes if it can.
RemoveHistory(e) ==
  /\ e.step = "clean" /\ edits' = edits \ {e}
  /\ records' \in {records, <<>>}
  /\ UNCHANGED <<task, ended, routes, leases, runners, instances, bridge, results, mail, spare>>

\* disable_route, a new approval of the route, revoke_account (which withdraws what waits).
RouteGoes(i) ==
  /\ instances[i].up /\ Hosting(i) /\ Draw("edits") /\ bridge' = i
  /\ \E t \in routes :
       /\ routes' = routes \ {t}
       /\ results' \in {Opened, Withdrawn(Opened, {d \in Opened : d.sub.target = t})}
  /\ UNCHANGED <<listVars, records, leases, runners, instances, mail>>

-----------------------------------------------------------------------------
(* Deaths.                                                                  *)

\* A runner panics: its lease is released on the way out.
RunnerDies(x) ==
  /\ Draw("deaths") /\ Ends(x)
  /\ UNCHANGED <<listVars, routes, records, instances, bridge, results, mail>>

\* An instance exits or crashes with all its runners; the operating system releases
\* their leases and the bridge's lock.
InstanceDies(i) ==
  /\ instances[i].up /\ Draw("deaths")
  /\ instances' = [instances EXCEPT ![i] = Down]
  /\ runners' = {x \in runners : x.at # i}
  /\ leases' = [r \in DOMAIN leases |->
                  IF leases[r] = "held" /\ \E x \in runners : x.run = r /\ x.at = i
                  THEN "free" ELSE leases[r]]
  /\ bridge' = IF bridge = i THEN 0 ELSE bridge
  /\ mail' = IF bridge = i THEN Resting ELSE mail
  /\ edits' = {e \in edits : e.editor.at # i}
  /\ UNCHANGED <<task, ended, routes, records, results>>

InstanceStarts(i) ==
  /\ ~instances[i].up
  /\ instances' = [instances EXCEPT ![i] = [Down EXCEPT !.up = TRUE, !.sched = "start"]]
  /\ UNCHANGED <<listVars, routes, records, leases, runners, bridge, results, mail, spare>>

CronNext ==
  \/ \E i \in Instances : \/ SweepRuns(i) \/ FireDue(i) \/ NothingDue(i) \/ RunNow(i)
                          \/ CollectResults(i) \/ RouteGoes(i)
                          \/ InstanceDies(i) \/ InstanceStarts(i)
  \/ MinutePasses
  \/ \E x \in runners : \/ AcquireLease(x) \/ AppendRecord(x) \/ ProgramEnds(x)
                        \/ PersistOutcome(x) \/ StoreRun(x) \/ RereadTask(x)
                        \/ EnqueueResult(x) \/ RunnerDies(x)
  \/ ReconcileResults \/ ReserveResult \/ FinishResult
  \/ \E editor \in Editors : \/ UpdateTask(editor) \/ ToggleTask(editor)
                            \/ DeleteTask(editor) \/ EditOtherTask(editor)
  \/ \E e \in edits : WriteTask(e) \/ RemoveHistory(e)

CronSpec == CronInit /\ [][CronNext]_cronVars

-----------------------------------------------------------------------------
(* What is reported of a run is what its record says, for as long as the    *)
(* record exists: a run another instance still works on is not closed as    *)
(* failed, and a result announced once does not change afterwards.          *)
ReportedOutcomeStands ==
  \A n \in DOMAIN records, d \in results :
    d.id = records[n].id => d.outcome = records[n].status

(* A record that says "running" either has a runner, or the next sweep of   *)
(* any instance can tell that it has none: no run stays "running" for ever  *)
(* because nobody can prove its runner dead.                                *)
OrphanIsRecoverable ==
  \A n \in DOMAIN records :
    records[n].status = "running" =>
      \/ \E x \in runners : x.run = records[n].id
      \/ \A i \in Instances : RunnerIsGone(records[n], i)

(* As long as the subscription a run was started under is in force, its     *)
(* result is found in the history once the run is terminal, however the run *)
(* ended; and an entry of the outbox is revoked only if the grant of its    *)
(* run was once withdrawn or its route went: edits that undo each other and *)
(* copies of the task that are out of date revoke nothing else.             *)
NoResultIsLost ==
  /\ \A n \in DOMAIN records :
       LET r == records[n] IN
       r.status # "running" /\ Present /\ SubMatches(r.sub, task.sub) =>
         r.finished /\ r.hermes = "pending"
  /\ \A d \in results : d.status = "revoked" =>
       d.sub.grant \in ended \/ d.sub.target \notin routes

(* What is sent to the chat is sent under the very grant the run was        *)
(* started with: clearing a subscription and setting it again, or choosing  *)
(* another target and coming back, does not revive the results of the       *)
(* earlier grant, whatever was read before the change.                      *)
ResultsKeepTheirGrant ==
  \A d \in results : d.under # 0 => d.under = d.sub.grant

(* Violated: a result that waits to be sent does not belong to a grant that  *)
(* was withdrawn and has been revived.  An edit that read the list before    *)
(* the grant was withdrawn writes it back.                                   *)
WithdrawnStaysWithdrawn ==
  \A d \in results : d.status = "pending" /\ InForce(d) => d.sub.grant \notin ended
=============================================================================
