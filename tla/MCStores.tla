------------------------------ MODULE MCStores ------------------------------
(* Instances for TLC of the parts of the application that keep records: the    *)
(* Hermes bridge, the scheduled tasks, the event log.  They share no state, so *)
(* each behaviour runs one of them and leaves the others as they started.      *)
EXTENDS HermesBridge, CronRuns, EventLog

VARIABLE part
storeVars == <<part, bridgeVars, cronVars, logVars>>

NoChat == [inputs |-> 1, confirms |-> 1, replies |-> 0, sends |-> 0, expiries |-> 0,
           generations |-> 1, grants |-> 0, hosts |-> 1, events |-> 0, restarts |-> 0]
Relayed == [NoChat EXCEPT !.generations = 2, !.sends = 1]
MCBridgeBounds ==
  {Relayed,
   [NoChat EXCEPT !.inputs = 2, !.confirms = 0, !.replies = 1, !.hosts = 2, !.sends = 2],
   [NoChat EXCEPT !.confirms = 2, !.restarts = 1, !.hosts = 2, !.sends = 2, !.expiries = 1],
   [NoChat EXCEPT !.restarts = 1, !.hosts = 2, !.events = 3],
   [NoChat EXCEPT !.generations = 2, !.events = 2],
   [NoChat EXCEPT !.grants = 1, !.sends = 1],
   [NoChat EXCEPT !.inputs = 0, !.grants = 1, !.sends = 2, !.restarts = 1, !.hosts = 2],
   [NoChat EXCEPT !.inputs = 0, !.grants = 2, !.events = 2]}

OneRun == [runs |-> 1, keep |-> 2, deaths |-> 1, faults |-> 1, edits |-> 1,
           instances |-> 2, minutes |-> 0]
TwoRuns == [OneRun EXCEPT !.runs = 2, !.keep = 1, !.faults = 0, !.edits = 0,
                          !.minutes = 1, !.instances = 1]
EditedTask == [OneRun EXCEPT !.edits = 2, !.deaths = 0, !.instances = 1]
MCCronBounds == {OneRun, TwoRuns, EditedTask}

MCReaders == {"r1", "r2"}
ThreeEvents == [events |-> 3, asks |-> 1, batch |-> 2, failures |-> 0, crashes |-> 0,
                reconnects |-> 0, pages |-> 3]
BusyLog == [ThreeEvents EXCEPT !.failures = 1]
RestartedLog == [ThreeEvents EXCEPT !.crashes = 1, !.events = 4, !.asks = 0]
ReconnectedLog == [ThreeEvents EXCEPT !.reconnects = 1, !.failures = 1, !.pages = 2]
MCLogBounds == {BusyLog, RestartedLog, ReconnectedLog}

\* A part that rests has the first of its instances.
StoresInit ==
  /\ part \in {"bridge", "cron", "log"}
  /\ BridgeInit /\ CronInit /\ LogInit
  /\ part # "bridge" => used.limit = Relayed
  /\ part # "cron" => spare.limit = EditedTask /\ task.sub = NoSub
  /\ part # "log" => left = BusyLog

StoresNext ==
  /\ UNCHANGED part
  /\ \/ part = "bridge" /\ BridgeNext /\ UNCHANGED <<cronVars, logVars>>
     \/ part = "cron" /\ CronNext /\ UNCHANGED <<bridgeVars, logVars>>
     \/ part = "log" /\ LogNext /\ UNCHANGED <<bridgeVars, cronVars>>

StoresSpec == StoresInit /\ [][StoresNext]_storeVars
=============================================================================
