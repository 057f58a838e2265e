# Managed sessions of ccem: models, checks and proofs

ccem is a desktop application (Tauri, Rust), a command line tool and a helper
process (TypeScript) that run coding agents.  The application holds many
*managed sessions*.  A managed session is a conversation with a model that
lives in a helper process; prompts come from the user interface, from chat
channels, from scheduled tasks and from other programs, on any thread, and the
answer of the helper comes back over a pipe.  The application promises to send
each prompt once, in order, one turn at a time, and to lose none, while the
helper may exit, a write may break in the middle, an answer may be late and the
user may press Stop at any point.  That protocol is the core of the program and
of this project.  Around it are the components that keep promises of their own:
the handoff of a session to a terminal, the log of its events, scheduled tasks,
the bridge to a chat service, and the recovery of the window's web content.  The
core lives in five files:

| file | state it keeps |
|---|---|
| `native_input_queue.rs` | the FIFO of prompts not yet taken by the helper, the ledger of their ids |
| `native_session_coordinator.rs` and its three `*_ops.rs` | who owns the foreground, which helper and query are current, the lanes of settings, permission, reply and steer requests |
| `native_runtime.rs` | the threads: senders, dispatchers, the reader of the helper's output, Stop, deadlines; the session records and the helper's handles |
| `lib.rs` | the entry points, with the environment mutation lock |
| `native-runtime-helper/src/index.ts` | the helper's side of admission, foreground and interrupt |

(Rust paths are under `apps/desktop/src-tauri/src/`, the helper under
`packages/`.)

## The system, component by component

**Prompt queue.**  One FIFO per session of *batches*.  A batch is one turn: the
prompts sent behind the same foreground command (its *merge fence*) are merged
into the tail batch as long as it was never attempted.  Operations: `enqueue`,
`claim_head` (draws a wire id), the receipts `confirm_admitted` and
`confirm_rejected`, `release_dispatch`, `release_not_started`,
`mark_dispatch_uncertain`, `mark_claim_delivery_uncertain`, `remove_dispatch`,
`cancel_pending`, `clear`.  Every caller finds the head by an id it was given
earlier, so what is hard is a late or repeated id.  The ledger has a mutex of its
own: `enqueue` holds both, `clear` empties the queue under the first and then the
ledger under the second.  Correct means: only the head is ever out for delivery,
an old id changes nothing, order is kept, every accepted message is in one place,
a batch that is out does not change, a retry is not queued twice.

**Session coordinator.**  One record per session behind one mutex: the helper
*incarnation*, the *query generation* inside it, the negotiated adapter, the
active command with its phase, and the lanes.  About forty methods, called
from any thread, each of which first decides whether its caller is out of date.
What is hard: receipts out of order, from an earlier helper or query; a helper
that retires while something waits for it; wakeups, which exist only as an
advanced `state_revision`.  Correct means: one owner of the foreground at a
time, doubt when its helper is gone, inert stale receipts, a poisoned session
that stays so, one request on the wire, a permission change that blocks prompts
until it is known to be done or known not to be.

**Prompt delivery of the runtime.**  Threads of a blocking pool run
`dispatch_queued_with`: pass the readiness gate, claim the head, find or start
a helper, admit, write, and then judge what happened.  One thread per helper
reads its lines and applies each to the coordinator, then to the queue, and
schedules a drain if that opened the way.  Process exit, the admission
deadline, cancel and Stop interleave with all of it.  No lock covers a whole
delivery, so what is hard is everything between two locks.  Correct means what
`PromptDelivery` says, and that no prompt is stranded.

**Helper, Claude side.**  Reserves an admission, waits for initialization and
hooks, hands the prompt to the SDK, reports its lifecycle; `interrupt_turn`
names its target and may come before, between or after.  Correct means: it and
the host agree on who owns the foreground.

**Steering.**  A queued prompt can be put into the running turn: a thread claims
the head, sends `steer_turn`, waits for a receipt.  The coordinator's steer lane
is modelled, the thread and the helper's `claudeSteering.ts` are not yet.

**Terminal handoff.**  A managed session continues in an external terminal: the
helper is asked to prepare, frozen, stopped, and the record committed; a session
without a conversation id waits as `handoff_pending` until its helper reports
one.  `reconnect_lock` is dropped in every wait for the helper, so the helper's
lines, its exit, a Stop and other requests come in between; what protects the
operation is a *reservation* it validates after each wait.  Correct means: one
writer per conversation, no reservation without somebody to give it up, a
session that can be used again after a failed handoff.

**Native event log.**  Records wait in a vector; whoever reads the log flushes it
first, taking the records under one lock and writing them under another, and
puts them back if the write failed.  Readers page through the rows up to a
snapshot; a new helper's store starts behind the newest row, or at 1 if that
could not be read (`prepare_reconnect_handle_locked` takes an error of `newest_seq`
for a log without rows).  A row is keyed by its number and `INSERT OR IGNORE` drops
a second record with it.  Correct means: no record disappears, no number is given
twice, a reader that is told it has everything has it, the folded summary of open
questions agrees with the rows.

**Scheduled tasks.**  Several instances of the application share the task list and
the run history.  A runner holds a lease the operating system frees with it; a
sweep by any instance closes runs whose lease is free; the result is stored, and
goes to a chat if the task has a subscription whose route is still there.  An edit
of a task, in a window, by the Telegram bridge, by the command line or in another
instance, reads the whole task list and later writes all of it back, with no lock.
Correct means: no run stays
`running` with nobody behind it, no busy run is closed, a stored outcome does not
change, a result is neither lost nor sent under a grant it was not started with.

**Hermes bridge.**  A paired chat account may give a session input after a
confirmation and is told how it went.  The database is the only memory: inputs,
challenges, operations, deliveries, cursors over the session's events, decisions.
Messages of the chat come again, hosts are replaced, grants change, the
application ends between any two steps.  Correct means: an input is submitted and
a delivery sent at most once, a short reply confirms what its author saw, every
end of an input is queued, every event judged once.

**Web content recovery.**  The window's document may die.  A policy of
generations decides which document may still act, reloads within a budget, and
hands the browser panels of one document to the next.  Correct means: whoever
waits for a reload is served, no live panel is forgotten, no closed panel comes
back.

**Browser activation, event dispatcher, model router, login browser, browser
panels, bot bindings, title stores, instance lock.**  Each has a small protocol
of its own (restart, control fences, revisions under a file lock).  Not modelled;
the plan below says which come next.

**The rest** is configuration, formatting, parsing, translation of requests,
installation, terminals and the React front end: sequential code or plain
input and output, listed in `PROJECT.json` with the reason it is left out.

How they interact: a sender calls the queue, then dispatches on its own thread. A
dispatcher calls queue, coordinator and the helper's stdin in turn.  The reader
thread calls coordinator, then queue, then schedules a dispatcher. Nothing calls
back under a lock of the queue or of the coordinator; their methods are atomic,
all but the queue's `clear`, and the locks of the runtime are
`app_termination_lock` (one delivery attempt from its reconnect to the end of the
write, and Stop), `reconnect_lock` (one output line, a reconnect, process exit,
Stop) and the environment mutation lock (visible user actions).

## Modules

| module | models |
|---|---|
| `InputQueueOps` | `native_input_queue.rs` as functions from queue to queue |
| `NativeInputQueue` | the queue alone under arbitrary callers, with history |
| `SessionCoordination` | the coordinator's methods as functions from record to record |
| `SessionCoordinator` | the coordinator alone: any method, any caller, any time |
| `ClaudeHelper` | the helper's foreground as functions from record to record |
| `NativeSession` | one session end to end: queue, coordinator, helper and the threads between them |
| `PromptDelivery` | the promise: submit, deliver the oldest that wait, each once, withdraw |
| `TerminalHandoff` | `terminal_handoff.rs` and what of `native_runtime.rs` it meets |
| `EventLog` | `native_event_log.rs` and the attention summary |
| `CronRuns` | runs, leases, sweep and result notifications of one scheduled task |
| `HermesOutbox` | the bridge's table of deliveries as functions; used by the next and by `CronRuns` |
| `HermesBridge` | the bridge's ledger, its requests, its polling thread |
| `WebContentRecovery` | recovery policy, documents, panels |
| `MC...` | instances for TLC; `MCDesktop` and `MCStores` put independent parts side by side |
| `InputQueueLemmas` | what the functions of `InputQueueOps` return, proved |
| `NativeInputQueue_proofs`, `SessionCoordinator_proofs`, `NativeSession_proofs`, `TerminalHandoff_proofs`, `WebContentRecovery_proofs`, `HermesBridge_proofs` | theorems about the module each is named after |
| `Stores_proofs` | theorems about `EventLog` and `CronRuns` |

The queue and the coordinator are written as functions because the code is: each
method runs under one mutex (`clear` takes two in turn, and is two actions).  The
stand-alone modules let any caller call anything the program could call, which is
more than the program does and less dependent on it; the composition then takes
the same functions and the callers the program has.

### How the model corresponds to the code

*Queue.*  A batch is `[msgs, fence, state, attempt, cmd]`: the ids of the merged
messages, `merge_fence`, `DispatchState`, `attempt`, `provider_command_id`.  Wire
ids are drawn in increasing order; the code draws UUIDs, so only the fact that
they are new is used.  The text, the images and the fingerprint of a message are
left out.  `clear` is `ClearQueue` and, any time later, `ClearLedger`; `clearing`
counts the clears in between, of which there may be several.  `order`, `accepted`,
`admitted`, `withdrawn` and `forgotten` are history: when a message was last
accepted, which left and how, and which lost their ledger entry while they were
queued.  A message that is accepted again, after its entry is gone, starts its
account anew.

*Coordinator.*  Fields keep their meaning, 0 is `None`.  `state_revision` counts
without bound and is only ever compared with a value read earlier; the field
`quiet` holds the observers whose reading is still the newest, so a bump empties
it.  `protocol_error` and `failed_foreground_adjudicated` keep one bit each.
`scope` names which prompts, requests and helpers a behaviour has.

*Threads.*  A dispatcher has a program counter whose values name the gaps
between two lock acquisitions of `dispatch_queued_with` and
`send_user_message_admitted`:

| action | code |
|---|---|
| `Send`, `StartDispatch`, `Gate` | `send_user_message_with_dispatch`, `schedule_queued_dispatch`, the gate of `maybe_dispatch_queued` |
| `ClaimNext`, `NothingToClaim`, `Observe` | `claim_head`, the projection read before the delivery |
| `UseHandle`, `Reconnect`, `ReconnectFails` | `ensure_handle` and the launch of a helper |
| `AdmitPrompt`, `Written`, `WriteUnknown`, `NotStarted`, `MarkDelivery`, `Undo` | `admit_with_id` and the three outcomes of the write |
| `ArmDeadline`, `Peek`, `AfterWrite` | what follows a completed write |
| `GiveBack`, `Judge`, `Park`, `Release`, `Recheck` | what follows an error |

The reader of the helper's output takes a line in two steps (`PumpTake` is the
coordinator's half, `PumpFinish` the queue's, the record's and the drain), and
process exit likewise (`ExitBegin`, `ExitEnd`).  Stop is `StopClick`, which
reads the target the user sees, and later exactly one of its outcomes; the
abandonment of a command in doubt takes two steps, because the queue entry is
removed after the command was abandoned.  A deadline marks the command
(`Expire`) and later the batch (`ExpireQueued`).

*Handoff.*  `op` is the operation that holds `app_termination_lock`, so there is
one; its `pc` names the stretch under `reconnect_lock` it is about to run
(`prepare`, `await`, `check`, `open`, `complete`, `shutdown`, `waitExit`,
`conclude`, `settle`, `cleanup`, `rollback`).  `ses` is record, handle, process
and reservation; `workers` are the deferred finishes that were started but have
not run.  The helper reads its pipe in order (`HelperReads`), the pump reads the
helper's in order (`PumpLine`, `PumpExit`).  The record copy inside a handle is
the record, a retired handle's process is killed with it.

*Event log.*  A flush is `TakeWaiting`, then `WriteRecords` or `RestoreRecords`;
whoever flushes goes on to read (`ReadRows`), to append, or, on a reconnect, to
start the new store (`StoreStarts`).  A reconnect whose flush fails (`RestoreRecords`)
or whose query fails (`StoreStarts`) starts it at 1.  A record is a number, a kind
and the generation of the store it was appended to, so that two records with one
number are two; `store.blind` (history) says that a store did not start behind
everything appended, because it started at 1 after an error or because a reader had
records in its hands that were no rows yet.  How many rows fit a page is open.

*Scheduled tasks.*  A runner's `pc` names the persisted step that comes next.  A
change of the history is one action (the code's mutation lock); the task list is
read without it.  A lease is `none`, `held` or `free`.  Every write may fail.  An
edit of the task list is two actions: `UpdateTask`, `ToggleTask`, `DeleteTask` or
`EditOtherTask` reads it and remembers what the task becomes, `WriteTask` writes
that back whatever has happened in between; `DeleteTask` of a window goes on to
`RemoveHistory`.  `edits` holds those that have not ended, one of each `Editors`: a
window and a Telegram bridge of each instance, and the command line.  `ended`
(history) are the grants a write has withdrawn, and stays when a later write revives
one; `routes` are the targets that have not gone (`RouteGoes`).  Result and delivery
check subscription and route (`Result`, `InForce`).

*Hermes.*  `ledger` is the database, one action one transaction; `rpc` is the
operation that a chat request is about to submit under the lifecycle lock; `poll`
is the polling thread with the page, delivery or decision in its hands.  Message
ids are small numbers, so that a redelivery is the same message once more; the
key of a journal entry is the tuple the code hashes.

*Web content.*  `policy` is `RecoveryPolicy`; `page` is the document as its own
script (`webcontentRecovery.ts`) sees itself; `calls` are commands sent and not
handled, in any order, also after their document is gone; `writer` and `readers`
hold the document gate.

### What the models abstract

The composition of a session:

- The session is a resumed one: its provider session id is known, so a helper
  that exits leaves it `interrupted`.
- One SDK query per helper, so the query generation is constant in the
  composition; the coordinator alone has two.
- A status line that always follows another line is part of that line.
- A scheduled dispatch passes the gate in the step that starts it (before it,
  it only waits in the pool), and the gate's reads are one step.
- A deadline is only kept while it can still do something; `Recheck` reads and
  bumps in one step; the two coordinator calls of `Undo` are one step, since
  nothing but the exit of the helper, which commutes with them, comes between.
- An interrupt whose own write has an unknown outcome, and attachments that
  cannot be decoded, are left out.
- The helper withdraws or ends a turn for an interrupt in one step.
- The environment mutation lock is `NoVisibleDispatch`: a send, the flush of
  a user command and the flush after a Stop hold it, a drain does not.
- Settings, permission changes, steering, query death, a failed
  initialization, handoff and background tasks are not in the composition.

Prompt queue: seen in the code, and in the model: a message enqueued between the two
mutexes of `clear` (`native_input_queue.rs:812`) stays queued and loses its ledger
entry, so that a retry of it is queued a second time, although the refusal at 275 is
"client_message_id is already queued for this runtime".  Both places that clear (a
failed initialization, a removed record) run beside senders.  `QueuedOnce` says that
it happens only so, and `EachMessageAccounted` that nothing else goes wrong with the
message.

Hermes: one account, one route, one session; the permission of the workspace is
always given; the rule that silences generic notices of a turn is left out; the
stages of a polling cycle come in any order; `completed` stands for `failed` as
well; the limit of 256 remembered previews is left out; a page may have any
length.

Scheduled tasks: one task, whose targets are on one account, and of its other
fields only whether it is enabled; a route that goes does not come back under its
old generation; records without a lease flag, from older versions, are left out.
Each editor has one edit at a time.  Seen in the code while modelling, and outside
the properties: a run drained by `MAX_RUNS_PER_TASK` while it runs is never
reported; what another thread writes into a run between the last read and
`*r = finished_run` is lost; a task may fire again after a restart within the
minute (`FireDue` does, and no property forbids it).

Event log: compaction of deltas and the size of records are left out, and so is
`expire_interactive_attention`: it can miss a question that is in the hands of a
flush, and while no helper is there (a restart, the beginning of a reconnect) it
appends under the number behind the newest row, as a store does.  The account of
the records is therefore one of what stores append.  Seen in the code, and in the
model: an error of `newest_seq` counts as an empty log (`native_runtime.rs:7722`),
so the store of a reconnect starts at 1; its records repeat numbers and their rows
are dropped (`INSERT OR IGNORE`), and a full replay of it passes for one that has
everything from the beginning, which `event_bus.rs:628` says reconnected stores do
not.  A reader that holds a batch at a reconnect has the same effect on its numbers.
`AppendedIsAccountedFor` says that a record is dropped only so.

Handoff: one session; opening a terminal succeeds or fails; the permission to
end background tasks is the flag `force`.

Web content: one window; a reload, a page start and a termination notice happen
at any time; the contents of a saved workspace are its panels.

## Runs

| run | instance | what it shows |
|---|---|---|
| `coordinator` | 5 scopes over 2 helpers: 2 prompts and 2 query generations; 2 settings requests and a permission change; one of each with a reply; 2 steers into 2 prompts; 1 steer across 2 generations with and without the capability | ownership, doubt, announced wakeups, inert old queries, the request lanes under late, repeated and unknown answers, a steer decided by its own receipt |
| `prompts` | 2 messages and a Stop; an initial prompt and a message, crash, Stop; an initial prompt, crash, Stop, deadline; 1 message, crash, Stop, deadline, failed reconnect; 1 message, crash, deadline, a write of unknown outcome, failed reconnect, no Stop | no lost wakeup, agreement on the foreground, `PromptDelivery`: nothing dropped, nothing sent twice, a claimed head has an owner |
| `prompt_answered` | an initial prompt, 1 message, 1 Stop, no fault | every prompt is eventually delivered or withdrawn |
| `desktop` | queue: 3 messages, 2 fences, 3 claims, 1 clear in two steps; handoff: 2 helpers, 2 handoffs, 1 prompt, 1 death; web content: 3 documents in 3 generations, or 2 documents with 2 panels each | the queue's invariants for callers of any kind; one writer and owned reservations; served reloads and kept panels |
| `stores` | Hermes: 8 small chats; tasks: 1 run over 2 instances with a death, a failure and an edit, or 2 runs and a kept record, or 1 run with a failure and 2 edits that overlap (an edit may be a route that goes); log: 3 or 4 events, 2 readers, a failure, a restart or a reconnect with a failure | the promises of the three stores, under late write-backs of the task list, routes that go, and reconnects that do not know the newest number |
| `replay_race`, `stop_refused`, `lost_wakeup`, `handoff_stranded`, `stale_document`, `attention_order`, `revived_grant` | see below | seven places where code and comment disagree |

`desktop` and `stores` each put three parts side by side that share no state in
the code.  A behaviour runs one of them (`part`) and leaves the others in the
first of their instances, so the run explores the sum of the parts, not their
product.  Likewise `scope`, `left` and `limit` choose in the initial state which
instance a behaviour belongs to, and never change it for another.

*Bounds.*  Every bound is a constant of the model and a guard of one action.
Two dispatchers are enough for a claim and a rival; a third would only wait,
because at most one thread holds the claim on the head and one the termination
lock.  Two messages give a head that is out and a successor that wants to merge
or to be next; three messages, three claims and one clear in the queue alone give
a batch of two, a batch behind it, and a receipt that is two attempts late; the one
clear has every operation between its two halves, and a message queued twice after
it.  Two edits are the smallest number of which one is written late, and a third
editor would only write later still; one failure at a reconnect gives out every
number there is a second time.  Two
helpers, and two generations of a query, are the smallest number for which
something can be stale; a third stale one is told from the second by the same
comparison.  One crash, one Stop, one deadline at *any* point of the schedule
reaches each gap between two locks; the same holds for the one death of the
handoff and of the scheduled tasks, and for the one failed write of the log.  Two
handoffs give one that waits and one that comes in between.  Three documents are
the smallest number for which a command of the first can meet the policy of the
third; two panels are enough for a save that drops one while the other opens.
Two generations, grants, hosts of the bridge make one stale; two confirmations or
replies of one challenge are a duplicate.  Faults are spread over several
instances because all of them at once exceed what a run can explore; what is not
covered is the combination of several faults of the same kind.

*Deadlock* is not checked: a session in which nobody sends is a legal end, and
the budgets of the models run out.  That threads do not wait for each other
forever is what `NoStrandedHead` (no prompt left when all is quiet) and
`EveryPromptIsAnswered` say.

*Symmetry* is used for the dispatchers and for the queue's messages, with
invariants and step properties only; the liveness run has none.

### Fairness

`FairSpec` asks for weak fairness of each dispatcher, of the output reader, of a
Stop that was clicked, of the helper's five steps and of the second half of a
deadline.  The code justifies it: dispatchers and Stop run on the blocking pool
and their steps are separated by mutexes and by file and pipe operations that return; the
reader loops until the pipe closes; the helper's steps are callbacks of one
event loop and the SDK, which is assumed to finish a turn.  Nobody has to send,
to cancel, to stop or to fail.  Weak fairness is enough for a thread that
waits for `app_termination_lock`, because in the instances checked the lock
cannot be taken by others forever (messages and Stops are finite).
`EveryPromptIsAnswered` is checked without
faults: after a write of unknown outcome or a crash the code deliberately leaves
the prompt in doubt until the user decides, so it would not hold, and is not
promised.

### Findings

1. **A Stop between the error of an uncertain write and the dispatcher's
   judgement replays the prompt** (`replay_race`, `NeverReplayed`).
   `dispatch_queued_with` decides what to do with the head by reading the
   projection *again* (`native_runtime.rs:3858`).  A Stop may have abandoned the
   command in between; the head is then released, not parked, and is sent to the
   next helper although the first one may have taken it.  The comment at
   3885 says that uncertain writes must never replay.
2. **A refused admission revives a retired helper generation** (`stop_refused`,
   `RetiredIsAbandonable`).  `admit_with_id` adopts the caller's incarnation
   when there is none, before it can refuse.  A dispatcher that checked its
   handle just before the helper exited thereby undoes the retirement, and the
   Stop that `lib.rs:2037` promises is refused until something reconnects.
3. **A wakeup can be lost after a write of unknown outcome** (`lost_wakeup`,
   `WakeupIsConsumed`).  The recheck after a release looks only at two of the
   errors; a prompt refused as `DELIVERY_UNCERTAIN` whose blocker has been
   released meanwhile stays queued behind an idle helper until the next event.
4. **A Stop strands a pending handoff** (`handoff_stranded`,
   `PendingHandoffCanEnd`).  A Stop of a command in doubt retires the helper
   itself (`native_runtime.rs:6675`); the reservation goes, as
   `terminal_handoff.rs:211` asks, but the status `handoff_pending` stays and
   refuses prompts, reconnects and further handoffs.
5. **A page may boot with the ticket of its successor** (`stale_document`,
   `RegisteredIsShown`).  `webcontent_frontend_boot` is to capture the generation
   "before dispatch" (`webcontent_recovery.rs:1058`), but captures it when the
   asynchronous command first runs.  If the next page has started by then, the
   old document is registered and the page that is shown is refused.
6. **Two flushes may overtake each other** (`attention_order`,
   `AttentionMatchesEvents`).  A batch is taken under one lock and written under
   another; the summary is folded in the order of the writes.  A question written
   after its answer stays open, although `workspace_decorations.rs:326` says that
   folding is equivalent to reading the events in order.
7. **A late edit revives a withdrawn grant** (`revived_grant`,
   `WithdrawnStaysWithdrawn`).  An edit that read the task list before a subscription
   was cleared writes it back afterwards (`cron.rs:1708`).  The old id is in force
   again, and results of that grant are sent, although
   `cron/hermes_notifications.rs:36` says that notifications of an earlier grant must
   not be revived.

The traces are the counterexamples TLC prints for these runs.  The promises hold
in the passing runs that leave one ingredient out: delivery is at most once when
no write has an unknown outcome, and also when one has but nobody presses Stop; no
wakeup is lost there either (all in `prompts`).

## Proofs

`NativeInputQueue_proofs` proves, for every set of messages and fences and every
bound:

| theorem | says |
|---|---|
| `Invariant` | `Spec => []IInv` |
| `TypeCorrect` | `Spec => []TypeOK` |
| `HeadOnly` | only the head is ever out for delivery |
| `NewestId` | a batch that is out carries the newest wire id |
| `Accounted` | every accepted message is queued, admitted or withdrawn, and one of them only unless a clear forgot it while it was queued |
| `ClaimedFrozen` | a batch that is out does not change |
| `RetriesAreRefused` | no message is queued twice unless a clear forgot it while it was queued |
| `InOrder` | the queue holds messages in the order they were last accepted |

The inductive invariant is

    IInv == TypeOK /\ OnlyHeadIsOut /\ ClaimCarriesNewestId /\ EachMessageAccounted
            /\ LedgerKnowsQueued /\ QueuedOnce

None of its parts is inductive alone.  The receipts look only at the head, while
`mark_claim_delivery_uncertain` looks at every batch: that it changes no batch
behind the head needs `OnlyHeadIsOut` (they are all `Pending`), and that the
drawn id is the newest needs the head to be the only batch with an id.  The
account needs both, since a receipt removes the whole head: every message of it
was queued, and no other batch is touched.  That a message which left the queue is
not still in it needs more, because of the two halves of `clear`: what is queued is
in the ledger or was forgotten (`LedgerKnowsQueued`), so what `enqueue` accepts
while it is queued was forgotten, and what is queued twice was too
(`QueuedOnce`).  The argument groups the operations by what they do to the
queue: keep it or settle its head (`KeepStep`), drop the head (`DropStep`), and one
lemma each for enqueue, claim, cancel and the two halves of a clear.
`InputQueueLemmas` states what each queue function returns, for any sequence of
batches, and is where the reasoning about sequences lives.  `InOrder` is about the
order of the queue, not of the receipts; it adds that every number given is at most
`accepted` (`NumbersAreGiven`), so that the message enqueued last is behind the
others, and an earlier copy of it is not compared.

Six modules of proofs do the same for the coordinator, the composed session and the
parts around the core, each for every value of its bounds:

| module | theorem | says |
|---|---|---|
| `SessionCoordinator_proofs` | `Invariance` | `Spec => []CoordInv` |
| | `DoubtHolds`, `OneOnTheWire`, `NoVainWait` | `[]DoubtOnRetirement`, `[]OneRequestOnTheWire`, `[]NoWaitForRetiredHelper` |
| | `ForegroundIsExclusive`, `BlockersAreAnnounced`, `OldQueriesAreInert` | `OwnershipIsExclusive`, `ClearedBlockerIsAnnounced`, `OldQueryIsInert` |
| | `DoubtIsKept`, `BarrierHolds`, `SteersAreDecidedOnce` | `DoubtSurvivesLateAck`, `PermissionBarrier`, `SteerIsDecidedOnce` |
| `NativeSession_proofs` | `Invariance` | `Spec => []Inv` |
| | `EveryPromptIsKept` | `[]NothingLost` |
| | `ClaimsHaveOwners` | `[]ClaimIsOwned` |
| | `HostKnowsForeground`, `NoPromptIsRefused` | `[]ForegroundAgrees`, `[]PromptFindsHelperFree` |
| | `PromiseIsKept` | `Spec => []Promise`, if no write ends unknown |
| | `DeliveryIsImplemented` | `Spec => ImplementsDelivery`, if no write ends unknown |
| | `NoReplay` | `[]NeverReplayed`, if no write ends unknown |
| `TerminalHandoff_proofs` | `HandoffInvariant` | `HandoffSpec => []HandoffInv` |
| | `ConversationHasOneWriter` | `[]OneWriter` |
| | `ReservationHasOwner` | `[]ReservationIsOwned` |
| `Stores_proofs` | `LogInvariant` | `LogSpec => []LogInv` |
| | `NumbersAreGivenOnce` | no number is given twice while no store started blind |
| | `NoRecordIsLost` | `[]AppendedIsAccountedFor` |
| | `PagesComplete` | `[]BackfillIsComplete` |
| | `CronInvariant` | `CronSpec => []CronInv` |
| | `OrphansCanBeClosed` | `[]OrphanIsRecoverable` |
| | `OutcomesStand` | `[]ReportedOutcomeStands` |
| | `ResultsAreKept` | `[]NoResultIsLost` |
| | `GrantsAreKept` | `[]ResultsKeepTheirGrant` |
| `WebContentRecovery_proofs` | `WebInvariant` | `WebSpec => []WebInv` |
| | `WindowIsServed` | `[]WaitingIsServed` |
| | `LivePanelsAreSaved` | `[]PanelsAreSaved` |
| | `ClosedPanelsStayClosed` | `[]ClosedStaysClosed` |
| `HermesBridge_proofs` | `BridgeInvariant` | `BridgeSpec => []BridgeInv` |
| | `InputsAreSubmittedOnce` | `[]SubmittedOnce` |
| | `DeliveriesAreSentOnce` | `[]SentOnce` |
| | `LedgerInvariant` | `[](BridgeInv /\ LedgerInv)` |
| | `EndsAreOfOneInvocation`, `RepliesConfirmOne` | `[]EndedMeansOneInvocation`, `[]ReplyConfirmsOne` |
| | `EndsAreTold`, `GrantsAreCovered` | `[]OutcomesAreQueued`, `[]DecisionsCoverEvents` |

*Coordinator.*  The methods are functions from record to record, so the reasoning
is about one record.  `RecordOK` says that an active command of a helper that is
not the current one is in doubt, that a request waits only for the current
helper, and that two requests are never on the wire; `Method` says that a method
keeps it and takes a `ForegroundStep` (the foreground is empty between two
owners, what opens the way for the queue empties `quiet`, generations do not go
back) and a `LaneStep` (a request in doubt is not believed applied, a steer
keeps its decision).  There is one lemma per method.  `CoordInv` adds what the
actions know and the record does not: a receipt comes from the helper that is
installed, and the request in a lane has been asked for, so a fresh id is in no
lane.  The action properties follow from the steps, the invariants from the record.

*Session.*  `NativeSession` is about threads that hold copies of what the queue,
the coordinator and the helper said at different times; its invariant `Inv` says
how old such a copy may be.  Dispatchers in flight carry different commands, each
greater than the initial one (`DispInv`), and one that needs the termination lock
has it (`LockInv`); a command that has not been written is named by neither helper
nor pump (`FreshInv`), so whatever the helper reports of it comes after the write.
`FgInv` gives the two agreements of host and helper: what the helper runs, reserves
or has in its pipe is the coordinator's active command, because it is admitted
before the write (`PhaseInv`) and released only when the helper has ended it or is
gone.  `ClaimInv`, `PromptInv` and `TakenInv` say that a claimed head is the batch
its thread carries, the batch the helper was given, and that a host which believes it
delivered is right; so removing the head after a receipt loses nothing, which is
`NothingLost`.  `OwnedInv` is `ClaimIsOwned` with the line that the pump is working
on; its difficult step is a thread that finds its batch again by its first message
and has to see that the batch has been claimed anew (`AttemptInv`).  The helper's
actions are summed up in `Evolves`, which relates a helper to the next one by what
it may name, own and report; an action of the composition then says only which
prompts are new to it.

*Delivery.*  The composed session implements `PromptDelivery`: every step is one of
its steps or leaves sent, delivered and withdrawn alone.  The theorem supposes that
no scenario lets a write end with an unknown outcome (`s.unknown = 0`), as finding 1
shows it must: with one such write and a Stop a prompt is delivered twice.  It makes
no supposition about messages, dispatchers, crashes, reconnections that fail,
deadlines and Stops.  `Promise` is what `Inv` lacks for it.  A prompt that is on its
way to the SDK, in the pipe or reserved, is the head of the queue, was not delivered,
and is in the hands of no thread (`AwaitedInv`); so it is delivered whole and before
all that wait (`HeadIsOldest`, which takes from `NothingLost` that a waiting prompt is
in the queue, and from the queue's order that it is behind the head).  For this a
thread that has not written yet holds the head (`HeldInv`), which every way of taking
the head out must respect: Stop, which knows no command before its admission
(`StopInv`), and the helper's word that a command was abandoned, after which the
helper does not own it (`AbandonInv`).  What was delivered leaves the queue before
anything else can happen to it (`GivenInv`), hence is neither delivered again nor
withdrawn (`PastInv`).  The steps are sorted by what they do to the head: it stays, it
is freed, or it goes its way (`PromiseKept`).

*Handoff.*  What protects the conversation is the order of the helper's pipe:
`FenceInv` says that no prompt is behind a preparation that still counts, and
that the helper is idle once it has answered one (`Fenced`); so the terminal,
which is opened only after an answer, is alone (`TerminalInv`).  A new prompt
would break the fence, and is refused because a reservation is there from before
the preparation is written to after the helper's end; that is `OwnedInv`, which
also says whose the reservation is.  `Calm` is the relation between a helper
before and after a step that starts no turn, and is what most actions are.

*Event log.*  `LogInv` is about records: those in the rows, in the vector and in
the hands of a thread were appended, and each that was appended is in one of these
places, or another record with its number is a row (`RecordsOK`).  A thread has
records in its hands only while it writes them (`HandsAreEmpty`; otherwise the
first step of a flush would overwrite some), and the numbers have an upper bound
(otherwise "the newest row" might not exist and a helper's store could start
anywhere).  `NumbersOK` is why no number is given twice while no store started
blind: the next number is behind every record, except while the session is looking
for it; when it has flushed and nobody holds a record, every record is accounted
for by a row with its number, so the newest row is the newest record.
`NoRecordIsLost` puts the two together: the other row of `RecordsOK` would be
another record with the number, and there is none unless a store was blind.  What
an open view has been given has no gap up to its cursor (`ViewsHaveNoGap`), from
which the last page is complete.

*Web content.*  `ServedBy` is the first property for a policy and a set of
reload threads, so that the operations of the policy are reasoned about once
(`PolicyOperators`) and each action only says which threads it adds or ends.
`PanelsInv` explains the second: the document gate keeps savers and openers
apart, an acquire has put its panel into the workspace before it opens it, a save
has closed what it is about to forget.  Without the part about the gate, a save
could store a snapshot taken before a panel that another document opens.  `ClosedInv`,
for the third, says that every closed panel has its tombstone, which a save
checks; when the tombstones overflow no snapshot is stored any more.

*Hermes bridge.*  `BridgeInv` numbers operations and challenges 1, 2, ..., each
number for one of them, so that a new id is new; the operation in `rpc` has not
been submitted; every operation is named by its own challenge (`UsedUp`), so a
challenge that is confirmed again finds its operation; a delivery that waits has
not gone out, and neither has the one the polling thread holds in `send`, which is
reserved already.  The last part is why a restart, which takes the delivery out of
the thread's hands, leaves it `unknown` and not waiting.  `SameNumbers`,
`SavedOK` and `RevisedOK` carry the reasoning about tables whose rows change.
`LedgerInv` is about the two cursors over a session's events.  `GrantsInv`: what
the grant's cursor has passed is covered by its decisions, each event by one, and
the thread that is about to add a decision read its page when none was waiting.
`EventsInv`: an operation has seen every event of its own that the cursor of its
route, or the thread on its way there (`PageInv`), has passed, so that a second
invocation would have been noticed before the operation is called ended.
`ToldInv`: what the cursor has passed is in the outbox, because it moves in the
transaction that queues it.  `RepliesInv`: a reply has one journal entry, which
names the challenge that every operation confirmed by it came from.

*Scheduled tasks.*  The invariant is one of each run by itself (`RunOK`): its
runner, its record, its lease, and the outcomes somebody has read in order to
report them (`Said`).  A runner holds the lease from before its record exists to
its own end, which gives the first property; while it works nothing has been said,
and afterwards record, runner and what was said name one outcome, which gives the
second: the bridge may collect a result between the two writes of the outcome, and
a sweep can close a run only if no runner is left to write another.  An action is
about one run and leaves the others alone (`OneRun`, `Others`).  `SubsOK` is for
the third property.  It cannot say that a subscription which ended stays so, since
a late write-back revives one (finding 7). It says that whatever a run, a record,
the page in the poller's hands or the outbox was given was in force when it was
given and is in force still, or that its grant was withdrawn by some write since
(`Followed`, `ended`); an edit may put any earlier subscription back, but takes
the present one away only by writing that down.  So a copy of the task that does
not match was read after a withdrawal, and what is revoked is `Revocable`.  That
an id is never given to two grants gives the fourth: the grant a result is sent
under is that of its run.

*Assumptions.*  The proofs rest on the named assumptions about the constants and on
nothing else: `FencesAssumption`, `BoundsAssumption` (queue), `HandoffAssumption`
and `WebAssumption`, evaluated in the run `desktop`; `ScopesAssumption`, evaluated
in `coordinator`; `ThreadsAssumption`, evaluated in the runs of `MCNativeSession`;
`LogAssumption`, `BridgeAssumption` and `CronAssumption`, evaluated in `stores`.
They say that bounds are numbers, that "no fence" is a fence, that a bridge has a
route to begin with, and that the holders of the termination lock (a dispatcher, the
thread that stops, nobody) are told apart.

*Only model-checked*: `NoStrandedHead` of the composed session, that a head which
could go out has a thread or a wake-up on its way.  It does not hold in every
scenario: finding 3 is what a write of unknown outcome does to it.
An inductive invariant for it would have to account for every status line still
in flight and every wake-up still queued, for each helper generation; that has
not been written.

*Out of the prover's reach*: `EveryPromptIsAnswered`, which is liveness under
fairness and needs `ENABLED`; and what a definition by induction over data
computes for every input, such as the fold in `AttentionMatchesEvents`.

## Not modelled, and why

`PROJECT.json` names every component with its status.  Not modelled in the parts
taken up: `clear_session` of the coordinator (a whole session disappears), the
queue's unused `pop`, `remove` and `complete_dispatch`, the Codex side of the
helper (it has neither coordinator nor receipts), a restart of the application
with its managed sessions (queue and coordination live in memory and start
empty), the thread that steers a prompt (the coordinator's lane is), and the
settings and permission transactions of the runtime (their lanes are).

## Plan

1. **Composition.**  Steering: the thread that claims the head without the
   mutation lock, and `claudeSteering.ts` in the helper.  Settings and permission
   transactions with their reconciliation and the quarantine of a runtime whose
   permission change cannot be settled.  Query death with
   `delivery_uncertain`, failed initialization.
2. **Further components.**  The event dispatcher's subscribers, the surface
   coordinator of the browser panels, bot bindings and title revisions under a
   file lock, the router's sessions, the login browser's control fences.
3. **Refinement.**  An abstract append-only log that `EventLog` implements once
   its flushes keep their order.
4. **Proofs.**  `NoStrandedHead` when no write ends unknown: as long as the head could
   go out there is a wake-up that a dispatcher has yet to take, or a blocker that
   will announce itself when it clears.
