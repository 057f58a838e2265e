------------------------------ MODULE HermesBridge ------------------------------
(***************************************************************************)
(* The Hermes bridge (src/hermes_bridge): a paired chat account may watch a *)
(* managed session, give it input after a confirmation, and be told how it  *)
(* went.                                                                    *)
(*                                                                         *)
(* `ledger' is the database; one action is one transaction.  The lifecycle  *)
(* lock is held by a request of the chat host from its first line to the    *)
(* submission of the input it confirmed (`rpc'), by a change of the         *)
(* authorizations, and by the polling thread around each of its             *)
(* transactions, but not while that thread reads events, sends a message or *)
(* asks a model to judge.  The host restarts under a new token, the         *)
(* application restarts with nothing but the ledger, and the chat platform  *)
(* may deliver any message again, to any host.                              *)
(*                                                                         *)
(* One account, one pairing (`route'), one session.  The session grants     *)
(* (`binding') have the identity of a route of their own.                   *)
(***************************************************************************)
EXTENDS Naturals, Sequences, FiniteSets, HermesOutbox

CONSTANTS BridgeBounds  \* bounds: messages of the chat that are inputs, confirmations
                        \* and one-word replies, deliveries sent, challenges that
                        \* expire, generations of the route, grants, hosts, events of
                        \* the session, restarts
ASSUME BridgeAssumption ==
  BridgeBounds \subseteq [inputs : Nat, confirms : Nat, replies : Nat, sends : Nat,
                          expiries : Nat, generations : Nat \ {0}, grants : Nat, hosts : Nat,
                          events : Nat, restarts : Nat]

VARIABLES ledger,    \* the database
          host,      \* the process that serves the account, 0 for none
          rpc,       \* the operation a request is about to submit, 0 for none
          poll,      \* the polling thread
          presented, \* previews this process knows to be in the chat
          events,    \* the session's event log
          chat,      \* replies the hosts have received, previews they have shown
          used       \* how much of each bound is used, and the bounds
bridgeVars == <<ledger, host, rpc, poll, presented, events, chat, used>>

NoBinding == [id |-> 0, gen |-> 0, cursor |-> 0, seen |-> 0, start |-> 0]
Idle == [pc |-> "idle", gen |-> 0, notices |-> FALSE, binding |-> NoBinding,
         at |-> 0, upto |-> 0, delivery |-> <<>>, host |-> 0, receipt |-> "none",
         decision |-> <<>>]

BridgeInit ==
  /\ \E b \in BridgeBounds :
       /\ used = [limit |-> b, hosts |-> 1, restarts |-> 0, grants |-> 0, sends |-> 0,
                  expiries |-> 0]
       /\ ledger = [route |-> [gen |-> 1, enabled |-> TRUE, input |-> TRUE, notices |-> TRUE],
                    account |-> TRUE, binding |-> NoBinding, challenges |-> {},
                    journal |-> {}, operations |-> {}, outbox |-> {},
                    cursors |-> [g \in 1..b.generations |-> 0], decisions |-> {}]
  /\ host = 1 /\ rpc = 0 /\ poll = Idle /\ presented = {}
  /\ events = <<>> /\ chat = [replies |-> {}, shown |-> {}]

Unlocked == rpc = 0 /\ poll.pc # "observe"
Route == ledger.route

-----------------------------------------------------------------------------
(* The chat host's requests (handle_rpc).                                   *)

Admitted == Unlocked /\ host # 0 /\ ledger.account /\ Route.enabled

\* binding_for_route, and the identity under which input is accepted.
Bound == ledger.binding.id # 0 /\ ledger.binding.gen = Route.gen /\ Route.enabled
Owner == IF Bound THEN ledger.binding.id ELSE 0
AllowsInput(owner) == owner # 0 \/ Route.input

\* confirmation_route.
Reachable(c) ==
  /\ c.gen = Route.gen
  /\ c.owner \in {0, Owner}

Open(c) == c.state = "pending" /\ ~c.expired
PendingChatInputs ==
  {c \in ledger.challenges : Open(c) /\ c.gen = Route.gen /\ c.owner \in {0, Owner}}

Journaled(key) == \E j \in ledger.journal : j.key = key
Entry(key) == CHOOSE j \in ledger.journal : j.key = key
Journal(l, key, value) == [l EXCEPT !.journal = @ \cup {[key |-> key, value |-> value]}]

Preview(c) ==
  [id |-> <<"preview", c.id>>, gen |-> Route.gen, kind |-> "conversation", of |-> c.id,
   host |-> host, status |-> "pending", sends |-> 0]

SetChallenge(l, c, d) == [l EXCEPT !.challenges = (@ \ {c}) \cup {d}]

\* prepare, and enqueue_confirmation_preview for a request of the conversation;
\* a request that fails in between has still been prepared.
PrepareInput(m) ==
  LET key == <<"input", Owner, Route.gen, m>>
      fresh == [id |-> Cardinality(ledger.challenges) + 1, owner |-> Owner,
                gen |-> Route.gen, message |-> m, state |-> "pending",
                expired |-> FALSE, operation |-> 0]
      known == {c \in ledger.challenges : Journaled(key) /\ c.id = Entry(key).value}
  IN  /\ Admitted /\ AllowsInput(Owner)
      /\ \E c \in IF known # {} THEN known ELSE {fresh}, show \in BOOLEAN :
           LET prepared == IF known # {} THEN ledger
                           ELSE Journal([ledger EXCEPT !.challenges = @ \cup {c}], key, c.id)
           IN  ledger' = IF show
                         THEN [prepared EXCEPT !.outbox = QueuedDelivery(@, Preview(c))]
                         ELSE prepared
      /\ UNCHANGED <<host, rpc, poll, presented, events, chat, used>>

\* Mutant: the request is not looked up in the journal, nor the operation in the
\* challenge.
ConfirmedAgain(l, c, m, short) ==
  LET op == [id |-> Cardinality(l.operations) + 1, challenge |-> c.id, gen |-> c.gen,
             owner |-> c.owner, state |-> "submitting", invocation |-> 0,
             ambiguous |-> FALSE, submits |-> 0, short |-> short]
  IN  [l EXCEPT !.operations = @ \cup {op},
                !.challenges = (@ \ {c}) \cup
                  {[c EXCEPT !.state = "confirmed", !.operation = op.id]}]

\* Store::confirm: the ledger after it.  The operation is recorded, and the
\* challenge used up, in the transaction that remembers the message.
Confirmed(l, c, m, short) ==
  LET key == <<"confirm", c.owner, c.gen, m>>
      op == [id |-> Cardinality(l.operations) + 1, challenge |-> c.id, gen |-> c.gen,
             owner |-> c.owner, state |-> "submitting", invocation |-> 0,
             ambiguous |-> FALSE, submits |-> 0, short |-> short]
  IN  IF \E j \in l.journal : j.key = key THEN l
      ELSE IF c.message = m THEN l
      ELSE IF c.operation # 0 THEN Journal(l, key, c.id)
      ELSE IF ~Open(c) THEN l
      ELSE Journal([l EXCEPT !.operations = @ \cup {op},
                             !.challenges = (@ \ {c}) \cup
                               {[c EXCEPT !.state = "confirmed", !.operation = op.id]}],
                   key, c.id)

\* ... and the operation the request now submits, under the lock.
ConfirmIn(l, c, m, short) ==
  /\ AllowsInput(c.owner)
  /\ ledger' = Confirmed(l, c, m, short)
  /\ rpc' = IF ledger'.operations = l.operations THEN 0
            ELSE Cardinality(ledger'.operations)

ConfirmInput(m) ==
  /\ Admitted
  /\ \E c \in ledger.challenges : Reachable(c) /\ ConfirmIn(ledger, c, m, 0)
  /\ UNCHANGED <<host, poll, presented, events, chat, used>>

Cancelled(l, c) ==
  IF c.state # "pending" THEN l ELSE SetChallenge(l, c, [c EXCEPT !.state = "cancelled"])

CancelInput ==
  /\ Admitted
  /\ \E c \in ledger.challenges : Reachable(c) /\ ledger' = Cancelled(ledger, c)
  /\ UNCHANGED <<host, rpc, poll, presented, events, chat, used>>

\* send_user_message, and the end of the request; an error leaves it open whether
\* the session has the input.
SubmitOperation ==
  /\ rpc # 0 /\ rpc' = 0
  /\ \E o \in ledger.operations, given, ok \in BOOLEAN :
       /\ o.id = rpc /\ (ok => given)
       /\ ledger' = [ledger EXCEPT !.operations = (@ \ {o}) \cup
            {[o EXCEPT !.submits = @ + (IF given THEN 1 ELSE 0),
                       !.state = IF ok THEN @ ELSE "unknown"]}]
  /\ UNCHANGED <<host, poll, presented, events, chat, used>>

\* A one-word reply of the chat reaches this host, which stamps it.
ReceiveReply(m) ==
  /\ host # 0
  /\ ~\E r \in chat.replies : r.message = m /\ r.host = host
  /\ chat' = [chat EXCEPT !.replies = @ \cup
       {[message |-> m, host |-> host,
         seen |-> {s.challenge : s \in {s \in chat.shown : s.host = host}}]}]
  /\ UNCHANGED <<ledger, host, rpc, poll, presented, events, used>>

\* Mutant: a reply means what is in the chat when it is handled.
MeantNow(r) ==
  {c \in ledger.challenges :
     /\ Open(c) /\ Reachable(c)
     /\ \E p \in presented : p.challenge = c.id /\ p.host = host /\ p.gen = Route.gen}

\* The previews a reply can mean: shown by this host before the reply was stamped.
Meant(r) ==
  {c \in ledger.challenges :
     /\ Open(c) /\ Reachable(c) /\ c.id \in r.seen
     /\ \E p \in presented : p.challenge = c.id /\ p.host = host /\ p.gen = Route.gen}

\* select_confirmation: the one challenge a reply is about, {} to refuse.  The
\* first answer, also a refusal, is the answer to every redelivery.
Choice(r) ==
  LET key == <<"short", r.message>>
  IN  IF Journaled(key)
      THEN {c \in ledger.challenges :
              /\ c.id = Entry(key).value /\ Reachable(c)
              /\ c.state = "confirmed" \/ c \in Meant(r)}
      ELSE IF Cardinality(Meant(r)) = 1 /\ PendingChatInputs = Meant(r) THEN Meant(r)
      ELSE {}

Remembered(r) ==
  LET key == <<"short", r.message>>
  IN  IF Journaled(key) THEN ledger
      ELSE Journal(ledger, key, IF Choice(r) = {} THEN 0
                                ELSE (CHOOSE c \in Choice(r) : TRUE).id)

ShortReply(r) ==
  /\ Admitted /\ r.host = host
  /\ \/ ledger' = Remembered(r) /\ rpc' = 0
     \/ \E c \in Choice(r) : ConfirmIn(Remembered(r), c, r.message, r.message)
  /\ UNCHANGED <<host, poll, presented, events, chat, used>>

-----------------------------------------------------------------------------
(* Changes of the authorizations, and of the processes.                     *)

RevokedChallenges(l, owner) ==
  {IF c.owner = owner /\ c.state = "pending" THEN [c EXCEPT !.state = "revoked"] ELSE c :
     c \in l.challenges}

\* write_route_with_baselines.
Rerouted(l, enabled, input, notices, baseline) ==
  [l EXCEPT !.route = [gen |-> @.gen + 1, enabled |-> enabled, input |-> input,
                       notices |-> notices],
            !.challenges = RevokedChallenges(l, 0),
            !.cursors[l.route.gen + 1] = baseline]

MayReroute == Unlocked /\ Route.gen < used.limit.generations

ApproveRoute ==
  /\ MayReroute
  /\ \E input, notices \in BOOLEAN :
       ledger' = Rerouted(ledger, TRUE, input, notices, Len(events))
  /\ UNCHANGED <<host, rpc, poll, presented, events, chat, used>>

DisableRoute ==
  /\ MayReroute /\ Route.enabled
  /\ ledger' = Rerouted(ledger, FALSE, Route.input, Route.notices, 0)
  /\ UNCHANGED <<host, rpc, poll, presented, events, chat, used>>

\* save_connection with new credentials: revoke_account, and the host is replaced.
ReplaceCredentials ==
  /\ MayReroute /\ Route.enabled
  /\ ledger' = [Rerouted(ledger, FALSE, Route.input, Route.notices, 0)
                  EXCEPT !.outbox = Withdrawn(@, ledger.outbox)]
  /\ host' = 0
  /\ UNCHANGED <<rpc, poll, presented, events, chat, used>>

\* "stop" or the death of the process, when a replacement is still to come.
StopHost ==
  /\ Unlocked /\ host # 0 /\ host' = 0
  /\ used.hosts < used.limit.hosts
  /\ ledger' \in {ledger, [ledger EXCEPT !.account = FALSE]}
  /\ UNCHANGED <<rpc, poll, presented, events, chat, used>>

StartHost ==
  /\ Unlocked /\ used.hosts < used.limit.hosts
  /\ host' = used.hosts + 1 /\ used' = [used EXCEPT !.hosts = @ + 1]
  /\ ledger' = [ledger EXCEPT !.account = TRUE]
  /\ UNCHANGED <<rpc, poll, presented, events, chat>>

\* What a grant that ends takes with it, in one transaction.
Ended(l, id) ==
  IF id = 0 THEN l
  ELSE [l EXCEPT
          !.challenges = RevokedChallenges(l, id),
          !.decisions = {IF d.binding = id /\ d.state = "pending"
                         THEN [d EXCEPT !.state = "revoked"] ELSE d : d \in @},
          !.outbox = Withdrawn(@, {d \in @ : d.kind = "binding" /\ d.of = id})]

Greeting(b) ==
  [id |-> <<"handoff", b.id>>, gen |-> b.gen, kind |-> "binding", of |-> b.id,
   host |-> 0, status |-> "pending", sends |-> 0]

\* bindSession: the session's last event was read before the lock was taken.
BindSession ==
  /\ Unlocked /\ Route.enabled /\ ledger.account /\ host # 0
  /\ used.grants < used.limit.grants
  /\ used' = [used EXCEPT !.grants = @ + 1]
  /\ \E last \in 0..Len(events) :
       LET b == [id |-> used.grants + 1, gen |-> Route.gen, cursor |-> last,
                 seen |-> last, start |-> last]
       IN  ledger' = [Ended(ledger, ledger.binding.id) EXCEPT
                        !.binding = b, !.outbox = QueuedDelivery(@, Greeting(b))]
  /\ UNCHANGED <<host, rpc, poll, presented, events, chat>>

DetachSession ==
  /\ Unlocked /\ ledger.binding.id # 0
  /\ ledger' = [Ended(ledger, ledger.binding.id) EXCEPT !.binding = NoBinding]
  /\ UNCHANGED <<host, rpc, poll, presented, events, chat, used>>

ChallengeExpires ==
  /\ used.expiries < used.limit.expiries
  /\ used' = [used EXCEPT !.expiries = @ + 1]
  /\ \E c \in ledger.challenges :
       Open(c) /\ ledger' = SetChallenge(ledger, c, [c EXCEPT !.expired = TRUE])
  /\ UNCHANGED <<host, rpc, poll, presented, events, chat>>

\* The application ends at any point and opens its store again.
RestartBridge ==
  /\ used.restarts < used.limit.restarts /\ used.hosts < used.limit.hosts
  /\ used' = [used EXCEPT !.restarts = @ + 1, !.hosts = @ + 1]
  /\ ledger' = [ledger EXCEPT
       !.operations = {IF o.state \in {"submitting", "running"}
                       THEN [o EXCEPT !.state = "unknown"] ELSE o : o \in @},
       !.outbox = ReopenedOutbox(@)]
  /\ host' = IF ledger.account THEN used.hosts + 1 ELSE 0
  /\ rpc' = 0 /\ poll' = Idle /\ presented' = {}
  /\ UNCHANGED <<events, chat>>

-----------------------------------------------------------------------------
(* The session.                                                            *)

\* An input of the session starts, perhaps in a second invocation, and ends: one the
\* bridge has submitted, or one of somebody else (0).  "completed" stands for
\* "failed" too.
SessionReports ==
  /\ Len(events) < used.limit.events
  /\ \E id \in {0} \cup {o.id : o \in {o \in ledger.operations : o.submits > 0}},
        inv \in 1..2, stage \in {"started", "completed", "unknown"} :
       LET past == {events[i].stage : i \in {i \in DOMAIN events :
                      events[i].operation = id /\ events[i].inv = inv}}
       IN  /\ past = IF stage = "started" THEN {} ELSE {"started"}
           /\ events' = Append(events, [operation |-> id, inv |-> inv, stage |-> stage])
  /\ UNCHANGED <<ledger, host, rpc, poll, presented, chat, used>>

-----------------------------------------------------------------------------
(* The polling thread (poll.rs, session_handoff.rs).  The order of its      *)
(* stages within one cycle is left open.                                    *)

AtPoll(pc) == poll.pc = pc /\ UNCHANGED <<host, rpc, events>>
Polled(pc) == poll' = [poll EXCEPT !.pc = pc]

\* replay_event_page, without a lock: some page after the cursor of the route.
ReadPage ==
  /\ AtPoll("idle") /\ ledger.account /\ Route.enabled
  /\ \E upto \in (ledger.cursors[Route.gen] + 1)..Len(events) :
       poll' = [Idle EXCEPT !.pc = "page", !.gen = Route.gen, !.notices = Route.notices,
                            !.at = ledger.cursors[Route.gen], !.upto = upto]
  /\ UNCHANGED <<ledger, presented, chat, used>>

\* collect_session_operations: the same for the cursor of the grant.
ReadGrantPage ==
  /\ AtPoll("idle") /\ ledger.account /\ Bound
  /\ \E upto \in (ledger.binding.seen + 1)..Len(events) :
       poll' = [Idle EXCEPT !.pc = "page", !.binding = ledger.binding,
                            !.at = ledger.binding.seen, !.upto = upto]
  /\ UNCHANGED <<ledger, presented, chat, used>>

OfRoute == poll.binding = NoBinding

\* The lock is taken and the authority of the page looked at again.
BeginPage ==
  /\ AtPoll("page") /\ Unlocked
  /\ IF /\ ledger.account
        /\ IF OfRoute THEN Route.enabled /\ Route.gen = poll.gen
           ELSE Bound /\ ledger.binding.id = poll.binding.id
     THEN Polled("observe") ELSE poll' = Idle
  /\ UNCHANGED <<ledger, presented, chat, used>>

\* Mutant: an operation that has ended is left alone.
ObservedOnce(o, e) ==
  IF o.state = "completed" THEN o
  ELSE [o EXCEPT !.invocation = e.inv,
                 !.state = IF e.stage = "started" THEN "running" ELSE e.stage]

\* observe_operation.
Observed(o, e) ==
  IF o.ambiguous \/ o.invocation \notin {0, e.inv}
  THEN [o EXCEPT !.ambiguous = TRUE, !.state = "unknown"]
  ELSE IF o.state = "completed" THEN o
  ELSE [o EXCEPT !.invocation = e.inv,
                 !.state = IF e.stage = "started" THEN "running" ELSE e.stage]

\* Each event is a transaction of its own, before the one that moves the cursor.
ObserveEvent ==
  /\ AtPoll("observe") /\ poll.at < poll.upto
  /\ LET e == events[poll.at + 1]
     IN  ledger' = [ledger EXCEPT !.operations =
                      {IF o.id = e.operation THEN Observed(o, e) ELSE o : o \in @}]
  /\ poll' = [poll EXCEPT !.at = @ + 1]
  /\ UNCHANGED <<presented, chat, used>>

\* What a page has to tell the chat: the inputs that ended.  The id of an input the
\* route owns names the way it ended.
Outcome(e) ==
  LET owned == \E o \in ledger.operations :
                 o.id = e.operation /\ o.owner = 0 /\ o.gen = Route.gen
  IN  [id |-> <<"outcome", Route.gen, e.operation, e.inv,
                IF owned THEN e.stage ELSE "terminal">>,
       gen |-> Route.gen, kind |-> "route", of |-> e.operation, host |-> 0,
       status |-> "pending", sends |-> 0]

Outcomes(from, upto) ==
  {Outcome(events[i]) : i \in {i \in (from + 1)..upto : events[i].stage # "started"}}

\* Mutant: the cursor goes to the end of the log, not of the page.
PageStoredToEnd(l, from, upto, tell) ==
  [l EXCEPT !.cursors[poll.gen] = Len(events),
            !.outbox = @ \cup {d \in tell : \A x \in @ : x.id # d.id}]

\* enqueue_notification_page: the deliveries and the cursor in one transaction.
PageStored(l, from, upto, tell) ==
  [l EXCEPT !.cursors[poll.gen] = upto,
            !.outbox = @ \cup {d \in tell : \A x \in @ : x.id # d.id}]

CommitPage ==
  /\ AtPoll("observe") /\ poll.at = poll.upto /\ poll' = Idle
  /\ ledger' =
       IF ~OfRoute THEN [ledger EXCEPT !.binding.seen = poll.upto]
       ELSE LET from == ledger.cursors[poll.gen]
            IN  PageStored(ledger, from, poll.upto,
                  IF poll.notices /\ ~Bound THEN Outcomes(from, poll.upto) ELSE {})
  /\ UNCHANGED <<presented, chat, used>>

\* authorized_route.
Authorized(d) ==
  /\ Route.gen = d.gen /\ Route.enabled
  /\ CASE d.kind = "conversation" -> d.of \in {c.id : c \in PendingChatInputs}
       [] d.kind = "binding" -> ledger.binding.id = d.of /\ ledger.binding.gen = d.gen
       [] d.kind = "route" -> Route.notices

\* drain_outbox, one reservation: under the lock; a preview of another host's
\* conversation is withdrawn.
ReserveNext ==
  /\ AtPoll("idle") /\ Unlocked /\ ledger.account /\ host # 0
  /\ used.sends < used.limit.sends
  /\ \E d \in ledger.outbox :
       /\ d.status = "pending"
       /\ LET r == ReservedDelivery(d, Authorized(d) /\ d.host \in {0, host})
          IN  /\ ledger' = [ledger EXCEPT !.outbox = Saved(@, r)]
              /\ poll' = IF r.status = "revoked" THEN Idle
                         ELSE [Idle EXCEPT !.pc = "send", !.delivery = d.id, !.host = host]
  /\ UNCHANGED <<presented, chat, used>>

\* sendStrict: no lock is held, and the answer may not come.
SendDelivery ==
  /\ AtPoll("send")
  /\ \E d \in ledger.outbox, went \in BOOLEAN,
       receipt \in {"sent", "not_sent", "unknown"} :
       /\ d.id = poll.delivery
       /\ (receipt = "sent") => (went /\ poll.host = host)
       /\ (receipt = "not_sent") => (~went /\ poll.host = host)
       /\ ledger' = IF went THEN [ledger EXCEPT !.outbox =
                                    Saved(@, [d EXCEPT !.sends = @ + 1])] ELSE ledger
       /\ chat' = IF went /\ d.kind = "conversation"
                  THEN [chat EXCEPT !.shown =
                          @ \cup {[challenge |-> d.of, host |-> poll.host]}]
                  ELSE chat
       /\ poll' = [poll EXCEPT !.pc = "finish", !.receipt = receipt]
  /\ used' = [used EXCEPT !.sends = @ + 1]
  /\ UNCHANGED presented

\* presented_from_delivery.
Presented(d) ==
  {[challenge |-> c.id, host |-> d.host, gen |-> d.gen] :
     c \in {c \in PendingChatInputs : /\ d.kind = "conversation" /\ d.status = "sent"
                                      /\ d.of = c.id /\ Route.gen = d.gen
                                      /\ Route.enabled}}

FinishSend ==
  /\ AtPoll("finish") /\ Unlocked /\ poll' = Idle /\ UNCHANGED <<chat, used>>
  /\ \E d \in ledger.outbox :
       /\ d.id = poll.delivery
       /\ LET f == FinishedDelivery(d, poll.receipt,
                     poll.host = host /\ ledger.account /\ Authorized(d))
          IN  /\ ledger' = [ledger EXCEPT !.outbox = Saved(@, f)]
              /\ presented' = presented \cup Presented(f)

\* collect_session_wake: one decision at a time, over the page after the cursor.
ReadWake ==
  /\ AtPoll("idle") /\ ledger.account /\ Bound
  /\ ~\E d \in ledger.decisions : d.binding = ledger.binding.id /\ d.state = "pending"
  /\ \E upto \in (ledger.binding.cursor + 1)..Len(events) :
       poll' = [Idle EXCEPT !.pc = "decide", !.binding = ledger.binding, !.upto = upto]
  /\ UNCHANGED <<ledger, presented, chat, used>>

Decision(b, upto, state) ==
  [id |-> <<b.id, b.cursor, upto>>, binding |-> b.id, from |-> b.cursor, upto |-> upto,
   state |-> state]

\* Mutant: the page goes to whatever grant the session has now.
WakeJournaledAnyhow(l, b, d) ==
  [l EXCEPT !.decisions = @ \cup {d}, !.binding.cursor = d.upto]

\* enqueue_session_decision: journals the decision and the cursor together, for
\* the very grant and cursor the page was read with.
WakeJournaled(l, b, d) ==
  IF l.binding.id # b.id \/ l.binding.cursor # b.cursor THEN l
  ELSE [l EXCEPT !.decisions = @ \cup {d}, !.binding.cursor = d.upto]

\* A page without anything to judge is silent at once.
JournalWake ==
  /\ AtPoll("decide") /\ Unlocked /\ poll' = Idle
  /\ IF ledger.account /\ Bound
     THEN \E state \in {"pending", "silent"} :
            ledger' = WakeJournaled(ledger, poll.binding,
                                    Decision(poll.binding, poll.upto, state))
     ELSE UNCHANGED ledger
  /\ UNCHANGED <<presented, chat, used>>

StartJudgement ==
  /\ AtPoll("idle") /\ ledger.account /\ Bound
  /\ \E d \in ledger.decisions :
       /\ d.state = "pending" /\ d.binding = ledger.binding.id
       /\ poll' = [Idle EXCEPT !.pc = "judging", !.decision = d.id]
  /\ UNCHANGED <<ledger, presented, chat, used>>

Notice(d) ==
  [id |-> <<"notice", d.id>>, gen |-> Route.gen, kind |-> "binding", of |-> d.binding,
   host |-> 0, status |-> "pending", sends |-> 0]

\* finish_session_decision: a verdict of a grant that has ended is dropped, an error
\* leaves the decision for a later poll.
FinishJudgement ==
  /\ AtPoll("judging") /\ Unlocked /\ poll' = Idle
  /\ \E d \in ledger.decisions, verdict \in {"notify", "silent", "pending"} :
       /\ d.id = poll.decision
       /\ ledger' =
            IF ~(Bound /\ ledger.account) \/ ledger.binding.id # d.binding
               \/ d.state # "pending" THEN ledger
            ELSE [ledger EXCEPT
                    !.decisions = (@ \ {d}) \cup {[d EXCEPT !.state = verdict]},
                    !.outbox = IF verdict = "notify" THEN QueuedDelivery(@, Notice(d)) ELSE @]
  /\ UNCHANGED <<presented, chat, used>>

-----------------------------------------------------------------------------
Polling ==
  \/ ReadPage \/ ReadGrantPage \/ BeginPage \/ ObserveEvent \/ CommitPage
  \/ ReserveNext \/ SendDelivery \/ FinishSend
  \/ ReadWake \/ JournalWake \/ StartJudgement \/ FinishJudgement

\* A message is one of these, and stays it when it is delivered again.
ChatInputs == 1..used.limit.inputs
Confirmations == {10 + k : k \in 1..used.limit.confirms}
OneWordReplies == {20 + k : k \in 1..used.limit.replies}

Requests ==
  \/ \E m \in ChatInputs : PrepareInput(m)
  \/ \E m \in Confirmations : ConfirmInput(m)
  \/ \E m \in OneWordReplies : ReceiveReply(m)
  \/ CancelInput \/ SubmitOperation
  \/ \E r \in chat.replies : ShortReply(r)

Administration ==
  \/ ApproveRoute \/ DisableRoute \/ ReplaceCredentials
  \/ StopHost \/ StartHost \/ BindSession \/ DetachSession
  \/ ChallengeExpires \/ RestartBridge

BridgeNext == Requests \/ Administration \/ SessionReports \/ Polling

BridgeSpec == BridgeInit /\ [][BridgeNext]_bridgeVars

-----------------------------------------------------------------------------
(* Properties.                                                             *)

\* An input the user has confirmed reaches the session at most once, however often
\* the chat delivers the confirmation, in words or as a one-word reply, and
\* wherever the application ends between journaling and submitting it.
SubmittedOnce ==
  /\ \A o \in ledger.operations : o.submits <= 1
  /\ \A o, p \in ledger.operations : o.challenge = p.challenge => o = p

\* A delivery goes out at most once: over restarts, hosts that are replaced while
\* they send, and answers that do not come.
SentOnce == \A d \in ledger.outbox : d.sends <= 1

\* An operation is reported as ended one way only if a single invocation of it has
\* been seen, whichever of the two cursors over the log saw it first and however
\* often a crash makes one of them go over the same events.
EndedMeansOneInvocation ==
  \A o \in ledger.operations :
    o.state = "completed" =>
      \A i, j \in 1..ledger.cursors[o.gen] :
        (events[i].operation = o.id /\ events[j].operation = o.id)
          => events[i].inv = events[j].inv

\* A one-word reply confirms at most one input, and one whose preview was in the
\* chat when the reply was written, also when it comes again to another host.
ReplyConfirmsOne ==
  \A o \in ledger.operations :
    o.short # 0 =>
      /\ \A p \in ledger.operations : p.short = o.short => p = o
      /\ \E r \in chat.replies : r.message = o.short /\ o.challenge \in r.seen

\* The end of an input the chat gave is queued for the chat before the cursor
\* passes it (a session that has been granted to a bot speaks through its grant).
OutcomesAreQueued ==
  (Route.notices /\ used.grants = 0) =>
    \A o \in ledger.operations, i \in 1..ledger.cursors[Route.gen] :
      (o.gen = Route.gen /\ events[i].operation = o.id /\ events[i].stage # "started") =>
        \E d \in ledger.outbox : d.id = Outcome(events[i]).id

\* The decisions of a grant cover the events since it was given without a gap and
\* without an event judged twice, and one at most waits for its judgement.
DecisionsCoverEvents ==
  LET b == ledger.binding
      own == {d \in ledger.decisions : d.binding = b.id}
  IN  b.id # 0 =>
        /\ \A n \in (b.start + 1)..b.cursor :
             Cardinality({d \in own : d.from < n /\ n <= d.upto}) = 1
        /\ Cardinality({d \in own : d.state = "pending"}) <= 1
=============================================================================
