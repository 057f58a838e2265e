----------------------- MODULE WebContentRecovery_proofs -----------------------
(***************************************************************************)
(* Proofs about WebContentRecovery, for any retry budget, any number of     *)
(* tombstones and any bounds: a window that waits for its reload is served, *)
(* and no live panel is missing from the saved workspace.                   *)
(***************************************************************************)
EXTENDS WebContentRecovery, TLAPS

Policies == [gen : Nat, doc : Nat, retired : SUBSET Nat,
             phase : {"loading", "ready", "waiting", "blocked"},
             started : BOOLEAN, attempts : Nat]
Pages == [id : Nat, alive : BOOLEAN, booted : BOOLEAN, gen : Nat, rev : Nat,
          view : SUBSET Nat, seq : Nat, saving : BOOLEAN, dirty : BOOLEAN]
Threads == [gen : Nat, pc : {"delay", "posted", "late", "fenced", "stuck", "watch"}]
Calls == [cmd : {"none", "boot", "ready", "save", "acquire", "release"}, doc : Nat,
          gen : Nat, rev : Nat, targets : SUBSET Nat, seq : Nat, panel : Nat,
          pc : {"sent", "ticket", "closed", "close", "forget", "store"}]
Browsers == [init : BOOLEAN, saved : SUBSET Nat, seq : Nat,
             last : [targets : SUBSET Nat, seq : Nat], rev : Nat, closed : SUBSET Nat,
             overflow : BOOLEAN]

WebType ==
  /\ policy \in Policies /\ page \in Pages
  /\ reloads \subseteq Threads
  /\ calls \subseteq Calls /\ writer \in Calls /\ readers \subseteq Calls
  /\ browser \in Browsers
  /\ panels \subseteq Nat

-----------------------------------------------------------------------------
\* What the operations on a policy return.
LEMMA PolicyOperators ==
  ASSUME NEW p \in Policies, NEW gen
  PROVE  /\ Invalidate(p) \in Policies /\ Invalidate(p).gen = p.gen + 1
         /\ RequestReload(p) \in Policies /\ RequestReload(p).gen = p.gen + 1
         /\ AbortDispatch(p, gen) \in Policies
         /\ TimedOut(p, gen) \in Policies
         /\ PageStarted(p) \in Policies /\ PageStarted(p).phase # "waiting"
<1>. DEFINE i == Invalidate(p)
            q == [i EXCEPT !.started = FALSE]
<1>1. i \in Policies /\ i.gen = p.gen + 1
  <2>1. ASSUME NEW n \in Nat, NEW R \in SUBSET Nat
        PROVE  LET k == [p EXCEPT !.doc = 0, !.gen = n, !.retired = R]
               IN  k \in Policies /\ k.gen = n
    BY DEF Policies
  <2>2. p.gen + 1 \in Nat /\ p.retired \cup ({p.doc} \ {0}) \in SUBSET Nat
    BY DEF Policies
  <2>. QED  BY <2>1, <2>2 DEF Invalidate
<1>. HIDE DEF i
<1>2. q \in Policies /\ q.gen = p.gen + 1
  BY <1>1 DEF Policies
<1>3. RequestReload(p) = IF q.attempts >= RetryBudget THEN [q EXCEPT !.phase = "blocked"]
                         ELSE [q EXCEPT !.phase = "waiting", !.attempts = @ + 1]
  BY DEF RequestReload, i
<1>. HIDE DEF q
<1>4. RequestReload(p) \in Policies /\ RequestReload(p).gen = p.gen + 1
  <2>1. ASSUME NEW n \in Nat, NEW phase \in {"waiting", "blocked"}
        PROVE  LET k == [q EXCEPT !.phase = phase, !.attempts = n]
               IN  k \in Policies /\ k.gen = q.gen
    BY <1>2 DEF Policies
  <2>2. q.attempts + 1 \in Nat
    BY <1>2 DEF Policies
  <2>3. [q EXCEPT !.phase = "blocked"] \in Policies
        /\ [q EXCEPT !.phase = "blocked"].gen = q.gen
    BY <1>2 DEF Policies
  <2>. QED  BY <1>2, <1>3, <2>1, <2>2, <2>3
<1>5. AbortDispatch(p, gen) \in Policies
  <2>1. [i EXCEPT !.phase = "blocked"] \in Policies
    BY <1>1 DEF Policies
  <2>. QED  BY <2>1 DEF AbortDispatch, i
<1>6. TimedOut(p, gen) \in Policies
  BY <1>4 DEF TimedOut
<1>7. PageStarted(p) \in Policies /\ PageStarted(p).phase # "waiting"
  <2>. DEFINE j == IF p.phase = "ready" \/ p.started THEN i ELSE p
              l == [j EXCEPT !.phase = IF @ = "blocked" THEN @ ELSE "loading",
                             !.started = TRUE]
  <2>1. j \in Policies
    BY <1>1
  <2>2. PageStarted(p) = l
    BY DEF PageStarted, i
  <2>. HIDE DEF j
  <2>3. l \in Policies /\ l.phase # "waiting"
    BY <2>1 DEF Policies
  <2>. QED  BY <2>2, <2>3
<1>. QED  BY <1>1, <1>4, <1>5, <1>6, <1>7 DEF i

\* A call that is created or moves on is a call.
LEMMA CallOperators ==
  ASSUME NEW c \in Calls, NEW pc \in {"sent", "ticket", "closed", "close", "forget", "store"},
         NEW n \in Nat, NEW d \in Nat,
         NEW cmd \in {"none", "boot", "ready", "save", "acquire", "release"}
  PROVE  /\ [c EXCEPT !.pc = pc] \in Calls
         /\ [c EXCEPT !.pc = pc, !.panel = n] \in Calls
         /\ [c EXCEPT !.pc = pc, !.gen = n] \in Calls
         /\ [c EXCEPT !.gen = n] \in Calls
         /\ [c EXCEPT !.panel = n] \in Calls
         /\ Call(cmd, d) \in Calls
<1>1. Call(cmd, d) \in Calls
  BY DEF Call, Calls
<1>2. /\ [c EXCEPT !.pc = pc] \in Calls
      /\ [c EXCEPT !.gen = n] \in Calls
      /\ [c EXCEPT !.panel = n] \in Calls
  BY DEF Calls
<1>3. [c EXCEPT !.pc = pc, !.panel = n] \in Calls
  BY DEF Calls
<1>4. [c EXCEPT !.pc = pc, !.gen = n] \in Calls
  BY DEF Calls
<1>. QED  BY <1>1, <1>2, <1>3, <1>4

\* Forgetting a panel and storing a snapshot.
LEMMA BrowserOperators ==
  ASSUME NEW b \in Browsers, NEW n \in Nat, NEW c \in Calls
  PROVE  /\ Forget(b, n) \in Browsers
         /\ Forget(b, n).saved = b.saved \ {n}
         /\ Forget(b, n).closed \subseteq b.closed \cup {n}
         /\ Forget(b, n).overflow \/ Forget(b, n).closed = b.closed \cup {n}
         /\ b.overflow => Forget(b, n).overflow
         /\ Stored(b, c) \in Browsers
         /\ Stored(b, c).saved = c.targets \ b.closed
         /\ Stored(b, c).closed = b.closed
         /\ Stored(b, c).overflow = b.overflow
<1>. DEFINE room == Cardinality(b.closed) < MaxTombstones \/ n \in b.closed
            f == [b EXCEPT !.closed = IF room THEN @ \cup {n} ELSE @,
                           !.overflow = @ \/ ~room,
                           !.saved = @ \ {n}]
<1>1. Forget(b, n) = f /\ room \in BOOLEAN
  BY DEF Forget
<1>. HIDE DEF room
<1>2. /\ f \in Browsers /\ f.saved = b.saved \ {n}
      /\ f.closed \subseteq b.closed \cup {n}
      /\ f.overflow \/ f.closed = b.closed \cup {n}
      /\ b.overflow => f.overflow
  <2>1. CASE room
    BY <1>1, <2>1 DEF Browsers
  <2>2. CASE ~room
    BY <1>1, <2>2 DEF Browsers
  <2>. QED  BY <2>1, <2>2
<1>3. /\ Stored(b, c) \in Browsers
      /\ Stored(b, c).saved = c.targets \ b.closed
      /\ Stored(b, c).closed = b.closed
      /\ Stored(b, c).overflow = b.overflow
  BY DEF Stored, Browsers, Calls
<1>. QED  BY <1>1, <1>2, <1>3

-----------------------------------------------------------------------------
\* A recovery thread's step keeps the types.
LEMMA ThreadKeepsType ==
  ASSUME WebType, NEW w \in reloads,
         PostReload(w) \/ BeginReload(w) \/ Reload(w) \/ DispatchExpires(w) \/ WatchExpires(w)
  PROVE  policy' \in Policies /\ reloads' \subseteq Threads
<1>1. policy \in Policies /\ w \in Threads /\ Others(w) \subseteq Threads
  BY DEF WebType, Others
<1>2. ASSUME NEW p \in Policies, NEW T \in SUBSET Threads, Dispatch(p, T)
      PROVE  policy' \in Policies /\ reloads' \subseteq Threads
  BY <1>2 DEF Dispatch, Threads, Policies
<1>3. ASSUME NEW pc \in {"posted", "fenced", "watch", "late", "stuck"}
      PROVE  [w EXCEPT !.pc = pc] \in Threads
  BY <1>1 DEF Threads
<1>4. ASSUME NEW pc \in {"posted", "fenced", "watch"}, Move(w, pc)
      PROVE  reloads' \subseteq Threads
  BY <1>1, <1>3, <1>4 DEF Move, Others
<1>5. CASE PostReload(w)
  BY <1>1, <1>2, <1>4, <1>5, PolicyOperators DEF PostReload
<1>6. CASE BeginReload(w)
  <2>1. [policy EXCEPT !.phase = "loading"] \in Policies
    BY <1>1 DEF Policies
  <2>. QED  BY <1>1, <1>4, <1>6, <2>1 DEF BeginReload
<1>7. CASE Reload(w)
  <2>1. (IF w.pc = "fenced" THEN TimedOut(policy, w.gen) ELSE policy) \in Policies
    BY <1>1, PolicyOperators
  <2>. QED  BY <1>1, <1>2, <1>4, <1>7, <2>1 DEF Reload
<1>8. CASE DispatchExpires(w)
  <2>. DEFINE x == [w EXCEPT !.pc = IF @ = "posted" THEN "late" ELSE "stuck"]
  <2>1. x \in Threads
    BY <1>1, <1>3
  <2>2. Dispatch(AbortDispatch(policy, w.gen), Others(w) \cup {x})
    BY <1>8 DEF DispatchExpires
  <2>. HIDE DEF x
  <2>. QED  BY <1>1, <1>2, <2>1, <2>2, PolicyOperators
<1>9. CASE WatchExpires(w)
  BY <1>1, <1>2, <1>9, PolicyOperators DEF WatchExpires
<1>. QED  BY <1>5, <1>6, <1>7, <1>8, <1>9

\* What the steps of the window do to the types.
LEMMA WindowKeepsType ==
  ASSUME WebType, PageStarts \/ ContentTerminated \/ AttemptAges \/ ManualRetry \/ WebThreads
  PROVE  WebType'
<1>1. policy \in Policies /\ page \in Pages /\ page.id \in Nat /\ reloads \subseteq Threads
  BY DEF WebType, Pages
<1>2. CASE PageStarts
  <2>1. policy' \in Policies /\ reloads' = reloads
    BY <1>1, <1>2, PolicyOperators DEF PageStarts
  <2>2. ASSUME NEW n \in Nat PROVE NewPage(n) \in Pages /\ Call("boot", n) \in Calls
    BY DEF NewPage, Pages, Call, Calls
  <2>3. page' \in Pages /\ calls' \subseteq Calls
    BY <1>1, <1>2, <2>2 DEF PageStarts, WebType
  <2>. QED  BY <1>2, <2>1, <2>3 DEF PageStarts, WebType
<1>3. ASSUME browserVars' = browserVars, page' \in Pages, policy' \in Policies,
             reloads' \subseteq Threads
      PROVE  WebType'
  BY <1>3 DEF browserVars, WebType
<1>4. CASE ContentTerminated
  <2>1. page' \in Pages
    BY <1>1, <1>4 DEF ContentTerminated, Pages
  <2>2. CASE UNCHANGED <<policy, reloads, dialog>>
    BY <1>1, <1>3, <1>4, <2>1, <2>2 DEF ContentTerminated
  <2>3. CASE Dispatch(RequestReload(policy), reloads)
    <3>1. policy' \in Policies
      BY <1>1, <2>3, PolicyOperators DEF Dispatch
    <3>2. reloads' \subseteq Threads
      BY <1>1, <2>3, <3>1 DEF Dispatch, Threads, Policies
    <3>. QED  BY <1>3, <1>4, <2>1, <3>1, <3>2 DEF ContentTerminated
  <2>. QED  BY <1>4, <2>2, <2>3 DEF ContentTerminated
<1>5. CASE AttemptAges
  <2>1. policy.attempts - 1 \in Nat
    BY <1>1, <1>5 DEF AttemptAges, Policies
  <2>2. policy' \in Policies
    BY <1>1, <1>5, <2>1 DEF AttemptAges, Policies
  <2>. QED  BY <1>1, <1>3, <1>5, <2>2 DEF AttemptAges
<1>6. CASE ManualRetry
  <2>1. [policy EXCEPT !.attempts = 0] \in Policies
    BY <1>1 DEF Policies
  <2>2. policy' \in Policies
    BY <1>1, <1>6, <2>1, PolicyOperators DEF ManualRetry
  <2>3. reloads' \subseteq Threads
    BY <1>1, <1>6, <2>2 DEF ManualRetry, Threads, Policies
  <2>. QED  BY <1>1, <1>3, <1>6, <2>2, <2>3 DEF ManualRetry
<1>7. CASE WebThreads
  <2>1. PICK w \in reloads : PostReload(w) \/ BeginReload(w) \/ Reload(w)
                             \/ DispatchExpires(w) \/ WatchExpires(w)
    BY <1>7 DEF WebThreads
  <2>2. page' = page /\ browserVars' = browserVars
    BY <2>1 DEF PostReload, BeginReload, Reload, DispatchExpires, WatchExpires
  <2>. QED  BY <1>1, <1>3, <2>1, <2>2, ThreadKeepsType
<1>. QED  BY <1>2, <1>4, <1>5, <1>6, <1>7

\* What the steps of the document's script do to the types.
LEMMA ScriptKeepsType == ASSUME WebType, WebScript PROVE WebType'
<1>1. /\ page \in Pages /\ page.id \in Nat /\ page.gen \in Nat /\ page.rev \in Nat
      /\ page.seq \in Nat /\ page.view \in SUBSET Nat
  BY DEF WebType, Pages
<1>2. /\ policy' = policy /\ reloads' = reloads /\ writer' = writer /\ readers' = readers
      /\ browser' = browser /\ panels' = panels
  BY DEF WebScript, AcknowledgeReady, OpenPanel, DropPanel, SaveWorkspace, UsePanel,
         Script, windowVars
<1>3. ASSUME NEW c \in Calls, SendCall(c) PROVE calls' \subseteq Calls
  BY <1>1, <1>3, CallOperators DEF SendCall, WebType
<1>4. ASSUME calls' \subseteq Calls, page' \in Pages PROVE WebType'
  BY <1>2, <1>4 DEF WebType
<1>5. CASE AcknowledgeReady
  <2>1. Call("ready", page.id) \in Calls
    BY <1>1 DEF Call, Calls
  <2>. QED  BY <1>1, <1>3, <1>4, <1>5, <2>1 DEF AcknowledgeReady
<1>6. CASE OpenPanel
  <2>1. ASSUME NEW n \in Nat, NEW V \in SUBSET Nat
        PROVE  [page EXCEPT !.seq = n, !.view = V, !.dirty = TRUE] \in Pages
    BY <1>1 DEF Pages
  <2>2. page.seq + 1 \in Nat /\ page.view \cup {page.seq + 1} \in SUBSET Nat
    BY <1>1
  <2>. QED  BY <1>4, <1>6, <2>1, <2>2 DEF OpenPanel, WebType
<1>7. CASE DropPanel
  <2>1. page' \in Pages
    BY <1>1, <1>7 DEF DropPanel, Pages
  <2>. QED  BY <1>4, <1>7, <2>1 DEF DropPanel, WebType
<1>8. CASE SaveWorkspace
  <2>. DEFINE c == [Call("save", page.id) EXCEPT !.rev = page.rev + 1,
                      !.targets = page.view, !.seq = page.seq]
  <2>1. page.rev + 1 \in Nat
    BY <1>1
  <2>2. c \in Calls
    <3>1. ASSUME NEW n \in Nat
          PROVE  [Call("save", page.id) EXCEPT !.rev = n, !.targets = page.view,
                    !.seq = page.seq] \in Calls
      <4>1. Call("save", page.id) \in Calls
        BY <1>1 DEF Call, Calls
      <4>. QED  BY <1>1, <4>1 DEF Calls
    <3>. QED  BY <2>1, <3>1
  <2>3. ASSUME NEW n \in Nat
        PROVE  [page EXCEPT !.rev = n, !.dirty = FALSE, !.saving = TRUE] \in Pages
    BY <1>1 DEF Pages
  <2>4. page' \in Pages
    BY <2>1, <1>8, <2>3 DEF SaveWorkspace
  <2>. HIDE DEF c
  <2>5. SendCall(c)
    BY <1>8 DEF SaveWorkspace, c
  <2>. QED  BY <1>3, <1>4, <2>2, <2>4, <2>5
<1>9. CASE UsePanel
  <2>1. PICK q \in page.view, cmd \in {"acquire", "release"} :
          SendCall([Call(cmd, page.id) EXCEPT !.panel = q])
    BY <1>9 DEF UsePanel
  <2>2. [Call(cmd, page.id) EXCEPT !.panel = q] \in Calls
    <3>1. Call(cmd, page.id) \in Calls /\ q \in Nat
      BY <1>1 DEF Call, Calls
    <3>. QED  BY <3>1 DEF Calls
  <2>. QED  BY <1>1, <1>3, <1>4, <1>9, <2>1, <2>2 DEF UsePanel
<1>. QED  BY <1>5, <1>6, <1>7, <1>8, <1>9 DEF WebScript

\* What the handling of a command does to the types.
LEMMA CommandKeepsType == ASSUME WebType, WebCommands PROVE WebType'
<1>1. /\ page \in Pages /\ policy \in Policies /\ policy.gen \in Nat /\ writer \in Calls
      /\ calls \subseteq Calls /\ readers \subseteq Calls /\ browser \in Browsers
      /\ browser.saved \in SUBSET Nat /\ browser.seq \in Nat
      /\ panels \subseteq Nat /\ writer.doc \in Nat /\ writer.panel \in Nat
      /\ writer.gen \in Nat
  BY DEF WebType, Policies, Calls, Browsers
<1>2. ASSUME NEW c \in Calls, Failed(c) PROVE page' \in Pages /\ calls' \subseteq Calls
  <2>1. [c EXCEPT !.pc = "sent"] \in Calls
    BY <1>2 DEF Calls
  <2>2. [page EXCEPT !.saving = FALSE, !.dirty = TRUE] \in Pages
    BY <1>1 DEF Pages
  <2>. QED  BY <1>1, <1>2, <2>1, <2>2 DEF Failed, Retried, GivenUp
<1>3. NoTransaction \in Calls
  BY DEF NoTransaction, Call, Calls
<1>4. ASSUME NEW c \in calls, HandleReady(c) PROVE WebType'
  <2>1. [policy EXCEPT !.phase = "ready"] \in Policies
    BY <1>1 DEF Policies
  <2>. QED  BY <1>4, <2>1 DEF HandleReady, Drop, WebType
<1>5. ASSUME windowVars' = windowVars, page' \in Pages, calls' \subseteq Calls,
             writer' \in Calls, readers' \subseteq Calls, browser' \in Browsers,
             panels' \subseteq Nat
      PROVE  WebType'
  BY <1>5 DEF windowVars, WebType
<1>6. ASSUME NEW c \in calls, TakeTicket(c) PROVE WebType'
  <2>1. [c EXCEPT !.pc = "ticket", !.gen = policy.gen] \in Calls
    BY <1>1, CallOperators
  <2>. QED  BY <1>1, <1>5, <1>6, <2>1 DEF TakeTicket
<1>7. ASSUME NEW c \in calls, BeginBoot(c) PROVE WebType'
  <2>1. c \in Calls /\ c.doc \in Nat /\ Call("boot", c.doc) \in Calls
    BY <1>1 DEF Call, Calls
  <2>2. /\ [policy EXCEPT !.doc = c.doc] \in Policies
        /\ [browser EXCEPT !.init = FALSE, !.rev = 0, !.last = NoSave, !.closed = {},
                           !.overflow = FALSE] \in Browsers
    BY <1>1, <2>1 DEF Policies, Browsers, NoSave
  <2>3. policy' \in Policies /\ browser' \in Browsers /\ writer' \in Calls
        /\ calls' \subseteq Calls
    BY <1>1, <1>7, <2>1, <2>2 DEF BeginBoot, Drop
  <2>4. page' = page /\ reloads' = reloads /\ readers' = readers /\ panels' = panels
    BY <1>7 DEF BeginBoot
  <2>. QED  BY <2>3, <2>4 DEF WebType
<1>8. CASE EndBoot
  <2>1. [browser EXCEPT !.init = TRUE] \in Browsers /\ Call("boot", writer.doc) \in Calls
    BY <1>1 DEF Browsers, Call, Calls
  <2>2. [page EXCEPT !.booted = TRUE, !.gen = writer.gen, !.view = browser.saved,
                     !.seq = browser.seq] \in Pages
    BY <1>1 DEF Pages
  <2>3. browser' \in Browsers /\ page' \in Pages /\ calls' \subseteq Calls
    BY <1>1, <1>8, <2>1, <2>2 DEF EndBoot
  <2>. QED  BY <1>1, <1>3, <1>5, <1>8, <2>3 DEF EndBoot
<1>9. ASSUME NEW c \in calls, BeginAcquire(c) PROVE WebType'
  BY <1>1, <1>5, <1>9 DEF BeginAcquire, Drop
<1>10. ASSUME NEW c \in readers, EndAcquire(c) PROVE WebType'
  BY <1>1, <1>5, <1>10 DEF EndAcquire, Calls
<1>11. ASSUME NEW c \in calls, BeginRelease(c) PROVE WebType'
  <2>1. [c EXCEPT !.pc = "closed"] \in Calls
    BY <1>1 DEF Calls
  <2>. QED  BY <1>1, <1>5, <1>11, <2>1 DEF BeginRelease, ClosePanel, Drop
<1>12. CASE EndRelease
  <2>1. [page EXCEPT !.view = @ \ {writer.panel}, !.dirty = TRUE] \in Pages
    BY <1>1 DEF Pages
  <2>2. browser' \in Browsers
    BY <1>1, <1>12, BrowserOperators DEF EndRelease
  <2>. QED  BY <1>1, <1>3, <1>5, <1>12, <2>1, <2>2 DEF EndRelease
<1>13. ASSUME NEW c \in calls, BeginSave(c) PROVE WebType'
  <2>1. c \in Calls /\ [c EXCEPT !.pc = "close", !.panel = 0] \in Calls
    BY <1>1, CallOperators
  <2>2. [page EXCEPT !.saving = FALSE] \in Pages
    BY <1>1 DEF Pages
  <2>3. writer' \in Calls /\ page' \in Pages /\ calls' \subseteq Calls
    BY <1>1, <1>2, <1>13, <2>1, <2>2 DEF BeginSave, Drop
  <2>. QED  BY <1>1, <1>5, <1>13, <2>3 DEF BeginSave
<1>14. CASE CloseRemoved
  <2>1. ASSUME NEW q \in Removed \cap panels, writer' = [writer EXCEPT !.pc = "forget", !.panel = q]
        PROVE  writer' \in Calls
    BY <1>1, <2>1, CallOperators
  <2>2. [writer EXCEPT !.pc = "store"] \in Calls
    BY <1>1 DEF Calls
  <2>3. writer' \in Calls /\ page' \in Pages /\ calls' \subseteq Calls /\ panels' \subseteq Nat
    BY <1>1, <1>2, <1>3, <1>14, <2>1, <2>2 DEF CloseRemoved
  <2>. QED  BY <1>1, <1>5, <1>14, <2>3 DEF CloseRemoved
<1>15. CASE ForgetRemoved
  <2>1. browser' \in Browsers
    BY <1>1, <1>15, BrowserOperators DEF ForgetRemoved
  <2>2. writer' \in Calls
    BY <1>1, <1>15, CallOperators DEF ForgetRemoved
  <2>. QED  BY <1>1, <1>5, <1>15, <2>1, <2>2 DEF ForgetRemoved
<1>16. CASE EndSave
  <2>1. [page EXCEPT !.saving = FALSE] \in Pages
    BY <1>1 DEF Pages
  <2>2. Stored(browser, writer) \in Browsers
    BY <1>1, BrowserOperators
  <2>3. browser' \in Browsers /\ page' \in Pages /\ calls' \subseteq Calls
    BY <1>1, <1>2, <1>16, <2>1, <2>2 DEF EndSave
  <2>. QED  BY <1>1, <1>3, <1>5, <1>16, <2>3 DEF EndSave
<1>. QED  BY <1>4, <1>6, <1>7, <1>8, <1>9, <1>10, <1>11, <1>12, <1>13, <1>14, <1>15, <1>16
          DEF WebCommands

\* Every variable keeps its type.
LEMMA NextKeepsType == WebType /\ [WebNext]_webVars => WebType'
<1>. SUFFICES ASSUME WebType, [WebNext]_webVars PROVE WebType'
  OBVIOUS
<1>1. CASE UNCHANGED webVars
  BY <1>1 DEF webVars, WebType
<1>. QED  BY <1>1, WindowKeepsType, ScriptKeepsType, CommandKeepsType DEF WebNext

-----------------------------------------------------------------------------
\* A thread of `threads' will reload the window for policy p.
Serves(w, p) == w.gen = p.gen /\ w.pc \in {"delay", "posted"}
ServedBy(p, threads) == p.phase = "waiting" => \E w \in threads : Serves(w, p)

\* A policy that is dispatched is served: a new generation gets a thread of its own,
\* another policy keeps the threads it has.
LEMMA DispatchServes ==
  ASSUME NEW p, NEW others, Dispatch(p, others), p.gen # policy.gen \/ ServedBy(p, others)
  PROVE  ServedBy(policy', reloads')
<1>. DEFINE w == [gen |-> p.gen, pc |-> "delay"]
<1>1. policy' = p /\ others \subseteq reloads'
  BY DEF Dispatch
<1>2. Serves(w, p)
  BY DEF Serves
<1>3. CASE p.gen # policy.gen /\ p.phase = "waiting"
  <2>1. w \in reloads'
    BY <1>3 DEF Dispatch
  <2>. QED  BY <1>1, <1>2, <2>1 DEF ServedBy
<1>4. CASE ServedBy(p, others)
  BY <1>1, <1>4 DEF ServedBy
<1>. QED  BY <1>1, <1>3, <1>4 DEF ServedBy

\* A recovery thread's step.
LEMMA ThreadServes ==
  ASSUME WebType, ServedBy(policy, reloads), NEW w \in reloads,
         PostReload(w) \/ BeginReload(w) \/ Reload(w) \/ DispatchExpires(w) \/ WatchExpires(w)
  PROVE  ServedBy(policy', reloads')
<1>1. policy \in Policies /\ policy.gen \in Nat /\ w \in Threads
  BY DEF WebType, Policies
<1>2. ASSUME ~Serves(w, policy) \/ policy.phase # "waiting"
      PROVE  ServedBy(policy, Others(w))
  BY <1>2 DEF ServedBy, Others
<1>. DEFINE a == AbortDispatch(policy, w.gen)
            b == TimedOut(policy, w.gen)
<1>3. a.gen # policy.gen \/ ServedBy(a, Others(w))
  <2>1. CASE policy.gen # w.gen \/ policy.phase \notin {"waiting", "loading"}
    BY <1>2, <2>1 DEF AbortDispatch, Serves
  <2>2. CASE ~(policy.gen # w.gen \/ policy.phase \notin {"waiting", "loading"})
    <3>. DEFINE i == Invalidate(policy)
    <3>1. i \in Policies /\ i.gen = policy.gen + 1
      BY <1>1, PolicyOperators
    <3>. HIDE DEF i
    <3>2. [i EXCEPT !.phase = "blocked"].gen = i.gen
      BY <3>1 DEF Policies
    <3>3. a = [i EXCEPT !.phase = "blocked"]
      BY <2>2 DEF AbortDispatch, i
    <3>. QED  BY <1>1, <3>1, <3>2, <3>3
  <2>. QED  BY <2>1, <2>2
<1>4. ASSUME w.pc \notin {"delay", "posted"}
      PROVE  b.gen # policy.gen \/ ServedBy(b, Others(w))
  <2>1. RequestReload(policy).gen # policy.gen
    BY <1>1, PolicyOperators
  <2>. QED  BY <1>2, <1>4, <2>1 DEF TimedOut, Serves
<1>5. ASSUME NEW pc, Move(w, pc), policy' = policy,
             ~Serves(w, policy) \/ pc \in {"delay", "posted"}
      PROVE  ServedBy(policy', reloads')
  <2>. DEFINE x == [w EXCEPT !.pc = pc]
  <2>1. x.gen = w.gen /\ x.pc = pc
    BY <1>1 DEF Threads
  <2>. HIDE DEF x
  <2>2. reloads' = (reloads \ {w}) \cup {x}
    BY <1>5 DEF Move, x
  <2>. QED  BY <1>5, <2>1, <2>2 DEF ServedBy, Serves
<1>. HIDE DEF a, b
<1>6. CASE PostReload(w)
  BY <1>3, <1>5, <1>6, DispatchServes DEF PostReload, a
<1>7. CASE BeginReload(w)
  <2>1. CASE policy.phase = "waiting" /\ policy.gen = w.gen
    <3>1. policy' = [policy EXCEPT !.phase = "loading"]
      BY <1>7, <2>1 DEF BeginReload
    <3>2. policy'.phase = "loading"
      BY <1>1, <3>1 DEF Policies
    <3>. QED  BY <3>2 DEF ServedBy
  <2>2. CASE ~(policy.phase = "waiting" /\ policy.gen = w.gen)
    BY <1>2, <1>7, <2>2 DEF BeginReload, Serves
  <2>. QED  BY <2>1, <2>2
<1>8. CASE Reload(w)
  <2>1. w.pc \notin {"delay", "posted"}
    BY <1>8 DEF Reload
  <2>2. ServedBy(policy, Others(w)) /\ ~Serves(w, policy)
    BY <1>2, <2>1 DEF Serves
  <2>3. CASE UNCHANGED policy /\ Move(w, "watch")
    BY <1>5, <2>2, <2>3
  <2>4. CASE UNCHANGED policy /\ reloads' = Others(w)
    BY <2>2, <2>4
  <2>5. CASE Dispatch(IF w.pc = "fenced" THEN b ELSE policy, Others(w))
    BY <1>4, <2>1, <2>2, <2>5, DispatchServes
  <2>. QED  BY <1>8, <2>3, <2>4, <2>5 DEF Reload, b
<1>9. CASE DispatchExpires(w)
  <2>. DEFINE x == [w EXCEPT !.pc = IF @ = "posted" THEN "late" ELSE "stuck"]
  <2>1. Dispatch(a, Others(w) \cup {x})
    BY <1>9 DEF DispatchExpires, a
  <2>. HIDE DEF x
  <2>2. a.gen # policy.gen \/ ServedBy(a, Others(w) \cup {x})
    BY <1>3 DEF ServedBy
  <2>. QED  BY <2>1, <2>2, DispatchServes
<1>10. CASE WatchExpires(w)
  <2>1. w.pc \notin {"delay", "posted"} /\ Dispatch(b, Others(w))
    BY <1>10 DEF WatchExpires, b
  <2>. QED  BY <1>4, <2>1, DispatchServes
<1>. QED  BY <1>6, <1>7, <1>8, <1>9, <1>10

\* Every step keeps the window served.
LEMMA NextServes ==
  WebType /\ ServedBy(policy, reloads) /\ [WebNext]_webVars => ServedBy(policy', reloads')
<1>. SUFFICES ASSUME WebType, ServedBy(policy, reloads), [WebNext]_webVars
              PROVE  ServedBy(policy', reloads')
  OBVIOUS
<1>1. policy \in Policies /\ policy.gen \in Nat
  BY DEF WebType, Policies
<1>2. ASSUME policy'.phase = policy.phase, policy'.gen = policy.gen, reloads' = reloads
      PROVE  ServedBy(policy', reloads')
  BY <1>2 DEF ServedBy, Serves
<1>3. CASE PageStarts
  BY <1>1, <1>3, PolicyOperators DEF PageStarts, ServedBy
<1>4. CASE ContentTerminated
  <2>1. CASE UNCHANGED <<policy, reloads, dialog>>
    BY <1>2, <2>1
  <2>2. CASE Dispatch(RequestReload(policy), reloads)
    <3>1. RequestReload(policy).gen # policy.gen
      BY <1>1, PolicyOperators
    <3>. QED  BY <2>2, <3>1, DispatchServes
  <2>. QED  BY <1>4, <2>1, <2>2 DEF ContentTerminated
<1>5. CASE AttemptAges
  <2>1. policy'.phase = policy.phase /\ policy'.gen = policy.gen
    BY <1>1, <1>5 DEF AttemptAges, Policies
  <2>. QED  BY <1>2, <1>5, <2>1 DEF AttemptAges
<1>6. CASE ManualRetry
  <2>1. CASE UNCHANGED <<policy, reloads>>
    BY <1>2, <2>1
  <2>2. CASE reloads' = reloads \cup {[gen |-> policy'.gen, pc |-> "delay"]}
    <3>. DEFINE y == [gen |-> policy'.gen, pc |-> "delay"]
    <3>1. y \in reloads' /\ Serves(y, policy')
      BY <2>2 DEF Serves
    <3>. QED  BY <3>1 DEF ServedBy
  <2>. QED  BY <1>6, <2>1, <2>2 DEF ManualRetry
<1>7. CASE WebThreads
  BY <1>7, ThreadServes DEF WebThreads
<1>8. CASE WebScript
  BY <1>2, <1>8 DEF WebScript, AcknowledgeReady, OpenPanel, DropPanel, SaveWorkspace,
                    UsePanel, Script, windowVars
<1>9. ASSUME NEW c \in calls, HandleReady(c) PROVE ServedBy(policy', reloads')
  <2>1. CASE policy' = policy
    BY <1>2, <1>9, <2>1 DEF HandleReady
  <2>2. CASE policy' = [policy EXCEPT !.phase = "ready"]
    <3>1. policy'.phase = "ready"
      BY <1>1, <2>2 DEF Policies
    <3>. QED  BY <3>1 DEF ServedBy
  <2>. QED  BY <1>9, <2>1, <2>2 DEF HandleReady
<1>10. ASSUME NEW c \in calls, BeginBoot(c) PROVE ServedBy(policy', reloads')
  <2>1. policy' \in {policy, [policy EXCEPT !.doc = c.doc]} /\ reloads' = reloads
    BY <1>10 DEF BeginBoot
  <2>2. policy'.phase = policy.phase /\ policy'.gen = policy.gen
    BY <1>1, <2>1 DEF Policies
  <2>. QED  BY <1>2, <2>1, <2>2
<1>11. ASSUME NEW c, TakeTicket(c) \/ BeginAcquire(c) \/ BeginRelease(c) \/ BeginSave(c)
                     \/ EndAcquire(c)
       PROVE  ServedBy(policy', reloads')
  BY <1>2, <1>11 DEF TakeTicket, BeginAcquire, BeginRelease, ClosePanel, BeginSave,
                     EndAcquire, windowVars
<1>12. ASSUME EndBoot \/ EndRelease \/ CloseRemoved \/ ForgetRemoved \/ EndSave
       PROVE  ServedBy(policy', reloads')
  BY <1>2, <1>12 DEF EndBoot, EndRelease, CloseRemoved, ForgetRemoved, EndSave, windowVars
<1>13. CASE WebCommands
  BY <1>9, <1>10, <1>11, <1>12, <1>13 DEF WebCommands
<1>14. CASE UNCHANGED webVars
  BY <1>2, <1>14 DEF webVars
<1>. QED  BY <1>3, <1>4, <1>5, <1>6, <1>7, <1>8, <1>13, <1>14 DEF WebNext

-----------------------------------------------------------------------------
\* The guard is shared or exclusive, a panel that is being made ready is saved, and
\* whoever holds the guard exclusively has already closed what it is about to forget.
PanelsInv ==
  /\ readers # {} => writer.cmd = "none"
  /\ \A c \in readers : c.panel \in browser.saved
  /\ panels \subseteq browser.saved
  /\ browser.closed \cap browser.saved = {}
  /\ writer.cmd = "release" => writer.panel \notin panels
  /\ writer.cmd = "save" /\ writer.pc = "forget" => writer.panel \notin panels
  /\ writer.cmd = "save" /\ writer.pc = "store" => panels \subseteq writer.targets

\* A step that leaves the panels, the workspace and the guard alone.
LEMMA PanelsUntouched ==
  ASSUME PanelsInv, writer' = writer, readers' = readers, panels' = panels,
         browser'.saved = browser.saved, browser'.closed = browser.closed
  PROVE  PanelsInv'
BY DEF PanelsInv

\* A command's handling.
LEMMA CommandKeepsPanels == ASSUME WebType, PanelsInv, WebCommands PROVE PanelsInv'
<1>1. /\ writer \in Calls /\ calls \subseteq Calls /\ readers \subseteq Calls
      /\ browser \in Browsers /\ panels \subseteq Nat /\ writer.panel \in Nat
  BY DEF WebType, Calls
<1>2. NoTransaction.cmd = "none"
  BY DEF NoTransaction, Call
<1>3. ASSUME NEW c \in calls, HandleReady(c) \/ TakeTicket(c) PROVE PanelsInv'
  BY <1>3, PanelsUntouched DEF HandleReady, TakeTicket
<1>4. ASSUME NEW c \in calls, BeginBoot(c) PROVE PanelsInv'
  <2>1. c.cmd = "boot" /\ readers' = readers /\ panels' = panels
    BY <1>4 DEF BeginBoot
  <2>2. CASE policy.gen = c.gen /\ MayBoot(policy, c.doc)
    <3>1. writer' = c /\ readers = {}
      BY <1>4, <2>2 DEF BeginBoot, Exclusive
    <3>2. browser' \in {browser, [browser EXCEPT !.init = FALSE, !.rev = 0, !.last = NoSave,
                                   !.closed = {}, !.overflow = FALSE]}
      BY <1>4, <2>2 DEF BeginBoot
    <3>3. browser'.saved = browser.saved /\ browser'.closed \in {browser.closed, {}}
      BY <1>1, <3>2 DEF Browsers
    <3>. QED  BY <2>1, <3>1, <3>3 DEF PanelsInv
  <2>3. CASE ~(policy.gen = c.gen /\ MayBoot(policy, c.doc))
    BY <1>4, <2>1, <2>3, PanelsUntouched DEF BeginBoot
  <2>. QED  BY <2>2, <2>3
<1>5. CASE EndBoot
  <2>1. browser' \in {browser, [browser EXCEPT !.init = TRUE]}
    BY <1>5 DEF EndBoot
  <2>2. browser'.saved = browser.saved /\ browser'.closed = browser.closed
    BY <1>1, <2>1 DEF Browsers
  <2>. QED  BY <1>2, <1>5, <2>2 DEF EndBoot, PanelsInv
<1>6. ASSUME NEW c \in calls, BeginAcquire(c) PROVE PanelsInv'
  BY <1>2, <1>6 DEF BeginAcquire, Unguarded, PanelsInv
<1>7. ASSUME NEW c \in readers, EndAcquire(c) PROVE PanelsInv'
  <2>1. writer.cmd = "none" /\ c.panel \in browser.saved
    BY <1>7 DEF PanelsInv
  <2>. QED  BY <1>7, <2>1 DEF EndAcquire, PanelsInv
<1>8. ASSUME NEW c \in calls, BeginRelease(c) PROVE PanelsInv'
  <2>1. c \in Calls /\ c.cmd = "release" /\ readers = {} /\ browser' = browser
        /\ readers' = readers
    BY <1>1, <1>8 DEF BeginRelease, ClosePanel, Exclusive
  <2>2. CASE Known(c) /\ c.panel \in panels
    <3>1. writer' = [c EXCEPT !.pc = "closed"] /\ panels' = panels \ {c.panel}
      BY <1>8, <2>2 DEF BeginRelease, ClosePanel
    <3>2. writer'.cmd = "release" /\ writer'.panel = c.panel
      BY <2>1, <3>1 DEF Calls
    <3>. QED  BY <2>1, <3>1, <3>2 DEF PanelsInv
  <2>3. CASE ~(Known(c) /\ c.panel \in panels)
    BY <1>8, <2>1, <2>3, PanelsUntouched DEF BeginRelease, ClosePanel
  <2>. QED  BY <2>2, <2>3
<1>9. ASSUME writer.cmd # "none", writer.panel \notin panels, readers' = readers,
             browser' = Forget(browser, writer.panel), panels' = panels,
             \/ writer'.cmd = "none"
             \/ writer'.cmd = "save" /\ writer'.pc = "close"
      PROVE  PanelsInv'
  <2>1. readers = {} /\ browser.closed \cap browser.saved = {} /\ panels \subseteq browser.saved
    BY <1>9 DEF PanelsInv
  <2>2. /\ browser'.saved = browser.saved \ {writer.panel}
        /\ browser'.closed \subseteq browser.closed \cup {writer.panel}
    BY <1>1, <1>9, BrowserOperators
  <2>. QED  BY <1>9, <2>1, <2>2 DEF PanelsInv
<1>10. CASE EndRelease
  <2>1. writer.panel \notin panels
    BY <1>10 DEF EndRelease, PanelsInv
  <2>. QED  BY <1>2, <1>9, <1>10, <2>1 DEF EndRelease
<1>11. ASSUME NEW c \in calls, BeginSave(c) PROVE PanelsInv'
  <2>1. /\ c \in Calls /\ c.cmd = "save" /\ readers = {}
        /\ readers' = readers /\ browser' = browser /\ panels' = panels
        /\ writer' \in {writer, [c EXCEPT !.pc = "close", !.panel = 0]}
    BY <1>1, <1>11 DEF BeginSave, Exclusive
  <2>2. CASE writer' = writer
    BY <2>1, <2>2, PanelsUntouched
  <2>3. CASE writer' = [c EXCEPT !.pc = "close", !.panel = 0]
    <3>1. writer'.cmd = "save" /\ writer'.pc = "close"
      BY <2>1, <2>3 DEF Calls
    <3>. QED  BY <2>1, <3>1 DEF PanelsInv
  <2>. QED  BY <2>1, <2>2, <2>3
<1>12. CASE CloseRemoved
  <2>1. writer.cmd = "save" /\ readers' = readers /\ browser' = browser
    BY <1>12 DEF CloseRemoved
  <2>2. readers = {} /\ panels \subseteq browser.saved
    BY <2>1 DEF PanelsInv
  <2>3. ASSUME NEW q \in Removed \cap panels, panels' = panels \ {q},
               writer' = [writer EXCEPT !.pc = "forget", !.panel = q]
        PROVE  PanelsInv'
    <3>1. q \in Nat
      BY <1>1
    <3>2. writer'.cmd = "save" /\ writer'.pc = "forget" /\ writer'.panel = q
      BY <1>1, <2>1, <2>3, <3>1 DEF Calls
    <3>. QED  BY <2>1, <2>2, <2>3, <3>2 DEF PanelsInv
  <2>4. CASE writer' = NoTransaction /\ UNCHANGED <<browser, panels, gone>>
    BY <1>2, <2>1, <2>2, <2>4 DEF PanelsInv
  <2>5. CASE /\ Removed \cap panels = {} /\ writer' = [writer EXCEPT !.pc = "store"]
             /\ panels' = panels
    <3>1. writer'.cmd = "save" /\ writer'.pc = "store" /\ writer'.targets = writer.targets
      BY <1>1, <2>1, <2>5 DEF Calls
    <3>2. panels \subseteq writer.targets
      BY <2>2, <2>5 DEF Removed
    <3>. QED  BY <2>1, <2>2, <2>5, <3>1, <3>2 DEF PanelsInv
  <2>. QED  BY <1>12, <2>3, <2>4, <2>5 DEF CloseRemoved
<1>13. CASE ForgetRemoved
  <2>1. writer.cmd = "save" /\ writer.panel \notin panels
    BY <1>13 DEF ForgetRemoved, PanelsInv
  <2>2. writer'.cmd = "save" /\ writer'.pc = "close"
    BY <1>1, <1>13, <2>1 DEF ForgetRemoved, Calls
  <2>. QED  BY <1>9, <1>13, <2>1, <2>2 DEF ForgetRemoved
<1>14. CASE EndSave
  <2>1. writer.cmd = "save" /\ writer.pc = "store" /\ writer' = NoTransaction
        /\ readers' = readers /\ panels' = panels
        /\ browser' \in {browser, Stored(browser, writer)}
    BY <1>14 DEF EndSave
  <2>2. /\ readers = {} /\ panels \subseteq browser.saved /\ panels \subseteq writer.targets
        /\ browser.closed \cap browser.saved = {}
    BY <2>1 DEF PanelsInv
  <2>3. CASE browser' = browser
    BY <1>2, <2>1, <2>2, <2>3 DEF PanelsInv
  <2>4. CASE browser' = Stored(browser, writer)
    <3>1. /\ browser'.saved = writer.targets \ browser.closed
          /\ browser'.closed = browser.closed
      BY <1>1, <2>4, BrowserOperators
    <3>. QED  BY <1>2, <2>1, <2>2, <3>1 DEF PanelsInv
  <2>. QED  BY <2>1, <2>3, <2>4
<1>. QED  BY <1>3, <1>4, <1>5, <1>6, <1>7, <1>8, <1>10, <1>11, <1>12, <1>13, <1>14
          DEF WebCommands

\* Every step keeps the panels saved.
LEMMA NextKeepsPanels == WebType /\ PanelsInv /\ [WebNext]_webVars => PanelsInv'
<1>. SUFFICES ASSUME WebType, PanelsInv, [WebNext]_webVars PROVE PanelsInv'
  OBVIOUS
<1>1. CASE PageStarts \/ ContentTerminated \/ AttemptAges \/ ManualRetry
  BY <1>1, PanelsUntouched DEF PageStarts, ContentTerminated, AttemptAges, ManualRetry,
                               browserVars
<1>2. CASE WebThreads
  BY <1>2, PanelsUntouched DEF WebThreads, PostReload, BeginReload, Reload, DispatchExpires,
                               WatchExpires, browserVars
<1>3. CASE WebScript
  BY <1>3, PanelsUntouched DEF WebScript, AcknowledgeReady, OpenPanel, DropPanel,
                               SaveWorkspace, UsePanel, Script
<1>4. CASE UNCHANGED webVars
  BY <1>4, PanelsUntouched DEF webVars
<1>. QED  BY <1>1, <1>2, <1>3, <1>4, CommandKeepsPanels DEF WebNext

-----------------------------------------------------------------------------
\* The panel whose close the exclusive holder of the guard has still to record.
Closing ==
  {p \in {writer.panel} : writer.cmd = "release" \/ (writer.cmd = "save" /\ writer.pc = "forget")}

\* Every other closed panel has left the workspace, and has a tombstone unless there
\* was no room for one; then no snapshot is stored any more.
ClosedInv ==
  /\ gone \cap browser.saved \subseteq Closing
  /\ browser.overflow \/ gone \subseteq browser.closed \cup Closing

\* A step that closes no panel and leaves the workspace as it is.
LEMMA ClosedUntouched ==
  ASSUME ClosedInv, Closing \subseteq Closing', gone' = gone,
         browser'.saved = browser.saved, browser'.closed = browser.closed,
         browser'.overflow = browser.overflow
  PROVE  ClosedInv'
BY DEF ClosedInv

\* A panel whose close is recorded.
LEMMA ForgetCloses ==
  ASSUME WebType, ClosedInv, gone' = gone, browser' = Forget(browser, writer.panel)
  PROVE  ClosedInv'
<1>1. browser \in Browsers /\ writer.panel \in Nat
  BY DEF WebType, Calls
<1>2. /\ browser'.saved = browser.saved \ {writer.panel}
      /\ browser'.overflow \/ browser'.closed = browser.closed \cup {writer.panel}
      /\ browser.overflow => browser'.overflow
  <2>. PICK c \in Calls : c = writer
    BY DEF WebType
  <2>. QED  BY <1>1, BrowserOperators
<1>3. Closing \subseteq {writer.panel}
  BY DEF Closing
<1>. QED  BY <1>2, <1>3 DEF ClosedInv

\* A command's handling keeps closed panels closed.
LEMMA CommandKeepsClosed == ASSUME WebType, ClosedInv, WebCommands PROVE ClosedInv'
<1>1. /\ writer \in Calls /\ calls \subseteq Calls /\ readers \subseteq Calls
      /\ browser \in Browsers /\ panels \subseteq Nat
  BY DEF WebType
<1>2. NoTransaction.cmd = "none"
  BY DEF NoTransaction, Call
<1>3. ASSUME NEW c \in calls, HandleReady(c) \/ TakeTicket(c) \/ BeginAcquire(c)
      PROVE  ClosedInv'
  BY <1>3, ClosedUntouched DEF HandleReady, TakeTicket, BeginAcquire, Closing
<1>4. ASSUME NEW c \in calls, BeginBoot(c) PROVE ClosedInv'
  <2>1. writer = NoTransaction /\ c.cmd = "boot"
    BY <1>4 DEF BeginBoot, Exclusive, Unguarded
  <2>2. Closing = {}
    BY <1>2, <2>1 DEF Closing
  <2>3. CASE browser' = browser /\ gone' = gone
    BY <2>2, <2>3, ClosedUntouched
  <2>4. CASE gone' = {}
    BY <2>4 DEF ClosedInv
  <2>. QED  BY <1>4, <2>3, <2>4 DEF BeginBoot
<1>5. CASE EndBoot
  <2>1. browser' \in {browser, [browser EXCEPT !.init = TRUE]}
    BY <1>5 DEF EndBoot
  <2>2. /\ browser'.saved = browser.saved /\ browser'.closed = browser.closed
        /\ browser'.overflow = browser.overflow
    BY <1>1, <2>1 DEF Browsers
  <2>3. Closing = {} /\ gone' = gone
    BY <1>5 DEF EndBoot, Closing
  <2>. QED  BY <2>2, <2>3, ClosedUntouched
<1>6. ASSUME NEW c \in readers, EndAcquire(c) PROVE ClosedInv'
  BY <1>6, ClosedUntouched DEF EndAcquire, Closing
<1>7. ASSUME NEW c \in calls, BeginRelease(c) PROVE ClosedInv'
  <2>1. c \in Calls /\ c.cmd = "release" /\ browser' = browser /\ writer = NoTransaction
    BY <1>1, <1>7 DEF BeginRelease, ClosePanel, Exclusive, Unguarded
  <2>2. Closing = {}
    BY <1>2, <2>1 DEF Closing
  <2>3. CASE Known(c) /\ c.panel \in panels
    <3>1. writer' = [c EXCEPT !.pc = "closed"] /\ gone' = gone \cup {c.panel}
      BY <1>7, <2>3 DEF BeginRelease, ClosePanel
    <3>2. writer'.cmd = "release" /\ writer'.panel = c.panel
      BY <2>1, <3>1 DEF Calls
    <3>3. Closing' = {c.panel}
      BY <3>2 DEF Closing
    <3>. QED  BY <2>1, <2>2, <3>1, <3>3 DEF ClosedInv
  <2>4. CASE UNCHANGED <<writer, panels, gone>>
    BY <2>1, <2>2, <2>4, ClosedUntouched
  <2>. QED  BY <1>7, <2>3, <2>4 DEF BeginRelease, ClosePanel
<1>8. CASE EndRelease \/ ForgetRemoved
  BY <1>8, ForgetCloses DEF EndRelease, ForgetRemoved
<1>9. ASSUME NEW c \in calls, BeginSave(c) PROVE ClosedInv'
  <2>1. writer = NoTransaction /\ browser' = browser /\ gone' = gone
    BY <1>9 DEF BeginSave, Exclusive, Unguarded
  <2>2. Closing = {}
    BY <1>2, <2>1 DEF Closing
  <2>. QED  BY <2>1, <2>2, ClosedUntouched
<1>10. CASE CloseRemoved
  <2>1. writer.cmd = "save" /\ writer.pc = "close" /\ browser' = browser
    BY <1>10 DEF CloseRemoved
  <2>2. Closing = {}
    BY <2>1 DEF Closing
  <2>3. ASSUME NEW q \in Removed \cap panels, gone' = gone \cup {q},
               writer' = [writer EXCEPT !.pc = "forget", !.panel = q]
        PROVE  ClosedInv'
    <3>1. writer'.cmd = "save" /\ writer'.pc = "forget" /\ writer'.panel = q
      BY <1>1, <2>1, <2>3 DEF Calls
    <3>2. Closing' = {q}
      BY <3>1 DEF Closing
    <3>. QED  BY <2>1, <2>2, <2>3, <3>2 DEF ClosedInv
  <2>4. CASE gone' = gone
    BY <2>1, <2>2, <2>4, ClosedUntouched
  <2>. QED  BY <1>10, <2>3, <2>4 DEF CloseRemoved
<1>11. CASE EndSave
  <2>1. writer.cmd = "save" /\ writer.pc = "store" /\ gone' = gone
    BY <1>11 DEF EndSave
  <2>2. Closing = {}
    BY <2>1 DEF Closing
  <2>3. CASE browser' = browser
    BY <2>1, <2>2, <2>3, ClosedUntouched
  <2>4. CASE ~browser.overflow /\ browser' = Stored(browser, writer)
    <3>1. /\ browser'.saved = writer.targets \ browser.closed
          /\ browser'.closed = browser.closed
      <4>. PICK n \in Nat : n = 0
        OBVIOUS
      <4>. QED  BY <1>1, <2>4, BrowserOperators
    <3>2. gone \subseteq browser.closed
      BY <2>2, <2>4 DEF ClosedInv
    <3>. QED  BY <2>1, <3>1, <3>2 DEF ClosedInv
  <2>. QED  BY <1>11, <2>3, <2>4 DEF EndSave
<1>. QED  BY <1>3, <1>4, <1>5, <1>6, <1>7, <1>8, <1>9, <1>10, <1>11 DEF WebCommands

\* Every step keeps closed panels closed.
LEMMA NextKeepsClosed == WebType /\ ClosedInv /\ [WebNext]_webVars => ClosedInv'
<1>. SUFFICES ASSUME WebType, ClosedInv, [WebNext]_webVars PROVE ClosedInv'
  OBVIOUS
<1>1. CASE PageStarts \/ ContentTerminated \/ AttemptAges \/ ManualRetry
  BY <1>1, ClosedUntouched DEF PageStarts, ContentTerminated, AttemptAges, ManualRetry,
                               browserVars, Closing
<1>2. CASE WebThreads
  BY <1>2, ClosedUntouched DEF WebThreads, PostReload, BeginReload, Reload, DispatchExpires,
                               WatchExpires, browserVars, Closing
<1>3. CASE WebScript
  BY <1>3, ClosedUntouched DEF WebScript, AcknowledgeReady, OpenPanel, DropPanel,
                               SaveWorkspace, UsePanel, Script, Closing
<1>4. CASE UNCHANGED webVars
  BY <1>4, ClosedUntouched DEF webVars, Closing
<1>. QED  BY <1>1, <1>2, <1>3, <1>4, CommandKeepsClosed DEF WebNext

-----------------------------------------------------------------------------
\* The invariant: types, the thread a waiting window has, the live and the closed panels.
WebInv == WebType /\ ServedBy(policy, reloads) /\ PanelsInv /\ ClosedInv

\* The invariant holds, whatever documents load, die and send.
THEOREM WebInvariant == WebSpec => []WebInv
<1>1. WebInit => WebInv
  <2>. SUFFICES ASSUME WebInit PROVE WebInv
    OBVIOUS
  <2>1. policy \in Policies /\ policy.phase = "loading"
    BY DEF WebInit, Policies
  <2>2. page \in Pages
    <3>1. NewPage(0) \in Pages
      BY DEF NewPage, Pages
    <3>. QED  BY <3>1 DEF WebInit, Pages
  <2>3. writer \in Calls /\ writer.cmd = "none"
    BY DEF WebInit, NoTransaction, Call, Calls
  <2>4. browser \in Browsers /\ browser.closed = {}
    BY DEF WebInit, NoSave, Browsers
  <2>5. reloads = {} /\ calls = {} /\ readers = {} /\ panels = {}
    BY DEF WebInit
  <2>6. WebType
    BY <2>1, <2>2, <2>3, <2>4, <2>5 DEF WebType
  <2>7. ClosedInv
    BY DEF WebInit, ClosedInv
  <2>. QED  BY <2>1, <2>3, <2>4, <2>5, <2>6, <2>7 DEF WebInv, ServedBy, PanelsInv
<1>2. WebInv /\ [WebNext]_webVars => WebInv'
  BY NextKeepsType, NextServes, NextKeepsPanels, NextKeepsClosed DEF WebInv, ServedBy, Serves
<1>. QED  BY <1>1, <1>2, PTL DEF WebSpec

\* While the policy waits to reload the window, a thread will do it for this very
\* generation (dispatch_recovery, begin_reload, recovery_failed).
THEOREM WindowIsServed == WebSpec => []WaitingIsServed
<1>1. WebInv => WaitingIsServed
  BY DEF WebInv, ServedBy, Serves, WaitingIsServed
<1>. QED  BY <1>1, WebInvariant, PTL

\* Every live panel is named by the saved workspace, so the next document finds it
\* (save_browser_workspace_with_cleanup, browser_surface_acquire and _release).
THEOREM LivePanelsAreSaved == WebSpec => []PanelsAreSaved
<1>1. WebInv => PanelsAreSaved
  BY DEF WebInv, PanelsInv, PanelsAreSaved
<1>. QED  BY <1>1, WebInvariant, PTL

\* A panel closed since the document booted is not in the workspace again, whatever
\* snapshots and closes are handled late and however many tombstones there is room for
\* (forget_closed_browser_target, save_browser_workspace_with_cleanup).
THEOREM ClosedPanelsStayClosed == WebSpec => []ClosedStaysClosed
<1>1. WebInv => ClosedStaysClosed
  BY DEF WebInv, ClosedInv, Closing, ClosedStaysClosed
<1>. QED  BY <1>1, WebInvariant, PTL
=============================================================================
