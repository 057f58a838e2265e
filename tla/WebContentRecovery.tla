--------------------------- MODULE WebContentRecovery ---------------------------
(***************************************************************************)
(* Recovery of the main window's renderer (webcontent_recovery.rs): reload  *)
(* it when its process ends, give up after a few attempts, and let the new  *)
(* document take over the embedded browser panels of the old one.           *)
(*                                                                         *)
(* The renderer's documents are numbered in the order they load.  A        *)
(* document's commands (`calls') are handled by workers in any order, also  *)
(* after the document is gone.  What a command may still do is decided by   *)
(* the generation and the document the policy has registered.  Browser      *)
(* commands hold the document guard for the whole of their transaction,     *)
(* shared for an acquire, exclusive for the others; callbacks of the window *)
(* take the policy's mutex only and fall between any two of their steps.    *)
(***************************************************************************)
EXTENDS Naturals, FiniteSets

CONSTANTS RetryBudget,   \* RETRY_DELAYS.len()
          MaxTombstones, \* MAX_CLOSED_BROWSER_TARGETS
          WebBounds      \* bounds: documents the window loads, generations of the
                         \* policy, panels opened and snapshots sent by a document,
                         \* commands at one time

ASSUME WebAssumption ==
  /\ RetryBudget \in Nat \ {0} /\ MaxTombstones \in Nat
  /\ WebBounds \subseteq [documents : Nat, generation : Nat, panels : Nat, saves : Nat,
                    calls : Nat]

VARIABLES policy,   \* RecoveryPolicy
          page,     \* the document in the window, as its script sees itself
          nav,      \* a reload was asked of the window
          reloads,  \* recovery threads, with the closure each has posted
          dialog,   \* the dialog that offers a manual retry is open
          calls,    \* commands sent by documents and not handled yet
          writer,   \* the transaction that holds the document guard exclusively
          readers,  \* the acquires that share it
          browser,  \* the saved workspace and its tombstones
          panels,   \* native browser panels that are alive
          gone,     \* history: panels closed since the last document booted
          limit     \* which of the bounds this behaviour keeps to
webVars == <<policy, page, nav, reloads, dialog, calls, writer, readers,
             browser, panels, gone, limit>>

Call(cmd, doc) == [cmd |-> cmd, doc |-> doc, gen |-> 0, rev |-> 0, targets |-> {},
                   seq |-> 0, panel |-> 0, pc |-> "sent"]
NoTransaction == Call("none", 0)
NoSave == [targets |-> {}, seq |-> 0]

NewPage(d) == [id |-> d, alive |-> TRUE, booted |-> FALSE, gen |-> 0, rev |-> 0,
               view |-> {}, seq |-> 0, saving |-> FALSE, dirty |-> FALSE]

WebInit ==
  /\ policy = [gen |-> 0, doc |-> 0, retired |-> {}, phase |-> "loading",
               started |-> FALSE, attempts |-> 0]
  /\ page = [NewPage(0) EXCEPT !.alive = FALSE]
  /\ nav = TRUE /\ reloads = {} /\ dialog = FALSE
  /\ calls = {} /\ writer = NoTransaction /\ readers = {}
  /\ browser = [init |-> FALSE, saved |-> {}, seq |-> 0, last |-> NoSave, rev |-> 0,
                closed |-> {}, overflow |-> FALSE]
  /\ panels = {} /\ gone = {}
  /\ limit \in WebBounds

-----------------------------------------------------------------------------
(* RecoveryPolicy.                                                         *)

Invalidate(p) == [p EXCEPT !.doc = 0, !.gen = @ + 1,
                           !.retired = @ \cup ({p.doc} \ {0})]

\* request_reload: attempts counts those still in the window.
RequestReload(p) ==
  LET q == [Invalidate(p) EXCEPT !.started = FALSE]
  IN  IF q.attempts >= RetryBudget THEN [q EXCEPT !.phase = "blocked"]
      ELSE [q EXCEPT !.phase = "waiting", !.attempts = @ + 1]

AbortDispatch(p, gen) ==
  IF p.gen # gen \/ p.phase \notin {"waiting", "loading"} THEN p
  ELSE [Invalidate(p) EXCEPT !.phase = "blocked"]

TimedOut(p, gen) ==
  IF p.gen # gen \/ p.phase # "loading" THEN p ELSE RequestReload(p)

PageStarted(p) ==
  LET q == IF p.phase = "ready" \/ p.started THEN Invalidate(p) ELSE p
  IN  [q EXCEPT !.phase = IF @ = "blocked" THEN @ ELSE "loading", !.started = TRUE]

MayBoot(p, doc) ==
  /\ p.phase \notin {"blocked", "waiting"}
  /\ doc \notin p.retired
  /\ p.doc \in {0, doc}

Accepts(p, doc, gen) ==
  /\ p.gen = gen /\ p.doc = doc
  /\ p.phase \in {"loading", "ready"}

-----------------------------------------------------------------------------
(* The window, and the threads that reload it (dispatch_recovery).          *)

InBounds == policy'.gen <= limit.generation

\* A new policy with the thread or the dialog it calls for.
Dispatch(p, others) ==
  /\ policy' = p
  /\ reloads' = others \cup (IF p.phase = "waiting" /\ p # policy
                             THEN {[gen |-> p.gen, pc |-> "delay"]} ELSE {})
  /\ dialog' = (dialog \/ (p.phase = "blocked" /\ policy.phase # "blocked"))

browserVars == <<calls, writer, readers, browser, panels, gone>>

\* A page load starts: asked for by a reload, or by the document itself.
PageStarts ==
  /\ nav \/ page.alive
  /\ page.id < limit.documents
  /\ page' = NewPage(page.id + 1) /\ nav' = FALSE
  /\ policy' = PageStarted(policy) /\ InBounds
  /\ calls' = calls \cup {Call("boot", page.id + 1)}
  /\ UNCHANGED <<reloads, dialog, writer, readers, browser, panels, gone>>

\* handle_termination; the notification may come twice.
ContentTerminated ==
  /\ page.id # 0
  /\ page' = [page EXCEPT !.alive = FALSE]
  /\ IF policy.phase \in {"waiting", "blocked"}
     THEN UNCHANGED <<policy, reloads, dialog>>
     ELSE Dispatch(RequestReload(policy), reloads)
  /\ InBounds /\ UNCHANGED <<nav, browserVars>>

Move(w, pc) == reloads' = (reloads \ {w}) \cup {[w EXCEPT !.pc = pc]}
Others(w) == reloads \ {w}

\* The thread posts its closure to the main thread, or could not be started.
PostReload(w) ==
  /\ w.pc = "delay"
  /\ \/ Move(w, "posted") /\ UNCHANGED <<policy, dialog>>
     \/ Dispatch(AbortDispatch(policy, w.gen), Others(w))
  /\ InBounds /\ UNCHANGED <<page, nav, browserVars>>

\* The closure runs: begin_reload is its fence.
BeginReload(w) ==
  /\ w.pc \in {"posted", "late"}
  /\ IF policy.phase = "waiting" /\ policy.gen = w.gen
     THEN policy' = [policy EXCEPT !.phase = "loading"] /\ Move(w, "fenced")
     ELSE reloads' = Others(w) /\ UNCHANGED policy
  /\ UNCHANGED <<page, nav, dialog, browserVars>>

\* window.reload(), after the mutex is released.
Reload(w) ==
  /\ w.pc \in {"fenced", "stuck"}
  /\ \/ /\ nav' = TRUE
        /\ IF w.pc = "fenced" THEN Move(w, "watch") ELSE reloads' = Others(w)
        /\ UNCHANGED <<policy, dialog>>
     \/ /\ Dispatch(IF w.pc = "fenced" THEN TimedOut(policy, w.gen) ELSE policy, Others(w))
        /\ UNCHANGED nav
  /\ InBounds /\ UNCHANGED <<page, browserVars>>

\* Mutant: a thread whose closure is late just ends.
DispatchExpiresQuietly(w) ==
  /\ w.pc \in {"posted", "fenced"}
  /\ reloads' = Others(w)
  /\ UNCHANGED <<policy, dialog, page, nav, browserVars>>

\* The main thread does not answer in time; the closure stays posted.
DispatchExpires(w) ==
  /\ w.pc \in {"posted", "fenced"}
  /\ Dispatch(AbortDispatch(policy, w.gen),
              Others(w) \cup {[w EXCEPT !.pc = IF @ = "posted" THEN "late" ELSE "stuck"]})
  /\ InBounds /\ UNCHANGED <<page, nav, browserVars>>

\* recovery_failed after the wait for the document's readiness.
WatchExpires(w) ==
  /\ w.pc = "watch"
  /\ Dispatch(TimedOut(policy, w.gen), Others(w))
  /\ InBounds /\ UNCHANGED <<page, nav, browserVars>>

\* An attempt falls out of the window.
AttemptAges ==
  /\ policy.attempts > 0
  /\ policy' = [policy EXCEPT !.attempts = @ - 1]
  /\ UNCHANGED <<page, nav, reloads, dialog, browserVars>>

\* The dialog's button; manual_retry does nothing unless blocked.
ManualRetry ==
  /\ dialog /\ dialog' = FALSE
  /\ \/ /\ policy.phase = "blocked"
        /\ policy' = RequestReload([policy EXCEPT !.attempts = 0])
        /\ reloads' = reloads \cup {[gen |-> policy'.gen, pc |-> "delay"]}
     \/ UNCHANGED <<policy, reloads>>
  /\ InBounds /\ UNCHANGED <<page, nav, browserVars>>

windowVars == <<policy, nav, reloads, dialog>>

-----------------------------------------------------------------------------
(* The document's script (webcontentRecovery.ts).                           *)

Shown(c) == page.alive /\ page.id = c.doc
SendCall(c) ==
  /\ Cardinality(calls) < limit.calls
  /\ calls' = calls \cup {[c EXCEPT !.gen = page.gen]}

Script ==
  /\ page.alive /\ page.booted
  /\ UNCHANGED <<windowVars, writer, readers, browser, panels, gone>>

AcknowledgeReady ==
  Script /\ SendCall(Call("ready", page.id)) /\ UNCHANGED page

OpenPanel ==
  /\ Script /\ page.seq < limit.panels
  /\ page' = [page EXCEPT !.seq = @ + 1, !.view = @ \cup {page.seq + 1}, !.dirty = TRUE]
  /\ UNCHANGED calls

DropPanel ==
  /\ Script
  /\ \E p \in page.view : page' = [page EXCEPT !.view = @ \ {p}, !.dirty = TRUE]
  /\ UNCHANGED calls

\* saveBrowserWorkspace: snapshots one after the other.
SaveWorkspace ==
  /\ Script /\ page.dirty /\ ~page.saving /\ page.rev < limit.saves
  /\ SendCall([Call("save", page.id) EXCEPT !.rev = page.rev + 1,
                 !.targets = page.view, !.seq = page.seq])
  /\ page' = [page EXCEPT !.rev = @ + 1, !.dirty = FALSE, !.saving = TRUE]

\* An acquire or a close waits until the snapshots are acknowledged.
UsePanel ==
  /\ Script /\ ~page.saving /\ ~page.dirty
  /\ \E p \in page.view, cmd \in {"acquire", "release"} :
       SendCall([Call(cmd, page.id) EXCEPT !.panel = p])
  /\ UNCHANGED page

-----------------------------------------------------------------------------
(* Commands.                                                               *)

Unguarded == writer = NoTransaction
Exclusive == Unguarded /\ readers = {}
Known(c) == browser.init /\ Accepts(policy, c.doc, c.gen)
Drop(c) == calls' = calls \ {c}

\* What the document does about the answer of a save that failed: the same
\* revision again, or it goes on.
Retried(c) == Shown(c) /\ calls' = calls \cup {[c EXCEPT !.pc = "sent"]} /\ UNCHANGED page
GivenUp(c) ==
  /\ calls' = calls \ {c}
  /\ page' = IF Shown(c) /\ c.cmd = "save"
             THEN [page EXCEPT !.saving = FALSE, !.dirty = TRUE] ELSE page
Failed(c) == Retried(c) \/ GivenUp(c)

HandleReady(c) ==
  /\ c.cmd = "ready" /\ Drop(c)
  /\ policy' = IF Accepts(policy, c.doc, c.gen)
               THEN [policy EXCEPT !.phase = "ready"] ELSE policy
  /\ UNCHANGED <<page, nav, reloads, dialog, writer, readers, browser, panels, gone>>

\* webcontent_frontend_boot takes its ticket before it waits for the guard.
TakeTicket(c) ==
  /\ c.cmd = "boot" /\ c.pc = "sent"
  /\ calls' = (calls \ {c}) \cup {[c EXCEPT !.pc = "ticket", !.gen = policy.gen]}
  /\ UNCHANGED <<windowVars, page, writer, readers, browser, panels, gone>>

\* boot_document up to the reset of the native surfaces.
BeginBoot(c) ==
  /\ c.cmd = "boot" /\ c.pc = "ticket" /\ Exclusive
  /\ IF policy.gen = c.gen /\ MayBoot(policy, c.doc)
     THEN /\ writer' = c /\ Drop(c)
          /\ policy' = [policy EXCEPT !.doc = c.doc]
          /\ IF policy.doc = c.doc THEN UNCHANGED <<browser, gone>>
             ELSE /\ browser' = [browser EXCEPT !.init = FALSE, !.rev = 0, !.last = NoSave,
                                                !.closed = {}, !.overflow = FALSE]
                  /\ gone' = {}
          /\ UNCHANGED page
     ELSE /\ UNCHANGED <<writer, policy, browser, gone>>
          /\ (Shown(c) /\ UNCHANGED page
                /\ calls' = (calls \ {c}) \cup {Call("boot", c.doc)})
             \/ (UNCHANGED page /\ Drop(c))
  /\ UNCHANGED <<nav, reloads, dialog, readers, panels>>

\* ... and after it; a reset that fails leaves the document uninitialised.
EndBoot ==
  /\ writer.cmd = "boot" /\ writer' = NoTransaction
  /\ IF Accepts(policy, writer.doc, writer.gen)
     THEN \/ /\ browser' = [browser EXCEPT !.init = TRUE]
             /\ page' = IF ~Shown(writer) THEN page
                        ELSE [page EXCEPT !.booted = TRUE, !.gen = writer.gen,
                                          !.view = browser.saved, !.seq = browser.seq]
             /\ UNCHANGED calls
          \/ /\ Shown(writer) /\ UNCHANGED <<browser, page>>
             /\ calls' = calls \cup {Call("boot", writer.doc)}
     ELSE UNCHANGED <<browser, page, calls>>
  /\ UNCHANGED <<windowVars, readers, panels, gone>>

\* browser_surface_acquire: the identity must have been saved.
BeginAcquire(c) ==
  /\ c.cmd = "acquire" /\ Unguarded /\ Drop(c)
  /\ readers' = IF Known(c) /\ c.panel \in browser.saved
                THEN readers \cup {c} ELSE readers
  /\ UNCHANGED <<windowVars, page, writer, browser, panels, gone>>

EndAcquire(c) ==
  /\ readers' = readers \ {c}
  /\ panels' \in {panels, panels \cup {c.panel}}
  /\ UNCHANGED <<windowVars, page, calls, writer, browser, gone>>

ClosePanel(c) ==
  /\ IF Known(c) /\ c.panel \in panels
     THEN /\ writer' = [c EXCEPT !.pc = "closed"]
          /\ panels' = panels \ {c.panel} /\ gone' = gone \cup {c.panel}
     ELSE UNCHANGED <<writer, panels, gone>>
  /\ UNCHANGED <<windowVars, page, readers, browser>>

\* Mutant: a close shares the guard with acquires.
BeginReleaseShared(c) ==
  c.cmd = "release" /\ Unguarded /\ Drop(c) /\ ClosePanel(c)

\* browser_surface_release with the disposition close.
BeginRelease(c) ==
  c.cmd = "release" /\ Exclusive /\ Drop(c) /\ ClosePanel(c)

\* forget_closed_browser_target.
Forget(b, p) ==
  LET room == Cardinality(b.closed) < MaxTombstones \/ p \in b.closed
  IN  [b EXCEPT !.closed = IF room THEN @ \cup {p} ELSE @,
                !.overflow = @ \/ ~room,
                !.saved = @ \ {p}]

EndRelease ==
  /\ writer.cmd = "release" /\ writer' = NoTransaction
  /\ browser' = Forget(browser, writer.panel)
  /\ page' = IF Shown(writer)
             THEN [page EXCEPT !.view = @ \ {writer.panel}, !.dirty = TRUE] ELSE page
  /\ UNCHANGED <<windowVars, calls, readers, panels, gone>>

\* save_browser_workspace_with_cleanup, up to the panels it has to close.
BeginSave(c) ==
  /\ c.cmd = "save" /\ c.pc = "sent" /\ Exclusive
  /\ IF Known(c) /\ c.rev > browser.rev /\ ~browser.overflow
     THEN /\ writer' = [c EXCEPT !.pc = "close", !.panel = 0] /\ Drop(c)
          /\ UNCHANGED page
     ELSE /\ UNCHANGED writer
          /\ IF /\ Known(c) /\ c.rev = browser.rev
                /\ browser.last = [targets |-> c.targets, seq |-> c.seq]
             THEN Drop(c) /\ page' = IF Shown(c) THEN [page EXCEPT !.saving = FALSE] ELSE page
             ELSE Failed(c)
  /\ UNCHANGED <<windowVars, readers, browser, panels, gone>>

Removed == browser.saved \ writer.targets

\* One removed panel: closed natively, then forgotten, before the next.  A panel
\* without a native instance is left to the new snapshot.
CloseRemoved ==
  /\ writer.cmd = "save" /\ writer.pc = "close"
  /\ UNCHANGED <<windowVars, readers>>
  /\ \/ \E p \in Removed \cap panels :
          /\ panels' = panels \ {p} /\ gone' = gone \cup {p}
          /\ writer' = [writer EXCEPT !.pc = "forget", !.panel = p]
          /\ UNCHANGED <<page, calls, browser>>
     \/ /\ Removed \cap panels # {}
        /\ writer' = NoTransaction /\ Failed(writer)
        /\ UNCHANGED <<browser, panels, gone>>
     \/ /\ Removed \cap panels = {}
        /\ writer' = [writer EXCEPT !.pc = "store"]
        /\ UNCHANGED <<page, calls, browser, panels, gone>>

ForgetRemoved ==
  /\ writer.cmd = "save" /\ writer.pc = "forget"
  /\ browser' = Forget(browser, writer.panel)
  /\ writer' = [writer EXCEPT !.pc = "close", !.panel = 0]
  /\ UNCHANGED <<windowVars, page, calls, readers, panels, gone>>

\* Mutant: the snapshot is stored as it came.
StoredAsSent(b, c) ==
  [b EXCEPT !.last = [targets |-> c.targets, seq |-> c.seq],
            !.saved = c.targets, !.seq = c.seq, !.rev = c.rev]

\* A panel closed while the snapshot was under way is not brought back.
Stored(b, c) ==
  [b EXCEPT !.last = [targets |-> c.targets, seq |-> c.seq],
            !.saved = c.targets \ b.closed, !.seq = c.seq, !.rev = c.rev]

EndSave ==
  /\ writer.cmd = "save" /\ writer.pc = "store"
  /\ writer' = NoTransaction
  /\ IF Accepts(policy, writer.doc, writer.gen) /\ ~browser.overflow
     THEN /\ browser' = Stored(browser, writer)
          /\ page' = IF Shown(writer) THEN [page EXCEPT !.saving = FALSE] ELSE page
          /\ UNCHANGED calls
     ELSE UNCHANGED browser /\ Failed(writer)
  /\ UNCHANGED <<windowVars, readers, panels, gone>>

-----------------------------------------------------------------------------
WebThreads ==
  \E w \in reloads :
    \/ PostReload(w) \/ BeginReload(w) \/ Reload(w)
    \/ DispatchExpires(w) \/ WatchExpires(w)

WebScript ==
  AcknowledgeReady \/ OpenPanel \/ DropPanel \/ SaveWorkspace \/ UsePanel

WebCommands ==
  \/ \E c \in calls :
       \/ HandleReady(c) \/ TakeTicket(c) \/ BeginBoot(c)
       \/ BeginAcquire(c) \/ BeginRelease(c) \/ BeginSave(c)
  \/ \E c \in readers : EndAcquire(c)
  \/ EndBoot \/ EndRelease \/ CloseRemoved \/ ForgetRemoved \/ EndSave

WebNext ==
  /\ \/ PageStarts \/ ContentTerminated \/ AttemptAges \/ ManualRetry
     \/ WebThreads \/ WebScript \/ WebCommands
  /\ UNCHANGED limit

WebSpec == WebInit /\ [][WebNext]_webVars

-----------------------------------------------------------------------------
(* Properties.                                                             *)

\* A native panel outlives the document that opened it, so the workspace the next
\* document boots from names every live panel, whatever was closed, saved or
\* reloaded in between: none is left that no document can reach.
PanelsAreSaved == panels \subseteq browser.saved

\* A panel a document has closed does not come back in the workspace, although
\* snapshots taken before the close may be stored after it and there is no room
\* for more than MaxTombstones tombstones; only the transaction that closed it has
\* not caught up.
ClosedStaysClosed ==
  gone \cap browser.saved \subseteq {writer.panel}

\* While the policy waits to reload the window there is a thread that will do it
\* for this very generation, through expired dispatches, late closures, duplicate
\* terminations and retries; otherwise the window would stay dead without a word.
WaitingIsServed ==
  policy.phase = "waiting" =>
    \E w \in reloads : w.gen = policy.gen /\ w.pc \in {"delay", "posted"}

\* Finding: the document the policy has registered is the one in the window, so
\* that a document of an earlier load never keeps the present one from booting.
RegisteredIsShown == policy.doc \in {0, page.id}
=============================================================================
