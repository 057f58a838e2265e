------------------------- MODULE NativeSession_proofs -------------------------
(***************************************************************************)
(* Proofs about NativeSession, for any number of messages and dispatchers  *)
(* and for every scenario, faults included: no prompt is lost, a claimed   *)
(* head has an owner, host and helper agree on the foreground.  For those  *)
(* scenarios in which every write ends known the session implements        *)
(* PromptDelivery.                                                         *)
(***************************************************************************)
EXTENDS NativeSession, InputQueueLemmas, FiniteSetTheorems

-----------------------------------------------------------------------------
(* The coordinator.  Of its record only the command that owns the          *)
(* foreground matters here.                                                *)

CoordFields ==
  {"inc", "gen", "epoch", "conv", "adapter", "canSteer", "active", "steer",
   "lastTerminal", "lastReset", "settings", "perm", "interactive",
   "protocolError", "adjudicated", "quiet"}
ActiveFields == {"cmd", "attempt", "phase", "inc", "gen"}

CoordOK(k) ==
  /\ DOMAIN k = CoordFields
  /\ DOMAIN k.active = ActiveFields

\* The owner of the foreground stays.
Keeps(k, r) == CoordOK(r) /\ r.active.cmd = k.active.cmd

\* Nobody owns the foreground any more.
Frees(r) == CoordOK(r) /\ r.active.cmd = 0

\* The building blocks.
LEMMA Blocks ==
  ASSUME NEW k, CoordOK(k), NEW p, NEW b, NEW gen
  PROVE  /\ Keeps(k, k)
         /\ Keeps(k, Bump(k))
         /\ Keeps(k, SetPhase(k, p))
         /\ Keeps(k, Bound(k, gen))
         /\ Keeps(k, [k EXCEPT !.protocolError = b])
         /\ Keeps(k, [k EXCEPT !.adapter = p, !.protocolError = b])
<1>1. Keeps(k, k) /\ Keeps(k, Bump(k))
  BY DEF Keeps, CoordOK, CoordFields, ActiveFields, Bump
<1>2. Keeps(k, SetPhase(k, p))
  BY DEF Keeps, CoordOK, CoordFields, ActiveFields, SetPhase
<1>3. Keeps(k, Bound(k, gen))
  BY DEF Keeps, CoordOK, CoordFields, ActiveFields, Bound
<1>4. /\ Keeps(k, [k EXCEPT !.protocolError = b])
      /\ Keeps(k, [k EXCEPT !.adapter = p, !.protocolError = b])
  BY DEF Keeps, CoordOK, CoordFields, ActiveFields
<1>. QED  BY <1>1, <1>2, <1>3, <1>4

LEMMA KeepsTwice ==
  ASSUME NEW k, NEW r, NEW s, Keeps(k, r), Keeps(r, s)
  PROVE  Keeps(k, s)
BY DEF Keeps

LEMMA Poisons ==
  ASSUME NEW k, CoordOK(k)
  PROVE  Keeps(k, Poison(k).c)
<1>. DEFINE a == [k EXCEPT !.adapter = "Poisoned", !.protocolError = TRUE]
<1>1. Keeps(k, a)
  BY Blocks
<1>. HIDE DEF a
<1>2. Keeps(a, SetPhase(a, "ProtocolError"))
  BY <1>1, Blocks DEF Keeps
<1>3. Keeps(SetPhase(a, "ProtocolError"), Bump(SetPhase(a, "ProtocolError")))
  BY <1>2, Blocks DEF Keeps
<1>4. Keeps(k, Bump(SetPhase(a, "ProtocolError")))
  BY <1>1, <1>2, <1>3, KeepsTwice
<1>. QED  BY <1>4 DEF Poison, a

LEMMA Releases ==
  ASSUME NEW k, CoordOK(k)
  PROVE  /\ Frees(ReleaseActive(k))
         /\ Frees([ReleaseActive(k) EXCEPT !.protocolError = FALSE])
<1>1. Frees(ReleaseActive(k))
  <2>1. CASE ~HasActive(k)
    BY <2>1 DEF ReleaseActive, Frees, HasActive
  <2>2. CASE HasActive(k)
    BY <2>2 DEF ReleaseActive, Frees, HasActive, CoordOK, CoordFields, ActiveFields,
                Bump, NoActive
  <2>. QED  BY <2>1, <2>2
<1>. DEFINE r == ReleaseActive(k)
<1>2. CoordOK(r) /\ r.active.cmd = 0
  BY <1>1 DEF Frees
<1>. HIDE DEF r
<1>3. Frees([r EXCEPT !.protocolError = FALSE])
  BY <1>2 DEF Frees, CoordOK, CoordFields, ActiveFields
<1>. QED  BY <1>1, <1>3 DEF r

\* What a host thread does to the record without judging the command.
LEMMA HostMethods ==
  ASSUME NEW k, CoordOK(k), NEW o, NEW inc, NEW cmd
  PROVE  /\ Keeps(k, Project(k, o))
         /\ Keeps(k, MarkUncertain(k, inc, cmd))
         /\ Keeps(k, NoteIncarnation(k, inc))
         /\ Keeps(k, NoteRetired(k, inc))
         /\ Keeps(k, Adopt(k, inc))
<1>1. Keeps(k, Project(k, o)) /\ Keeps(k, Adopt(k, inc))
  BY Blocks DEF Keeps, CoordOK, CoordFields, ActiveFields, Project, Adopt
<1>2. Keeps(k, MarkUncertain(k, inc, cmd))
  BY Blocks DEF Keeps, CoordOK, CoordFields, ActiveFields, MarkUncertain, Bump
<1>3. Keeps(k, Doubt(k))
  BY Blocks DEF Keeps, CoordOK, CoordFields, ActiveFields, Doubt
<1>4. Keeps(k, NoteIncarnation(k, inc))
  <2>. DEFINE d == Doubt(k)
              e == [d EXCEPT !.settings = Reconcile(@), !.perm = Reconcile(@),
                             !.interactive = FailReply(@), !.inc = inc, !.gen = 0,
                             !.adapter = "Negotiating", !.canSteer = FALSE,
                             !.adjudicated = FALSE]
  <2>1. CoordOK(d) /\ d.active.cmd = k.active.cmd
    BY <1>3 DEF Keeps
  <2>2. k.inc # inc => NoteIncarnation(k, inc) = Bump(e)
    BY DEF NoteIncarnation
  <2>. HIDE DEF d
  <2>3. Keeps(d, e)
    BY <2>1 DEF Keeps, CoordOK, CoordFields, ActiveFields
  <2>. HIDE DEF e
  <2>4. Keeps(k, Bump(e))
    BY <2>1, <2>3, Blocks, KeepsTwice DEF Keeps
  <2>. QED  BY <2>2, <2>4, Blocks DEF NoteIncarnation
<1>5. Keeps(k, NoteRetired(k, inc))
  <2>. DEFINE d == IF k.active.inc = inc THEN Doubt(k) ELSE k
              e == [d EXCEPT
                     !.settings = IF @.inc = inc THEN Reconcile(@) ELSE @,
                     !.perm = IF @.inc = inc THEN Reconcile(@) ELSE @,
                     !.interactive = IF @.inc = inc THEN FailReply(@) ELSE @,
                     !.inc = 0, !.gen = 0, !.adapter = "Negotiating",
                     !.canSteer = FALSE, !.adjudicated = FALSE]
  <2>1. CoordOK(d) /\ d.active.cmd = k.active.cmd
    BY <1>3, Blocks DEF Keeps
  <2>2. NoteRetired(k, inc) = k \/ NoteRetired(k, inc) = Bump(e)
    BY DEF NoteRetired
  <2>. HIDE DEF d
  <2>3. Keeps(d, e)
    BY <2>1 DEF Keeps, CoordOK, CoordFields, ActiveFields
  <2>. HIDE DEF e
  <2>4. Keeps(k, Bump(e))
    BY <2>1, <2>3, Blocks, KeepsTwice DEF Keeps
  <2>. QED  BY <2>2, <2>4, Blocks
<1>. QED  BY <1>1, <1>2, <1>4, <1>5

\* A prompt is admitted only into an empty foreground.
LEMMA Admission ==
  ASSUME NEW k, CoordOK(k), NEW inc, NEW cmd, NEW attempt
  PROVE  IF AdmissionVerdict(k, inc) = "ok"
         THEN k.active.cmd = 0 /\ CoordOK(Admit(k, inc, cmd, attempt))
              /\ Admit(k, inc, cmd, attempt).active.cmd = cmd
         ELSE Keeps(k, Admit(k, inc, cmd, attempt))
<1>. DEFINE v == AdmissionVerdict(k, inc)
            a == Adopt(k, inc)
            b == [a EXCEPT !.active = [cmd |-> cmd, attempt |-> attempt,
                                       phase |-> "Dispatching", inc |-> inc, gen |-> 0],
                           !.adjudicated = FALSE]
<1>1. v = "ok" => k.active.cmd = 0
  BY DEF AdmissionVerdict, HasActive
<1>2. Keeps(k, a)
  BY HostMethods
<1>3. /\ v = "StaleIncarnation" => Admit(k, inc, cmd, attempt) = k
      /\ v = "ok" => Admit(k, inc, cmd, attempt) = Bump(b)
      /\ v \notin {"StaleIncarnation", "ok"} => Admit(k, inc, cmd, attempt) = a
  BY DEF Admit
<1>. HIDE DEF v, a
<1>4. CoordOK(b) /\ b.active.cmd = cmd
  BY <1>2 DEF Keeps, CoordOK, CoordFields, ActiveFields
<1>. HIDE DEF b
<1>5. CoordOK(Bump(b)) /\ Bump(b).active.cmd = cmd
  BY <1>4, Blocks DEF Keeps
<1>6. CASE v = "ok"
  BY <1>1, <1>3, <1>5, <1>6 DEF v
<1>7. CASE v # "ok"
  BY <1>2, <1>3, <1>7, Blocks DEF v
<1>. QED  BY <1>6, <1>7

\* The methods by which a thread gives a command up.
LEMMA GivenUp ==
  ASSUME NEW k, CoordOK(k), NEW inc, NEW cmd
  PROVE  /\ CanAbandonAdmission(k, inc, cmd) => k.active.cmd = cmd
         /\ CanAbandonNotStarted(k, inc, cmd) => k.active.cmd = cmd
         /\ Frees(ReleaseActive(k)) /\ Frees(AbandonNotStarted(k))
         /\ CanAbandonRetired(k, cmd) =>
              k.active.cmd = cmd /\ Frees(AbandonRetired(k, cmd).c)
BY Releases DEF CanAbandonAdmission, CanAbandonNotStarted, CanAbandonRetired,
                AbandonNotStarted, AbandonRetired, Released, OwnedBy

LineKinds == {"meta", "metaFull", "ready", "settled", "admitted", "rejected",
              "abandoned", "mismatch", "terminal"}

\* A line of the helper frees the foreground only if it ends the command that owns
\* it, and the pump remembers that.
LEMMA LineJudged ==
  ASSUME NEW k, CoordOK(k), NEW l, l.kind \in LineKinds, l.kind # "rejected", NEW inc,
         NEW r, r = LineEffect(k, l, inc)
  PROVE  /\ CoordOK(r.c)
         /\ \/ r.c.active.cmd = k.active.cmd
            \/ /\ r.c.active.cmd = 0 /\ k.active.cmd = l.cmd
               /\ l.kind \in {"abandoned", "terminal"} /\ r.decision = "Released"
<1>. DEFINE b == Bound(k, QueryGeneration)
            Good(s) == /\ CoordOK(s.c)
                       /\ \/ s.c.active.cmd = k.active.cmd
                          \/ /\ s.c.active.cmd = 0 /\ k.active.cmd = l.cmd
                             /\ l.kind \in {"abandoned", "terminal"}
                             /\ s.decision = "Released"
<1>1. ASSUME NEW s, Keeps(k, s.c) PROVE Good(s)
  BY <1>1 DEF Keeps
<1>2. Keeps(k, b)
  BY Blocks
<1>3. Good(Ignored(k))
  BY <1>1, Blocks DEF Ignored
<1>4. Good(Poison(k))
  BY <1>1, Poisons
<1>5. CASE l.kind = "admitted"
  <2>1. r \in {Ignored(k), Poison(k), Updated(Bump(SetPhase(b, "HelperAdmitted")))}
    BY <1>5 DEF LineEffect, NoteAdmitted, Correlated
  <2>. HIDE DEF b
  <2>2. Keeps(k, SetPhase(b, "HelperAdmitted"))
    BY <1>2, Blocks, KeepsTwice DEF Keeps
  <2>. DEFINE p == SetPhase(b, "HelperAdmitted")
  <2>. HIDE DEF p
  <2>5. Keeps(k, Bump(p))
    BY <2>2, Blocks, KeepsTwice DEF Keeps, p
  <2>3. Good(Updated(Bump(SetPhase(b, "HelperAdmitted"))))
    BY <1>1, <2>5 DEF Updated, p
  <2>. HIDE DEF Good
  <2>4. Good(r)
    BY <1>3, <1>4, <2>1, <2>3
  <2>. QED  BY <2>4 DEF Good
<1>6. CASE l.kind = "mismatch"
  <2>. DEFINE p == SetPhase(b, "ProtocolError")
              q == [p EXCEPT !.protocolError = TRUE]
  <2>1. r \in {Ignored(k), Poison(k), [c |-> b, decision |-> "ProtocolError"],
               Updated(Bump(q))}
    BY <1>6 DEF LineEffect, NoteMismatch, Correlated
  <2>. HIDE DEF b
  <2>2. Keeps(k, p)
    BY <1>2, Blocks, KeepsTwice DEF Keeps
  <2>. HIDE DEF p
  <2>3. Keeps(k, q)
    BY <2>2, Blocks, KeepsTwice DEF Keeps
  <2>. HIDE DEF q
  <2>4. Keeps(k, Bump(q))
    BY <2>3, Blocks, KeepsTwice DEF Keeps
  <2>5. Good(Updated(Bump(q))) /\ Good([c |-> b, decision |-> "ProtocolError"])
    BY <1>1, <1>2, <2>4 DEF Updated
  <2>. HIDE DEF Good
  <2>6. Good(r)
    BY <1>3, <1>4, <2>1, <2>5
  <2>. QED  BY <2>6 DEF Good
<1>7. CASE l.kind = "abandoned" \/ l.kind = "terminal"
  <2>. DEFINE f == ReleaseActive(b)
              g == [f EXCEPT !.protocolError = FALSE]
  <2>1. Frees(f) /\ Frees(g)
    BY <1>2, Releases DEF Keeps
  <2>2. Keeps(b, Poison(b).c)
    BY <1>2, Poisons DEF Keeps
  <2>3. \/ r \in {Ignored(k), Poison(k), Poison(b)}
        \/ r \in {Released(f), Released(g)} /\ k.active.cmd = l.cmd
    BY <1>7 DEF LineEffect, NoteAbandoned, NoteSdkTerminal, Correlated, Binding, OwnedBy
  <2>. HIDE DEF b, f, g
  <2>4. Good(Poison(b))
    BY <1>1, <1>2, <2>2, KeepsTwice
  <2>5. k.active.cmd = l.cmd => Good(Released(f)) /\ Good(Released(g))
    BY <1>7, <2>1 DEF Released, Frees
  <2>. HIDE DEF Good
  <2>6. Good(r)
    BY <1>3, <1>4, <2>3, <2>4, <2>5
  <2>. QED  BY <2>6 DEF Good
<1>8. CASE l.kind \in {"ready", "settled"}
  BY <1>3, <1>8 DEF LineEffect
<1>9. CASE l.kind \in {"meta", "metaFull"}
  <2>1. PICK caps : r = NoteSessionMeta(k, inc, 1, caps, QueryGeneration)
    BY <1>9 DEF LineEffect
  <2>2. Good(NoteSessionMeta(k, inc, 1, caps, QueryGeneration))
    <3>. DEFINE advance == QueryGeneration # 0 /\ k.gen # 0 /\ QueryGeneration > k.gen
                g == [k EXCEPT !.gen = IF QueryGeneration = 0 THEN @ ELSE QueryGeneration,
                               !.adapter = IF advance THEN "Negotiating" ELSE @,
                               !.canSteer = IF advance THEN FALSE ELSE @]
                kind == IF caps = "legacy" THEN "LegacySerial" ELSE "FullLifecycle"
                n == IF caps = "none" \/ g.adapter = "Poisoned" THEN g
                     ELSE [g EXCEPT !.adapter = kind, !.canSteer = caps = "full+steer"]
                m == [n EXCEPT !.conv = 1, !.epoch = @ + 1]
    <3>1. NoteSessionMeta(k, inc, 1, caps, QueryGeneration) \in
            {Ignored(k), Poison(k), Poison(g), Updated(Bump(m)), Updated(Bump(n))}
      BY DEF NoteSessionMeta
    <3>2. Keeps(k, g)
      BY DEF Keeps, CoordOK, CoordFields, ActiveFields
    <3>. HIDE DEF g
    <3>3. Keeps(k, n)
      BY <3>2 DEF Keeps, CoordOK, CoordFields, ActiveFields
    <3>. HIDE DEF n
    <3>4. Keeps(k, m)
      BY <3>3 DEF Keeps, CoordOK, CoordFields, ActiveFields
    <3>. HIDE DEF m
    <3>5. Keeps(k, Bump(m)) /\ Keeps(k, Bump(n)) /\ Keeps(k, Poison(g).c)
      BY <3>2, <3>3, <3>4, Blocks, Poisons, KeepsTwice DEF Keeps
    <3>6. Good(Updated(Bump(m))) /\ Good(Updated(Bump(n))) /\ Good(Poison(g))
      BY <1>1, <3>5 DEF Updated
    <3>. HIDE DEF Good
    <3>. QED  BY <1>3, <1>4, <3>1, <3>6
  <2>. QED  BY <2>1, <2>2
<1>. QED  BY <1>5, <1>6, <1>7, <1>8, <1>9 DEF LineKinds

-----------------------------------------------------------------------------
(* The helper.  A command it names is in one of its fields or in a pipe; a *)
(* command it owns has the foreground, or waits for it.                    *)

CommandType(N) == [kind : {"prompt", "interrupt"}, cmd : N, msgs : Seq(Msgs)]
LineTexts == {"none", "initializing", "ready", "processing"}
LineType(N) == [kind : LineKinds, cmd : N, status : LineTexts]
HelperType(N) ==
  [up : BOOLEAN, inc : Nat, init : BOOLEAN, mode : {"negotiating", "full"},
   pend : [cmd : N, msgs : Seq(Msgs)], fg : N, sdk : Seq(N),
   inbox : Seq(CommandType(N)), outbox : Seq(LineType(N))]

Prompt(x) == x.kind = "prompt"
Said(l, c) == l.kind \in {"admitted", "terminal"} /\ l.cmd = c

Named(h, c) ==
  \/ h.fg = c \/ h.pend.cmd = c \/ c \in ToSet(h.sdk)
  \/ \E x \in ToSet(h.inbox) : x.cmd = c
  \/ \E l \in ToSet(h.outbox) : l.cmd = c

Owns(h, c) ==
  /\ c # 0
  /\ \/ h.fg = c \/ h.pend.cmd = c
     \/ \E x \in ToSet(h.inbox) : Prompt(x) /\ x.cmd = c

\* The prompts on their way to the SDK, and the commands that reached it.
HasPrompt(h, c, ms) ==
  \/ h.pend.cmd = c /\ h.pend.msgs = ms
  \/ \E x \in ToSet(h.inbox) : Prompt(x) /\ x.cmd = c /\ x.msgs = ms
Taken(h, c) ==
  c \in ToSet(h.sdk) \/ \E l \in ToSet(h.outbox) : Said(l, c)

\* A prompt in the pipe stands behind no other one, and behind no interrupt of
\* its own command.
PipeInv(s) ==
  \A i, j \in DOMAIN s :
    i < j /\ Prompt(s[j]) => ~Prompt(s[i]) /\ s[i].cmd # s[j].cmd

OneTurn(h) ==
  /\ h.fg # 0 => h.pend.cmd = 0
  /\ h.fg # 0 \/ h.pend.cmd # 0 => \A x \in ToSet(h.inbox) : ~Prompt(x)
  /\ \A x \in ToSet(h.inbox) : Prompt(x) => x.cmd # 0
  /\ PipeInv(h.inbox)

\* It rejects nothing, and what it calls ended it no longer owns.
SaysTrue(h) ==
  \A l \in ToSet(h.outbox) :
    /\ l.kind # "rejected"
    /\ l.kind \in {"abandoned", "terminal"} => ~Owns(h, l.cmd)

\* What the SDK was given is not given again.
SdkInv(h) ==
  \A c \in ToSet(h.sdk) :
    /\ c # 0 /\ h.pend.cmd # c
    /\ \A x \in ToSet(h.inbox) : Prompt(x) => x.cmd # c

HelperInv(h) == OneTurn(h) /\ SaysTrue(h) /\ SdkInv(h)

\* What the helper does by itself: it names and owns nothing new, and only the
\* commands in T reach the SDK.
Evolves(N, h, g, T) ==
  /\ g \in HelperType(N)
  /\ HelperInv(g)
  /\ \A c : Named(g, c) => c = 0 \/ Named(h, c)
  /\ \A c : Owns(g, c) => Owns(h, c)
  /\ \A c, ms : c # 0 /\ HasPrompt(g, c, ms) => HasPrompt(h, c, ms)
  /\ \A c : Taken(g, c) => Taken(h, c) \/ c \in T

LEMMA Members ==
  ASSUME NEW S, NEW s \in Seq(S)
  PROVE  /\ ToSet(s) \subseteq S
         /\ \A t \in Seq(S) : s \o t \in Seq(S) /\ ToSet(s \o t) = ToSet(s) \cup ToSet(t)
         /\ \A x \in S : Append(s, x) \in Seq(S) /\ ToSet(Append(s, x)) = ToSet(s) \cup {x}
         /\ s # <<>> => /\ Head(s) \in ToSet(s)
                        /\ Tail(s) \in Seq(S)
                        /\ ToSet(Tail(s)) \subseteq ToSet(s)
<1>1. Len(s) \in Nat /\ DOMAIN s = 1..Len(s) /\ \A i \in 1..Len(s) : s[i] \in S
  BY LenProperties, ElementOfSeq
<1>2. ToSet(s) \subseteq S
  BY <1>1 DEF ToSet
<1>3. ASSUME NEW t \in Seq(S)
      PROVE  s \o t \in Seq(S) /\ ToSet(s \o t) = ToSet(s) \cup ToSet(t)
  <2>1. Len(t) \in Nat /\ DOMAIN t = 1..Len(t)
    BY LenProperties
  <2>2. /\ s \o t \in Seq(S) /\ Len(s \o t) = Len(s) + Len(t)
        /\ \A i \in 1..(Len(s) + Len(t)) :
             (s \o t)[i] = IF i <= Len(s) THEN s[i] ELSE t[i - Len(s)]
    BY ConcatProperties
  <2>3. DOMAIN (s \o t) = 1..(Len(s) + Len(t))
    BY <2>2, LenProperties
  <2>. DEFINE u == s \o t
  <2>. HIDE DEF u
  <2>4. \A i \in DOMAIN u : u[i] \in ToSet(s) \cup ToSet(t)
    <3>. TAKE i \in DOMAIN u
    <3>1. CASE i <= Len(s)
      BY <1>1, <2>1, <2>2, <2>3, <3>1 DEF ToSet, u
    <3>2. CASE ~(i <= Len(s))
      <4>1. i - Len(s) \in DOMAIN t /\ u[i] = t[i - Len(s)]
        BY <1>1, <2>1, <2>2, <2>3, <3>2 DEF u
      <4>. QED  BY <4>1 DEF ToSet
    <3>. QED  BY <3>1, <3>2
  <2>5. \A i \in DOMAIN s : i \in DOMAIN u /\ u[i] = s[i]
    BY <1>1, <2>1, <2>2, <2>3 DEF u
  <2>6. \A i \in DOMAIN t : i + Len(s) \in DOMAIN u /\ u[i + Len(s)] = t[i]
    BY <1>1, <2>1, <2>2, <2>3 DEF u
  <2>7. ToSet(u) = ToSet(s) \cup ToSet(t)
    BY <2>4, <2>5, <2>6 DEF ToSet
  <2>. QED  BY <2>2, <2>7 DEF u
<1>4. ASSUME NEW x \in S
      PROVE  Append(s, x) \in Seq(S) /\ ToSet(Append(s, x)) = ToSet(s) \cup {x}
  <2>1. /\ Append(s, x) \in Seq(S) /\ Len(Append(s, x)) = Len(s) + 1
        /\ \A i \in 1..Len(s) : Append(s, x)[i] = s[i]
        /\ Append(s, x)[Len(s) + 1] = x
    BY AppendProperties
  <2>2. DOMAIN Append(s, x) = 1..(Len(s) + 1)
    BY <2>1, LenProperties
  <2>. QED  BY <1>1, <2>1, <2>2 DEF ToSet
<1>5. ASSUME s # <<>>
      PROVE  /\ Head(s) \in ToSet(s) /\ Tail(s) \in Seq(S)
             /\ ToSet(Tail(s)) \subseteq ToSet(s)
  <2>1. /\ Head(s) = s[1] /\ Tail(s) \in Seq(S) /\ Len(Tail(s)) = Len(s) - 1
        /\ \A i \in 1..Len(Tail(s)) : Tail(s)[i] = s[i + 1]
    BY <1>5, HeadTailProperties
  <2>2. Len(s) # 0 /\ DOMAIN Tail(s) = 1..(Len(s) - 1)
    BY <1>5, <2>1, EmptySeq, LenProperties
  <2>3. \A i \in DOMAIN Tail(s) : i + 1 \in DOMAIN s /\ Tail(s)[i] = s[i + 1]
    BY <1>1, <2>1, <2>2
  <2>4. 1 \in DOMAIN s
    BY <1>1, <2>2
  <2>. QED  BY <2>1, <2>3, <2>4 DEF ToSet
<1>. QED  BY <1>2, <1>3, <1>4, <1>5

LEMMA NoMembers == ToSet(<<>>) = {}
BY DEF ToSet

LEMMA LineMembers ==
  ASSUME NEW S, NEW x \in S
  PROVE  <<x>> \in Seq(S) /\ ToSet(<<x>>) = {x}
<1>1. DOMAIN <<x>> = {1} /\ <<x>>[1] = x /\ <<x>> \in Seq(S)
  OBVIOUS
<1>. QED  BY <1>1 DEF ToSet

LEMMA Pipe ==
  ASSUME NEW S, NEW s \in Seq(S), PipeInv(s)
  PROVE  /\ s # <<>> =>
              /\ PipeInv(Tail(s))
              /\ \A x \in ToSet(Tail(s)) :
                   Prompt(x) => ~Prompt(Head(s)) /\ Head(s).cmd # x.cmd
         /\ \A x \in S :
              (Prompt(x) => \A y \in ToSet(s) : ~Prompt(y) /\ y.cmd # x.cmd) =>
                PipeInv(Append(s, x))
<1>1. Len(s) \in Nat /\ DOMAIN s = 1..Len(s)
  BY LenProperties
<1>2. ASSUME s # <<>>
      PROVE  /\ PipeInv(Tail(s))
             /\ \A x \in ToSet(Tail(s)) :
                  Prompt(x) => ~Prompt(Head(s)) /\ Head(s).cmd # x.cmd
  <2>1. /\ Head(s) = s[1] /\ Tail(s) \in Seq(S) /\ Len(Tail(s)) = Len(s) - 1
        /\ \A i \in 1..Len(Tail(s)) : Tail(s)[i] = s[i + 1]
    BY <1>2, HeadTailProperties
  <2>2. Len(s) # 0 /\ DOMAIN Tail(s) = 1..(Len(s) - 1)
    BY <1>2, <2>1, EmptySeq, LenProperties
  <2>3. \A i \in DOMAIN Tail(s) : i + 1 \in DOMAIN s /\ Tail(s)[i] = s[i + 1] /\ i \in Nat /\ 1 < i + 1
    BY <1>1, <2>1, <2>2
  <2>4. 1 \in DOMAIN s
    BY <1>1, <2>2
  <2>5. PipeInv(Tail(s))
    BY <2>3 DEF PipeInv
  <2>6. ASSUME NEW x \in ToSet(Tail(s)), Prompt(x)
        PROVE  ~Prompt(Head(s)) /\ Head(s).cmd # x.cmd
    <3>1. PICK i \in DOMAIN Tail(s) : x = Tail(s)[i]
      BY DEF ToSet
    <3>2. i + 1 \in DOMAIN s /\ x = s[i + 1] /\ 1 < i + 1
      BY <2>3, <3>1
    <3>. QED  BY <2>1, <2>4, <2>6, <3>2 DEF PipeInv
  <2>. QED  BY <2>5, <2>6
<1>3. ASSUME NEW x \in S, Prompt(x) => \A y \in ToSet(s) : ~Prompt(y) /\ y.cmd # x.cmd
      PROVE  PipeInv(Append(s, x))
  <2>1. /\ Append(s, x) \in Seq(S) /\ Len(Append(s, x)) = Len(s) + 1
        /\ \A i \in 1..Len(s) : Append(s, x)[i] = s[i]
        /\ Append(s, x)[Len(s) + 1] = x
    BY AppendProperties
  <2>2. DOMAIN Append(s, x) = 1..(Len(s) + 1)
    BY <2>1, LenProperties
  <2>. DEFINE u == Append(s, x)
  <2>. SUFFICES ASSUME NEW i \in DOMAIN u, NEW j \in DOMAIN u, i < j, Prompt(u[j])
                PROVE  ~Prompt(u[i]) /\ u[i].cmd # u[j].cmd
    BY DEF PipeInv
  <2>3. i \in DOMAIN s /\ u[i] = s[i] /\ s[i] \in ToSet(s)
    BY <1>1, <2>1, <2>2 DEF ToSet
  <2>4. CASE j = Len(s) + 1
    BY <1>3, <2>1, <2>3, <2>4
  <2>5. CASE j # Len(s) + 1
    <3>1. j \in DOMAIN s /\ u[j] = s[j]
      BY <1>1, <2>1, <2>2, <2>5
    <3>. QED  BY <2>3, <3>1 DEF PipeInv
  <2>. QED  BY <2>4, <2>5
<1>. QED  BY <1>2, <1>3

LEMMA EvolvesTwice ==
  ASSUME NEW N, NEW h, NEW g, NEW f, NEW T, NEW U,
         Evolves(N, h, g, T), Evolves(N, g, f, U)
  PROVE  Evolves(N, h, f, T \cup U)
BY DEF Evolves

\* It may then tell about a command it named, which it no longer owns if the line
\* ends it.
LEMMA Emits ==
  ASSUME NEW N, NEW h, NEW T, NEW g, Evolves(N, h, g, T),
         NEW ls \in Seq(LineType(N)),
         \A l \in ToSet(ls) :
           /\ l.kind # "rejected"
           /\ l.cmd = 0 \/ Named(h, l.cmd)
           /\ l.kind \in {"abandoned", "terminal"} => ~Owns(g, l.cmd)
           /\ l.kind \in {"admitted", "terminal"} => Taken(h, l.cmd) \/ l.cmd \in T
  PROVE  Evolves(N, h, H!Emit(g, ls), T)
<1>. DEFINE f == H!Emit(g, ls)
<1>1. g \in HelperType(N) /\ HelperInv(g) /\ g.outbox \in Seq(LineType(N))
  BY DEF Evolves, HelperType
<1>2. /\ g.outbox \o ls \in Seq(LineType(N))
      /\ ToSet(g.outbox \o ls) = ToSet(g.outbox) \cup ToSet(ls)
  BY <1>1, Members
<1>3. /\ f \in HelperType(N) /\ f.outbox = g.outbox \o ls
      /\ f.fg = g.fg /\ f.pend = g.pend /\ f.sdk = g.sdk /\ f.inbox = g.inbox
  BY <1>1, <1>2 DEF HelperType, H!Emit
<1>. HIDE DEF f
<1>4. \A c : Owns(f, c) <=> Owns(g, c)
  BY <1>3 DEF Owns
<1>5. HelperInv(f)
  BY <1>1, <1>2, <1>3, <1>4 DEF HelperInv, OneTurn, SaysTrue, SdkInv
<1>6. \A c : Named(f, c) => c = 0 \/ Named(h, c)
  <2>1. \A c : Named(f, c) => Named(g, c) \/ \E l \in ToSet(ls) : l.cmd = c
    BY <1>2, <1>3 DEF Named
  <2>. QED  BY <2>1 DEF Evolves
<1>7. \A c, ms : HasPrompt(f, c, ms) <=> HasPrompt(g, c, ms)
  BY <1>3 DEF HasPrompt
<1>8. \A c : Taken(f, c) => Taken(h, c) \/ c \in T
  <2>1. \A c : Taken(f, c) =>
          Taken(g, c) \/ \E l \in ToSet(ls) : l.kind \in {"admitted", "terminal"} /\ l.cmd = c
    BY <1>2, <1>3 DEF Taken, Said
  <2>. QED  BY <2>1 DEF Evolves
<1>9. Evolves(N, h, f, T)
  BY <1>3, <1>4, <1>5, <1>6, <1>7, <1>8 DEF Evolves
<1>. QED  BY <1>9 DEF f

\* The prompt that waits goes to the SDK and takes the foreground.
LEMMA Admits ==
  ASSUME NEW N, 0 \in N, NEW h \in HelperType(N), HelperInv(h), h.pend.cmd # 0
  PROVE  Evolves(N, h, H!Enqueue([h EXCEPT !.pend = H!NoPrompt], h.pend), {h.pend.cmd})
<1>. DEFINE c == h.pend.cmd
            g == [h EXCEPT !.pend = H!NoPrompt, !.fg = c, !.sdk = Append(@, c)]
            l == H!Line("admitted", c, "processing")
<1>1. H!Enqueue([h EXCEPT !.pend = H!NoPrompt], h.pend) = H!Emit(g, <<l>>)
  BY DEF H!Enqueue, H!Emit, HelperType
<1>2. c \in N /\ c # 0
  BY DEF HelperType
<1>3. Append(h.sdk, c) \in Seq(N) /\ ToSet(Append(h.sdk, c)) = ToSet(h.sdk) \cup {c}
  BY <1>2, Members DEF HelperType
<1>. HIDE DEF c
<1>4. <<>> \in Seq(Msgs)
  BY EmptySeq
<1>5. /\ g \in HelperType(N) /\ g.fg = c /\ g.pend.cmd = 0
      /\ g.sdk = Append(h.sdk, c) /\ g.inbox = h.inbox /\ g.outbox = h.outbox
  BY <1>2, <1>3, <1>4 DEF HelperType, H!NoPrompt
<1>. HIDE DEF g
<1>6. h.pend.cmd = c
  BY DEF c
<1>7. h.fg = 0 /\ \A x \in ToSet(h.inbox) : ~Prompt(x)
  BY <1>2, <1>6 DEF HelperInv, OneTurn
<1>8. \A d : Owns(g, d) => Owns(h, d)
  BY <1>2, <1>5, <1>6, <1>7 DEF Owns
<1>9. HelperInv(g)
  <2>1. OneTurn(g)
    BY <1>5, <1>7 DEF OneTurn, HelperInv
  <2>2. SaysTrue(g)
    BY <1>5, <1>8 DEF SaysTrue, HelperInv
  <2>3. SdkInv(g)
    BY <1>2, <1>3, <1>5, <1>7 DEF SdkInv, HelperInv
  <2>. QED  BY <2>1, <2>2, <2>3 DEF HelperInv
<1>10. \A d : Named(g, d) => d = 0 \/ Named(h, d)
  BY <1>3, <1>5, <1>6 DEF Named
<1>11. \A d, ms : d # 0 /\ HasPrompt(g, d, ms) => HasPrompt(h, d, ms)
  BY <1>5, <1>7 DEF HasPrompt
<1>12. \A d : Taken(g, d) => Taken(h, d) \/ d \in {c}
  BY <1>3, <1>5 DEF Taken
<1>13. Evolves(N, h, g, {c})
  BY <1>5, <1>8, <1>9, <1>10, <1>11, <1>12 DEF Evolves
<1>14. l \in LineType(N) /\ l.kind = "admitted" /\ l.cmd = c
  BY <1>2 DEF H!Line, LineType, LineKinds, LineTexts
<1>15. Named(h, c)
  BY <1>6 DEF Named
<1>. HIDE DEF l
<1>16. Evolves(N, h, H!Emit(g, <<l>>), {c})
  <2>1. <<l>> \in Seq(LineType(N)) /\ ToSet(<<l>>) = {l}
    BY <1>14, LineMembers
  <2>. QED  BY <1>13, <1>14, <1>15, <2>1, Emits
<1>. QED  BY <1>1, <1>16 DEF c

\* Nothing but a field that says nothing about commands changes.
LEMMA Restates ==
  ASSUME NEW N, 0 \in N, NEW h \in HelperType(N), HelperInv(h), NEW g \in HelperType(N),
         g.fg = h.fg, g.pend = h.pend, g.sdk = h.sdk, g.inbox = h.inbox,
         g.outbox = h.outbox
  PROVE  Evolves(N, h, g, {})
<1>1. \A c : Owns(g, c) <=> Owns(h, c)
  BY DEF Owns
<1>2. HelperInv(g)
  BY <1>1 DEF HelperInv, OneTurn, SaysTrue, SdkInv
<1>. QED  BY <1>1, <1>2 DEF Evolves, Named, HasPrompt, Taken

LEMMA InitSettles ==
  ASSUME NEW N, 0 \in N, NEW h \in HelperType(N), HelperInv(h), NEW i
  PROVE  Evolves(N, h, H!InitSettled(h, i),
                 IF i # 0 /\ h.pend.cmd = i THEN {i} ELSE {})
<1>. DEFINE g == [h EXCEPT !.init = TRUE]
            ls == <<H!Line("meta", 0, "none"), H!Line("ready", 0, "ready"),
                    H!Line("settled", 0, "none")>>
            r == H!Emit(g, ls)
<1>1. /\ g \in HelperType(N) /\ g.fg = h.fg /\ g.pend = h.pend /\ g.sdk = h.sdk
      /\ g.inbox = h.inbox /\ g.outbox = h.outbox
  BY DEF HelperType
<1>2. /\ ls \in Seq(LineType(N))
      /\ \A l \in ToSet(ls) : l.kind \in {"meta", "ready", "settled"} /\ l.cmd = 0
  <2>1. /\ DOMAIN ls = 1..3
        /\ \A k \in 1..3 : /\ ls[k] \in LineType(N)
                           /\ ls[k].kind \in {"meta", "ready", "settled"}
                           /\ ls[k].cmd = 0
    BY DEF H!Line, LineType, LineKinds, LineTexts
  <2>2. ls \in Seq(LineType(N))
    BY DEF H!Line, LineType, LineKinds, LineTexts
  <2>. HIDE DEF ls
  <2>. QED  BY <2>1, <2>2 DEF ToSet
<1>. HIDE DEF g, ls
<1>3. Evolves(N, h, g, {})
  BY <1>1, Restates
<1>5. Evolves(N, h, r, {})
  BY <1>2, <1>3, Emits
<1>6. H!InitSettled(h, i) = IF i # 0 /\ h.pend.cmd = i
                            THEN H!Enqueue([r EXCEPT !.pend = H!NoPrompt], h.pend)
                            ELSE r
  BY DEF H!InitSettled, r, g, ls
<1>7. r.pend = h.pend
  BY <1>1 DEF r, H!Emit, HelperType
<1>. HIDE DEF r
<1>8. CASE i # 0 /\ h.pend.cmd = i
  <2>1. Evolves(N, r, H!Enqueue([r EXCEPT !.pend = H!NoPrompt], r.pend), {i})
    BY <1>5, <1>7, <1>8, Admits DEF Evolves
  <2>. QED  BY <1>5, <1>6, <1>7, <1>8, <2>1, EvolvesTwice
<1>9. CASE ~(i # 0 /\ h.pend.cmd = i)
  BY <1>5, <1>6, <1>9
<1>. QED  BY <1>8, <1>9

LEMMA Consumes ==
  ASSUME NEW N, 0 \in N, NEW h \in HelperType(N), HelperInv(h), H!CanConsume(h)
  PROVE  Evolves(N, h, H!Consume(h), {h.pend.cmd})
BY Admits DEF H!Consume, H!CanConsume

LEMMA Negotiates ==
  ASSUME NEW N, 0 \in N, NEW h \in HelperType(N), HelperInv(h)
  PROVE  Evolves(N, h, H!Negotiate(h), {})
<1>. DEFINE g == [h EXCEPT !.mode = "full"]
            l == H!Line("metaFull", 0, "none")
<1>1. /\ g \in HelperType(N) /\ g.fg = h.fg /\ g.pend = h.pend /\ g.sdk = h.sdk
      /\ g.inbox = h.inbox /\ g.outbox = h.outbox
  BY DEF HelperType
<1>2. l \in LineType(N) /\ l.kind = "metaFull" /\ l.cmd = 0
  BY DEF H!Line, LineType, LineKinds, LineTexts
<1>. HIDE DEF g, l
<1>3. Evolves(N, h, g, {})
  BY <1>1, Restates
<1>4. <<l>> \in Seq(LineType(N)) /\ ToSet(<<l>>) = {l}
  BY <1>2, LineMembers
<1>5. Evolves(N, h, H!Emit(g, <<l>>), {})
  BY <1>2, <1>3, <1>4, Emits
<1>. QED  BY <1>5 DEF H!Negotiate, g, l

LEMMA Finishes ==
  ASSUME NEW N, 0 \in N, NEW h \in HelperType(N), HelperInv(h), H!CanFinish(h)
  PROVE  Evolves(N, h, H!Finish(h), {})
<1>. DEFINE c == Head(h.sdk)
            g == [h EXCEPT !.sdk = Tail(@), !.fg = IF @ = c THEN 0 ELSE @]
            l == H!Line("terminal", c, IF h.fg = c THEN "ready" ELSE "none")
<1>1. H!Finish(h) = H!Emit(g, <<l>>)
  BY DEF H!Finish
<1>2. /\ c \in N /\ c \in ToSet(h.sdk)
      /\ Tail(h.sdk) \in Seq(N) /\ ToSet(Tail(h.sdk)) \subseteq ToSet(h.sdk)
  BY Members DEF H!CanFinish, HelperType
<1>. HIDE DEF c
<1>3. /\ g \in HelperType(N) /\ g.fg = (IF h.fg = c THEN 0 ELSE h.fg)
      /\ g.pend = h.pend /\ g.sdk = Tail(h.sdk)
      /\ g.inbox = h.inbox /\ g.outbox = h.outbox
  BY <1>2 DEF HelperType
<1>4. l \in LineType(N) /\ l.kind = "terminal" /\ l.cmd = c
  BY <1>2 DEF H!Line, LineType, LineKinds, LineTexts
<1>. HIDE DEF g, l
<1>5. \A d : Owns(g, d) => Owns(h, d)
  BY <1>3 DEF Owns
<1>6. HelperInv(g)
  <2>1. OneTurn(g)
    BY <1>3 DEF OneTurn, HelperInv
  <2>2. SaysTrue(g)
    BY <1>3, <1>5 DEF SaysTrue, HelperInv
  <2>3. SdkInv(g)
    BY <1>2, <1>3 DEF SdkInv, HelperInv
  <2>. QED  BY <2>1, <2>2, <2>3 DEF HelperInv
<1>7. \A d : Named(g, d) => d = 0 \/ Named(h, d)
  BY <1>2, <1>3 DEF Named
<1>8. \A d, ms : HasPrompt(g, d, ms) => HasPrompt(h, d, ms)
  BY <1>3 DEF HasPrompt
<1>9. \A d : Taken(g, d) => Taken(h, d)
  BY <1>2, <1>3 DEF Taken
<1>10. ~Owns(g, c) /\ Named(h, c) /\ Taken(h, c)
  BY <1>2, <1>3 DEF Owns, HelperInv, SdkInv, Named, Taken
<1>11. Evolves(N, h, g, {})
  BY <1>3, <1>5, <1>6, <1>7, <1>8, <1>9 DEF Evolves
<1>12. <<l>> \in Seq(LineType(N)) /\ ToSet(<<l>>) = {l}
  BY <1>4, LineMembers
<1>13. Evolves(N, h, H!Emit(g, <<l>>), {})
  BY <1>4, <1>10, <1>11, <1>12, Emits
<1>. QED  BY <1>1, <1>13

\* A line of a pipe is taken out.
LEMMA PipeRead ==
  ASSUME NEW N, 0 \in N, NEW h \in HelperType(N), HelperInv(h), h.inbox # <<>>
  PROVE  /\ Evolves(N, h, [h EXCEPT !.inbox = Tail(@)], {})
         /\ Head(h.inbox) \in CommandType(N) /\ Head(h.inbox) \in ToSet(h.inbox)
         /\ \A x \in ToSet(Tail(h.inbox)) :
              Prompt(x) => ~Prompt(Head(h.inbox)) /\ Head(h.inbox).cmd # x.cmd
<1>. DEFINE g == [h EXCEPT !.inbox = Tail(@)]
<1>1. h.inbox \in Seq(CommandType(N)) /\ PipeInv(h.inbox)
  BY DEF HelperType, HelperInv, OneTurn
<1>2. /\ Head(h.inbox) \in CommandType(N) /\ Head(h.inbox) \in ToSet(h.inbox)
      /\ Tail(h.inbox) \in Seq(CommandType(N))
      /\ ToSet(Tail(h.inbox)) \subseteq ToSet(h.inbox)
  <2>1. ToSet(h.inbox) \subseteq CommandType(N)
    BY <1>1, Members
  <2>. QED  BY <1>1, <2>1, Members
<1>3. /\ PipeInv(Tail(h.inbox))
      /\ \A x \in ToSet(Tail(h.inbox)) :
           Prompt(x) => ~Prompt(Head(h.inbox)) /\ Head(h.inbox).cmd # x.cmd
  BY <1>1, Pipe
<1>4. /\ g \in HelperType(N) /\ g.fg = h.fg /\ g.pend = h.pend /\ g.sdk = h.sdk
      /\ g.inbox = Tail(h.inbox) /\ g.outbox = h.outbox
  BY <1>2 DEF HelperType
<1>. HIDE DEF g
<1>5. \A c : Owns(g, c) => Owns(h, c)
  BY <1>2, <1>4 DEF Owns
<1>6. HelperInv(g)
  <2>1. OneTurn(g)
    BY <1>2, <1>3, <1>4 DEF OneTurn, HelperInv
  <2>2. SaysTrue(g)
    BY <1>4, <1>5 DEF SaysTrue, HelperInv
  <2>3. SdkInv(g)
    BY <1>2, <1>4 DEF SdkInv, HelperInv
  <2>. QED  BY <2>1, <2>2, <2>3 DEF HelperInv
<1>7. \A c : Named(g, c) => Named(h, c)
  BY <1>2, <1>4 DEF Named
<1>8. \A c, ms : HasPrompt(g, c, ms) => HasPrompt(h, c, ms)
  BY <1>2, <1>4 DEF HasPrompt
<1>9. \A c : Taken(g, c) => Taken(h, c)
  BY <1>4 DEF Taken
<1>10. Evolves(N, h, g, {})
  BY <1>4, <1>5, <1>6, <1>7, <1>8, <1>9 DEF Evolves
<1>. QED  BY <1>2, <1>3, <1>10 DEF g

\* A prompt that is read finds the helper free.
LEMMA Reserves ==
  ASSUME NEW N, 0 \in N, NEW h \in HelperType(N), HelperInv(h), h.inbox # <<>>,
         NEW c, c = Head(h.inbox), Prompt(c)
  PROVE  Evolves(N, h, H!Reserve([h EXCEPT !.inbox = Tail(@)],
                                 [cmd |-> c.cmd, msgs |-> c.msgs]), {})
<1>. DEFINE a == [h EXCEPT !.inbox = Tail(@)]
            p == [cmd |-> c.cmd, msgs |-> c.msgs]
            g == [a EXCEPT !.pend = p]
<1>1. /\ Evolves(N, h, a, {})
      /\ c \in CommandType(N) /\ c \in ToSet(h.inbox)
      /\ \A x \in ToSet(Tail(h.inbox)) : ~Prompt(x)
  BY PipeRead
<1>2. h.fg = 0 /\ h.pend.cmd = 0 /\ c.cmd # 0
  BY <1>1 DEF HelperInv, OneTurn
<1>3. /\ a \in HelperType(N) /\ a.fg = h.fg /\ a.pend = h.pend /\ a.sdk = h.sdk
      /\ a.inbox = Tail(h.inbox) /\ a.outbox = h.outbox
  BY <1>1 DEF Evolves, HelperType
<1>4. H!Reserve(a, p) = g
  BY <1>2, <1>3 DEF H!Reserve, H!Busy
<1>. HIDE DEF a
<1>5. /\ g \in HelperType(N) /\ g.fg = 0 /\ g.pend = p /\ g.sdk = h.sdk
      /\ g.inbox = Tail(h.inbox) /\ g.outbox = h.outbox
  BY <1>1, <1>2, <1>3 DEF HelperType, CommandType
<1>. HIDE DEF g
<1>6. p.cmd = c.cmd /\ p.msgs = c.msgs
  OBVIOUS
<1>. HIDE DEF p
<1>7. \A d : Owns(g, d) => Owns(h, d)
  BY <1>1, <1>5, <1>6 DEF Owns
<1>8. HelperInv(g)
  <2>1. OneTurn(g)
    <3>1. PipeInv(g.inbox)
      BY <1>1, <1>3, <1>5 DEF Evolves, HelperInv, OneTurn
    <3>. QED  BY <1>1, <1>5, <3>1 DEF OneTurn
  <2>2. SaysTrue(g)
    BY <1>5, <1>7 DEF SaysTrue, HelperInv
  <2>3. SdkInv(g)
    BY <1>1, <1>5, <1>6 DEF SdkInv, HelperInv
  <2>. QED  BY <2>1, <2>2, <2>3 DEF HelperInv
<1>9. \A d : Named(g, d) => d = 0 \/ Named(h, d)
  <2>1. \A d : Named(g, d) => Named(a, d) \/ d = c.cmd
    BY <1>2, <1>3, <1>5, <1>6 DEF Named
  <2>. QED  BY <1>1, <2>1 DEF Evolves, Named
<1>10. \A d, ms : HasPrompt(g, d, ms) => HasPrompt(h, d, ms)
  BY <1>1, <1>5, <1>6 DEF HasPrompt
<1>11. \A d : Taken(g, d) => Taken(h, d)
  BY <1>5 DEF Taken
<1>12. Evolves(N, h, g, {})
  BY <1>5, <1>7, <1>8, <1>9, <1>10, <1>11 DEF Evolves
<1>. QED  BY <1>4, <1>12 DEF a, p

\* Less of the foreground is owned, and nothing else changes.
LEMMA LetsGo ==
  ASSUME NEW N, 0 \in N, NEW h, NEW a, Evolves(N, h, a, {}),
         NEW g, \/ g = [a EXCEPT !.pend = H!NoPrompt]
                \/ g = [a EXCEPT !.fg = 0]
  PROVE  Evolves(N, h, g, {}) /\ g.inbox = a.inbox
<1>1. a \in HelperType(N) /\ HelperInv(a)
  BY DEF Evolves
<1>2. <<>> \in Seq(Msgs)
  BY EmptySeq
<1>3. /\ g \in HelperType(N) /\ g.sdk = a.sdk /\ g.inbox = a.inbox /\ g.outbox = a.outbox
      /\ \/ g.fg = a.fg /\ g.pend = H!NoPrompt
         \/ g.fg = 0 /\ g.pend = a.pend
  <2>1. CASE g = [a EXCEPT !.pend = H!NoPrompt]
    BY <1>1, <1>2, <2>1 DEF HelperType, H!NoPrompt
  <2>2. CASE g = [a EXCEPT !.fg = 0]
    BY <1>1, <2>2 DEF HelperType
  <2>. QED  BY <2>1, <2>2
<1>4. H!NoPrompt.cmd = 0
  BY DEF H!NoPrompt
<1>5. \A c : Owns(g, c) => Owns(a, c)
  BY <1>3, <1>4 DEF Owns
<1>6. HelperInv(g)
  <2>1. OneTurn(g)
    BY <1>1, <1>3, <1>4 DEF OneTurn, HelperInv
  <2>2. SaysTrue(g)
    BY <1>1, <1>3, <1>5 DEF SaysTrue, HelperInv
  <2>3. SdkInv(g)
    BY <1>1, <1>3, <1>4 DEF SdkInv, HelperInv
  <2>. QED  BY <2>1, <2>2, <2>3 DEF HelperInv
<1>7. \A c : Named(g, c) => c = 0 \/ Named(a, c)
  BY <1>3, <1>4 DEF Named
<1>8. \A c, ms : c # 0 /\ HasPrompt(g, c, ms) => HasPrompt(a, c, ms)
  BY <1>3, <1>4 DEF HasPrompt
<1>9. \A c : Taken(g, c) <=> Taken(a, c)
  BY <1>3 DEF Taken
<1>10. Evolves(N, a, g, {})
  BY <1>3, <1>5, <1>6, <1>7, <1>8, <1>9 DEF Evolves
<1>11. Evolves(N, h, g, {})
  BY <1>10, EvolvesTwice
<1>. QED  BY <1>3, <1>4, <1>11

\* An interrupt that is read.
LEMMA Interrupts ==
  ASSUME NEW N, 0 \in N, NEW h \in HelperType(N), HelperInv(h), h.inbox # <<>>,
         NEW c, c = Head(h.inbox), ~Prompt(c)
  PROVE  Evolves(N, h, H!Interrupt([h EXCEPT !.inbox = Tail(@)], c.cmd), {})
<1>. DEFINE a == [h EXCEPT !.inbox = Tail(@)]
            k == c.cmd
            owner == IF a.fg # 0 THEN a.fg ELSE a.pend.cmd
            text == IF a.init THEN "ready" ELSE "initializing"
            b == [a EXCEPT !.pend = H!NoPrompt]
            f == [a EXCEPT !.fg = 0]
            l1 == H!Line("mismatch", k, "processing")
            l2 == H!Line("abandoned", k, "ready")
            l3 == H!Line("abandoned", k, text)
            l4 == H!Line("ready", 0, "ready")
<1>1. /\ Evolves(N, h, a, {})
      /\ c \in CommandType(N) /\ c \in ToSet(h.inbox)
      /\ \A x \in ToSet(Tail(h.inbox)) : Prompt(x) => k # x.cmd
  BY PipeRead
<1>2. a \in HelperType(N) /\ a.inbox = Tail(h.inbox) /\ HelperInv(a)
  BY <1>1 DEF Evolves, HelperType
<1>3. k \in N /\ Named(h, k)
  BY <1>1 DEF CommandType, Named
<1>4. \/ H!Interrupt(a, k) = H!Emit(a, <<l1>>)
      \/ H!Interrupt(a, k) = H!Emit(a, <<l2>>) /\ owner = 0
      \/ H!Interrupt(a, k) = H!Emit(b, <<l3>>) /\ owner = k /\ a.fg = 0
      \/ H!Interrupt(a, k) = H!Emit(f, <<l4>>)
      \/ H!Interrupt(a, k) = a
  BY DEF H!Interrupt
<1>5. /\ l1 \in LineType(N) /\ l1.kind = "mismatch" /\ l1.cmd = k
      /\ l2 \in LineType(N) /\ l2.kind = "abandoned" /\ l2.cmd = k
      /\ l3 \in LineType(N) /\ l3.kind = "abandoned" /\ l3.cmd = k
      /\ l4 \in LineType(N) /\ l4.kind = "ready" /\ l4.cmd = 0
  BY <1>3 DEF H!Line, LineType, LineKinds, LineTexts
<1>6. owner = 0 => a.fg = 0 /\ a.pend.cmd = 0
  BY <1>2 DEF HelperType
<1>7. owner = k /\ a.fg = 0 => a.pend.cmd = k
  BY <1>2 DEF HelperType
<1>. HIDE DEF a, l1, l2, l3, l4, owner, text
<1>8. /\ <<l1>> \in Seq(LineType(N)) /\ ToSet(<<l1>>) = {l1}
      /\ <<l2>> \in Seq(LineType(N)) /\ ToSet(<<l2>>) = {l2}
      /\ <<l3>> \in Seq(LineType(N)) /\ ToSet(<<l3>>) = {l3}
      /\ <<l4>> \in Seq(LineType(N)) /\ ToSet(<<l4>>) = {l4}
  BY <1>5, LineMembers
<1>9. Evolves(N, h, H!Emit(a, <<l1>>), {})
  BY <1>1, <1>3, <1>5, <1>8, Emits
<1>10. owner = 0 => Evolves(N, h, H!Emit(a, <<l2>>), {})
  <2>. SUFFICES ASSUME owner = 0 PROVE Evolves(N, h, H!Emit(a, <<l2>>), {})
    OBVIOUS
  <2>1. ~Owns(a, k)
    BY <1>1, <1>2, <1>6 DEF Owns
  <2>. QED  BY <1>1, <1>3, <1>5, <1>8, <2>1, Emits
<1>11. owner = k /\ a.fg = 0 => Evolves(N, h, H!Emit(b, <<l3>>), {})
  <2>. SUFFICES ASSUME owner = k, a.fg = 0 PROVE Evolves(N, h, H!Emit(b, <<l3>>), {})
    OBVIOUS
  <2>0. b = [a EXCEPT !.pend = H!NoPrompt]
    OBVIOUS
  <2>. HIDE DEF b
  <2>3. Evolves(N, h, b, {}) /\ b.inbox = a.inbox
    BY <1>1, <2>0, LetsGo
  <2>4. b.fg = a.fg /\ b.pend.cmd = 0
    BY <1>2, <2>0 DEF HelperType, H!NoPrompt
  <2>1. /\ Evolves(N, h, b, {}) /\ b.fg = 0 /\ b.pend.cmd = 0
        /\ b.inbox = a.inbox
    BY <2>3, <2>4
  <2>2. ~Owns(b, k)
    BY <1>2, <1>7, <2>1 DEF Owns, HelperInv, OneTurn
  <2>. QED  BY <1>3, <1>5, <1>8, <2>1, <2>2, Emits
<1>12. Evolves(N, h, H!Emit(f, <<l4>>), {})
  <2>1. Evolves(N, h, f, {})
    BY <1>1, LetsGo
  <2>. HIDE DEF f
  <2>. QED  BY <1>5, <1>8, <2>1, Emits
<1>. HIDE DEF b, f
<1>13. Evolves(N, h, H!Interrupt(a, k), {})
  BY <1>1, <1>4, <1>9, <1>10, <1>11, <1>12
<1>. QED  BY <1>13 DEF a

\* The process dies; the pump takes a line.
LEMMA Dies ==
  ASSUME NEW N, 0 \in N, NEW h \in HelperType(N), HelperInv(h)
  PROVE  Evolves(N, h, H!Died(h), {})
<1>. DEFINE g == H!Died(h)
<1>1. /\ <<>> \in Seq(Msgs) /\ <<>> \in Seq(CommandType(N)) /\ <<>> \in Seq(N)
      /\ PipeInv(<<>>)
  BY EmptySeq DEF PipeInv
<1>2. /\ g \in HelperType(N) /\ g.fg = 0 /\ g.pend.cmd = 0 /\ g.sdk = <<>>
      /\ g.inbox = <<>> /\ g.outbox = h.outbox
  BY <1>1 DEF HelperType, H!Died, H!NoPrompt
<1>. HIDE DEF g
<1>3. \A c : ~Owns(g, c)
  BY <1>2, NoMembers DEF Owns
<1>4. HelperInv(g)
  BY <1>1, <1>2, <1>3, NoMembers DEF HelperInv, OneTurn, SaysTrue, SdkInv
<1>5. \A c : Named(g, c) => c = 0 \/ Named(h, c)
  BY <1>2, NoMembers DEF Named
<1>6. \A c, ms : c # 0 => ~HasPrompt(g, c, ms)
  BY <1>2, NoMembers DEF HasPrompt
<1>7. \A c : Taken(g, c) => Taken(h, c)
  BY <1>2, NoMembers DEF Taken
<1>8. Evolves(N, h, g, {})
  BY <1>2, <1>3, <1>4, <1>5, <1>6, <1>7 DEF Evolves
<1>. QED  BY <1>8 DEF g

LEMMA LineTaken ==
  ASSUME NEW N, 0 \in N, NEW h \in HelperType(N), HelperInv(h), h.outbox # <<>>,
         NEW l, l = Head(h.outbox)
  PROVE  /\ Evolves(N, h, [h EXCEPT !.outbox = Tail(@)], {})
         /\ l \in LineType(N) /\ l \in ToSet(h.outbox)
         /\ \A c : Owns([h EXCEPT !.outbox = Tail(@)], c) <=> Owns(h, c)
<1>. DEFINE g == [h EXCEPT !.outbox = Tail(@)]
<1>0. h.outbox \in Seq(LineType(N))
  BY DEF HelperType
<1>1. /\ l \in LineType(N) /\ l \in ToSet(h.outbox)
      /\ Tail(h.outbox) \in Seq(LineType(N))
      /\ ToSet(Tail(h.outbox)) \subseteq ToSet(h.outbox)
  <2>1. ToSet(h.outbox) \subseteq LineType(N)
    BY <1>0, Members
  <2>. QED  BY <1>0, <2>1, Members
<1>2. /\ g \in HelperType(N) /\ g.fg = h.fg /\ g.pend = h.pend /\ g.sdk = h.sdk
      /\ g.inbox = h.inbox /\ g.outbox = Tail(h.outbox)
  BY <1>1 DEF HelperType
<1>. HIDE DEF g
<1>3. \A c : Owns(g, c) <=> Owns(h, c)
  BY <1>2 DEF Owns
<1>4. HelperInv(g)
  BY <1>1, <1>2, <1>3 DEF HelperInv, OneTurn, SaysTrue, SdkInv
<1>5. \A c : Named(g, c) => Named(h, c)
  BY <1>1, <1>2 DEF Named
<1>6. \A c, ms : HasPrompt(g, c, ms) <=> HasPrompt(h, c, ms)
  BY <1>2 DEF HasPrompt
<1>7. \A c : Taken(g, c) => Taken(h, c)
  BY <1>1, <1>2 DEF Taken
<1>8. Evolves(N, h, g, {})
  BY <1>2, <1>3, <1>4, <1>5, <1>6, <1>7 DEF Evolves
<1>. QED  BY <1>1, <1>3, <1>8 DEF g

\* A helper that was just launched, and none at all, name nothing.
Blank(N, g) ==
  /\ g \in HelperType(N)
  /\ HelperInv(g)
  /\ \A c : Named(g, c) => c = 0
  /\ \A c : ~Owns(g, c)
  /\ \A c, ms : c # 0 => ~HasPrompt(g, c, ms)
  /\ \A c : ~Taken(g, c)

LEMMA BlankHelpers ==
  ASSUME NEW N, 0 \in N, NEW inc \in Nat
  PROVE  Blank(N, H!NoHelper) /\ Blank(N, H!Launched(inc, H!NoPrompt))
<1>1. ASSUME NEW g \in HelperType(N), g.fg = 0, g.pend.cmd = 0, g.sdk = <<>>,
             g.inbox = <<>>, g.outbox = <<>>
      PROVE  Blank(N, g)
  <2>1. PipeInv(<<>>)
    BY DEF PipeInv
  <2>2. HelperInv(g)
    BY <1>1, <2>1, NoMembers DEF HelperInv, OneTurn, SaysTrue, SdkInv
  <2>. QED  BY <1>1, <2>2, NoMembers DEF Blank, Named, Owns, HasPrompt, Taken
<1>2. /\ <<>> \in Seq(Msgs) /\ <<>> \in Seq(CommandType(N)) /\ <<>> \in Seq(N)
      /\ <<>> \in Seq(LineType(N))
  BY EmptySeq
<1>. DEFINE g == H!NoHelper
            f == H!Launched(inc, H!NoPrompt)
<1>3. /\ g \in HelperType(N) /\ g.fg = 0 /\ g.pend.cmd = 0 /\ g.sdk = <<>>
      /\ g.inbox = <<>> /\ g.outbox = <<>>
  BY <1>2 DEF H!NoHelper, H!NoPrompt, HelperType
<1>4. /\ f \in HelperType(N) /\ f.fg = 0 /\ f.pend.cmd = 0 /\ f.sdk = <<>>
      /\ f.inbox = <<>> /\ f.outbox = <<>>
  BY <1>2 DEF H!NoHelper, H!NoPrompt, H!Launched, HelperType
<1>. HIDE DEF f, g
<1>5. Blank(N, f) /\ Blank(N, g)
  BY <1>1, <1>3, <1>4
<1>. QED  BY <1>5 DEF f, g

\* The initial prompt is given to the helper at its launch.
LEMMA FirstHelper ==
  ASSUME NEW N, 0 \in N, NEW c \in N
  PROVE  LET g == H!Launched(1, [cmd |-> c, msgs |-> <<>>])
         IN  /\ g \in HelperType(N) /\ HelperInv(g)
             /\ g.inbox = <<>> /\ g.outbox = <<>> /\ g.sdk = <<>>
             /\ g.fg = 0 /\ g.pend.cmd = c
<1>. DEFINE g == H!Launched(1, [cmd |-> c, msgs |-> <<>>])
<1>1. /\ <<>> \in Seq(Msgs) /\ <<>> \in Seq(CommandType(N)) /\ <<>> \in Seq(N)
      /\ <<>> \in Seq(LineType(N)) /\ PipeInv(<<>>)
  BY EmptySeq DEF PipeInv
<1>2. /\ g \in HelperType(N) /\ g.fg = 0 /\ g.pend.cmd = c /\ g.sdk = <<>>
      /\ g.inbox = <<>> /\ g.outbox = <<>>
  BY <1>1 DEF H!NoHelper, H!NoPrompt, H!Launched, HelperType
<1>. HIDE DEF g
<1>3. HelperInv(g)
  BY <1>1, <1>2, NoMembers DEF HelperInv, OneTurn, SaysTrue, SdkInv
<1>. QED  BY <1>2, <1>3 DEF g

\* What the host writes goes to the end of the pipe.  A prompt may be written only
\* to a helper that owns nothing and never heard of it.
LEMMA Pushes ==
  ASSUME NEW N, 0 \in N, NEW h \in HelperType(N), HelperInv(h),
         NEW x \in CommandType(N),
         Prompt(x) => x.cmd # 0 /\ ~Named(h, x.cmd) /\ \A c : ~Owns(h, c),
         NEW g, g = H!Push(h, x)
  PROVE  /\ g \in HelperType(N) /\ HelperInv(g)
         /\ \A c : Named(g, c) => Named(h, c) \/ c = x.cmd
         /\ \A c : Owns(g, c) => Owns(h, c) \/ (Prompt(x) /\ c = x.cmd)
         /\ \A c, ms : HasPrompt(g, c, ms) =>
              HasPrompt(h, c, ms) \/ (Prompt(x) /\ c = x.cmd /\ ms = x.msgs)
         /\ \A c : Taken(g, c) <=> Taken(h, c)
<1>1. CASE ~h.up
  <2>1. g = h
    BY <1>1 DEF H!Push
  <2>. QED  BY <2>1
<1>2. CASE h.up
  <2>0. h.inbox \in Seq(CommandType(N)) /\ PipeInv(h.inbox)
    BY DEF HelperType, HelperInv, OneTurn
  <2>1. /\ Append(h.inbox, x) \in Seq(CommandType(N))
        /\ ToSet(Append(h.inbox, x)) = ToSet(h.inbox) \cup {x}
    BY <2>0, Members
  <2>2. g = [h EXCEPT !.inbox = Append(h.inbox, x)]
    BY <1>2 DEF H!Push
  <2>3. /\ g \in HelperType(N) /\ g.fg = h.fg /\ g.pend = h.pend /\ g.sdk = h.sdk
        /\ g.inbox = Append(h.inbox, x) /\ g.outbox = h.outbox
    BY <2>1, <2>2 DEF HelperType
  <2>4. Prompt(x) =>
          /\ x.cmd # 0 /\ x.cmd \notin ToSet(h.sdk) /\ h.fg = 0 /\ h.pend.cmd = 0
          /\ \A l \in ToSet(h.outbox) : l.cmd # x.cmd
          /\ \A y \in ToSet(h.inbox) : ~Prompt(y) /\ y.cmd # x.cmd
    BY DEF Named, Owns, HelperInv, OneTurn
  <2>5. PipeInv(g.inbox)
    BY <2>0, <2>3, <2>4, Pipe
  <2>6. \A c : Owns(g, c) => Owns(h, c) \/ (Prompt(x) /\ c = x.cmd)
    <3>. SUFFICES ASSUME NEW c, Owns(g, c), ~(Prompt(x) /\ c = x.cmd)
                  PROVE  Owns(h, c)
      OBVIOUS
    <3>1. \A y \in ToSet(g.inbox) : Prompt(y) /\ y.cmd = c => y \in ToSet(h.inbox)
      BY <2>1, <2>3
    <3>. QED  BY <2>3, <3>1 DEF Owns
  <2>7. HelperInv(g)
    <3>1. OneTurn(g)
      BY <2>1, <2>3, <2>4, <2>5 DEF OneTurn, HelperInv
    <3>2. SaysTrue(g)
      BY <2>3, <2>4, <2>6 DEF SaysTrue, HelperInv
    <3>3. SdkInv(g)
      BY <2>1, <2>3, <2>4 DEF SdkInv, HelperInv
    <3>. QED  BY <3>1, <3>2, <3>3 DEF HelperInv
  <2>8. \A c : Named(g, c) => Named(h, c) \/ c = x.cmd
    BY <2>1, <2>3 DEF Named
  <2>9. \A c, ms : HasPrompt(g, c, ms) =>
          HasPrompt(h, c, ms) \/ (Prompt(x) /\ c = x.cmd /\ ms = x.msgs)
    <3>. SUFFICES ASSUME NEW c, NEW ms, HasPrompt(g, c, ms),
                         ~(Prompt(x) /\ c = x.cmd /\ ms = x.msgs)
                  PROVE  HasPrompt(h, c, ms)
      OBVIOUS
    <3>1. \A y \in ToSet(g.inbox) : Prompt(y) /\ y.cmd = c /\ y.msgs = ms => y \in ToSet(h.inbox)
      BY <2>1, <2>3
    <3>. QED  BY <2>3, <3>1 DEF HasPrompt
  <2>10. \A c : Taken(g, c) <=> Taken(h, c)
    BY <2>3 DEF Taken
  <2>. QED  BY <2>3, <2>6, <2>7, <2>8, <2>9, <2>10
<1>. QED  BY <1>1, <1>2

\* A helper stays one when more ids are in use.
LEMMA Widens ==
  ASSUME NEW N, NEW M, N \subseteq M
  PROVE  HelperType(N) \subseteq HelperType(M) /\ LineType(N) \subseteq LineType(M)
<1>1. LineType(N) \subseteq LineType(M) /\ CommandType(N) \subseteq CommandType(M)
  BY DEF LineType, CommandType
<1>2. /\ Seq(LineType(N)) \subseteq Seq(LineType(M))
      /\ Seq(CommandType(N)) \subseteq Seq(CommandType(M))
      /\ Seq(N) \subseteq Seq(M)
  BY <1>1, SeqMonotonic
<1>3. HelperType(N) \subseteq HelperType(M)
  BY <1>2 DEF HelperType
<1>. QED  BY <1>1, <1>3

\* Whatever the helper names is an id in use.
LEMMA NamesInUse ==
  ASSUME NEW N, 0 \in N, NEW h \in HelperType(N), NEW c, Named(h, c)
  PROVE  c \in N
<1>1. /\ h.sdk \in Seq(N) /\ h.inbox \in Seq(CommandType(N))
      /\ h.outbox \in Seq(LineType(N)) /\ h.fg \in N /\ h.pend.cmd \in N
  BY DEF HelperType
<1>2. /\ ToSet(h.sdk) \subseteq N /\ ToSet(h.inbox) \subseteq CommandType(N)
      /\ ToSet(h.outbox) \subseteq LineType(N)
  BY <1>1, Members
<1>. QED  BY <1>1, <1>2 DEF Named, CommandType, LineType

-----------------------------------------------------------------------------
(* The queue.  What is out for delivery is its head, and every operation   *)
(* but a claim leaves the head out only if it was.                         *)

Out(q) == q # <<>> /\ q[1].state \in Claimed

InOrder(q) ==
  \A i, j \in DOMAIN q : \A x \in DOMAIN q[i].msgs, y \in DOMAIN q[j].msgs :
    Before(i, x, j, y) => q[i].msgs[x] < q[j].msgs[y]

QueueOK(q) ==
  /\ q \in Seq(Batch(Nat))
  /\ RestIsFresh(q)
  /\ InOrder(q)
  /\ \A i \in DOMAIN q : q[i].msgs # <<>>

ClaimKept(q, r) ==
  Out(r) => /\ Out(q)
            /\ r[1].cmd = q[1].cmd /\ r[1].msgs = q[1].msgs
            /\ r[1].attempt = q[1].attempt
            /\ r[1].state \in {q[1].state, "DeliveryUncertain"}

\* The batches of r are batches of q, with fewer messages perhaps.
Drawn(q, r) ==
  \A i \in DOMAIN r : \E j \in DOMAIN q :
    /\ r[i].attempt = q[j].attempt
    /\ MembersOf(r[i]) \subseteq MembersOf(q[j])
    /\ r[i].state \in Claimed => q[j].state \in Claimed /\ r[i].cmd = q[j].cmd

QueueStep(q, r) ==
  /\ QueueOK(r)
  /\ ClaimKept(q, r) /\ Drawn(q, r)
  /\ Queued(r) \subseteq Queued(q)
  /\ r # <<>> => r[1].cmd = 0 \/ (q # <<>> /\ r[1].cmd = q[1].cmd)

LEMMA QueueHead ==
  ASSUME NEW q \in Seq(Batch(Nat)), q # <<>>
  PROVE  /\ 1 \in DOMAIN q /\ q[1] \in Batch(Nat)
         /\ q[1].msgs \in Seq(Msgs) /\ q[1].cmd \in Nat /\ q[1].attempt \in Nat
         /\ q[1].state \in DeliveryState
         /\ MembersOf(q[1]) \subseteq Queued(q)
<1>1. DOMAIN q = 1..Len(q) /\ Len(q) \in Nat \ {0}
  BY LenProperties, EmptySeq
<1>2. q[1] \in Batch(Nat) /\ 1 \in DOMAIN q
  BY <1>1, ElementOfSeq
<1>. QED  BY <1>2 DEF Batch, Queued

LEMMA NoQueueStep ==
  ASSUME NEW q, QueueOK(q)
  PROVE  QueueStep(q, q)
BY DEF QueueStep, ClaimKept, Drawn

LEMMA StillInOrder ==
  ASSUME NEW q, NEW r, InOrder(q), InOrderOf(r, q)
  PROVE  InOrder(r)
<1>. SUFFICES ASSUME NEW i \in DOMAIN r, NEW j \in DOMAIN r,
                     NEW x \in DOMAIN r[i].msgs, NEW y \in DOMAIN r[j].msgs,
                     Before(i, x, j, y)
              PROVE  r[i].msgs[x] < r[j].msgs[y]
  BY DEF InOrder
<1>1. PICK i2 \in DOMAIN q, j2 \in DOMAIN q :
        \E x2 \in DOMAIN q[i2].msgs, y2 \in DOMAIN q[j2].msgs :
          /\ Before(i2, x2, j2, y2)
          /\ r[i].msgs[x] = q[i2].msgs[x2]
          /\ r[j].msgs[y] = q[j2].msgs[y2]
  BY DEF InOrderOf
<1>2. PICK x2 \in DOMAIN q[i2].msgs, y2 \in DOMAIN q[j2].msgs :
          /\ Before(i2, x2, j2, y2)
          /\ r[i].msgs[x] = q[i2].msgs[x2]
          /\ r[j].msgs[y] = q[j2].msgs[y2]
  BY <1>1
<1>. QED  BY <1>2 DEF InOrder

WithHead(q, b) == [q EXCEPT ![1] = b]

\* The head's delivery fields are rewritten.
LEMMA HeadStep ==
  ASSUME NEW q, QueueOK(q), q # <<>>, NEW b \in Batch(Nat),
         b.msgs = q[1].msgs, b.attempt = q[1].attempt,
         b.cmd \in {0, q[1].cmd},
         b.state \in Claimed => /\ q[1].state \in Claimed /\ b.cmd = q[1].cmd
                               /\ b.state \in {q[1].state, "DeliveryUncertain"},
         NEW r, r = WithHead(q, b)
  PROVE  /\ QueueStep(q, r) /\ Queued(r) = Queued(q)
         /\ r # <<>> /\ r[1] = b
<1>1. q \in Seq(Batch(Nat)) /\ 1 \in DOMAIN q
  BY QueueHead DEF QueueOK
<1>0. /\ b.cmd \in {0, q[1].cmd}
      /\ b.state \in Claimed => /\ q[1].state \in Claimed /\ b.cmd = q[1].cmd
                                /\ b.state \in {q[1].state, "DeliveryUncertain"}
  OBVIOUS
<1>2. r \in Seq(Batch(Nat)) /\ SameButHeadState(q, r) /\ r[1] = b
  BY <1>1, HeadUpdate DEF WithHead
<1>3. Queued(r) = Queued(q) /\ InOrder(r)
  BY <1>1, <1>2, HeadRewritten, HeadRewrittenInOrder, StillInOrder DEF QueueOK
<1>4. RestIsFresh(r)
  BY <1>2 DEF SameButHeadState, RestIsFresh, QueueOK
<1>5. DOMAIN q = 1..Len(q) /\ Len(q) \in Nat
  BY <1>1, LenProperties
<1>6. \A i \in DOMAIN r : i = 1 \/ (i > 1 /\ i \in DOMAIN q /\ r[i] = q[i])
  BY <1>2, <1>5 DEF SameButHeadState
<1>7. \A i \in DOMAIN r : r[i].msgs # <<>>
  BY <1>1, <1>2, <1>6 DEF QueueOK
<1>8. Drawn(q, r)
  <2>1. \A i \in DOMAIN r :
          /\ i \in DOMAIN q
          /\ r[i].attempt = q[i].attempt
          /\ MembersOf(r[i]) = MembersOf(q[i])
          /\ r[i].state \in Claimed => q[i].state \in Claimed /\ r[i].cmd = q[i].cmd
    BY <1>0, <1>1, <1>2, <1>6 DEF MembersOf
  <2>. QED  BY <2>1 DEF Drawn
<1>9. ClaimKept(q, r)
  BY <1>0, <1>2 DEF ClaimKept, Out
<1>10. r # <<>>
  BY <1>2 DEF SameButHeadState
<1>. QED  BY <1>0, <1>2, <1>3, <1>4, <1>7, <1>8, <1>9, <1>10 DEF QueueStep, QueueOK

\* The head goes.
LEMMA TailStep ==
  ASSUME NEW q, QueueOK(q), q # <<>>
  PROVE  /\ QueueStep(q, Tail(q)) /\ ~Out(Tail(q))
         /\ Queued(q) \subseteq MembersOf(q[1]) \cup Queued(Tail(q))
<1>. DEFINE r == Tail(q)
<1>1. q \in Seq(Batch(Nat)) /\ DOMAIN q = 1..Len(q) /\ Len(q) \in Nat
  BY LenProperties DEF QueueOK
<1>2. /\ r \in Seq(Batch(Nat))
      /\ \A i \in DOMAIN r : i + 1 \in DOMAIN q /\ i \in Nat \ {0} /\ r[i] = q[i + 1]
      /\ Queued(r) \subseteq Queued(q)
  BY <1>1, HeadDropped
<1>3. InOrder(r)
  BY <1>1, HeadDroppedInOrder, StillInOrder DEF QueueOK
<1>4. \A i \in DOMAIN q : i # 1 => i - 1 \in DOMAIN r /\ r[i - 1] = q[i]
  <2>1. Len(r) = Len(q) - 1 /\ DOMAIN r = 1..Len(r)
    BY <1>1, <1>2, HeadTailProperties, LenProperties
  <2>. QED  BY <1>1, <1>2, <2>1
<1>. HIDE DEF r
<1>5. \A i \in DOMAIN r : /\ r[i].state = "Pending" /\ r[i].attempt = 0
                          /\ r[i].cmd = NoCmd /\ r[i].msgs # <<>>
  BY <1>2 DEF QueueOK, RestIsFresh
<1>6. ~Out(r) /\ (r # <<>> => r[1].cmd = 0)
  <2>. SUFFICES ASSUME r # <<>> PROVE r[1].state = "Pending" /\ r[1].cmd = 0
    BY DEF Out, Claimed
  <2>1. 1 \in DOMAIN r
    BY <1>2, QueueHead
  <2>. QED  BY <1>5, <2>1 DEF NoCmd
<1>7. Drawn(q, r)
  <2>1. \A i \in DOMAIN r : /\ i + 1 \in DOMAIN q
                            /\ r[i].attempt = q[i + 1].attempt
                            /\ MembersOf(r[i]) \subseteq MembersOf(q[i + 1])
                            /\ r[i].state \notin Claimed
    BY <1>2, <1>5 DEF Claimed
  <2>. QED  BY <2>1 DEF Drawn
<1>8. Queued(q) \subseteq MembersOf(q[1]) \cup Queued(r)
  BY <1>4 DEF Queued
<1>9. QueueStep(q, r)
  BY <1>2, <1>3, <1>5, <1>6, <1>7 DEF QueueStep, QueueOK, ClaimKept, RestIsFresh
<1>. QED  BY <1>6, <1>8, <1>9 DEF r

LEMMA RemoveStep ==
  ASSUME NEW q, QueueOK(q), NEW c,
         NEW r, r = RemoveDispatch(q, c) \/ r = ConfirmAdmitted(q, c)
  PROVE  /\ QueueStep(q, r)
         /\ Out(q) /\ q[1].cmd = c /\ c # 0 => ~Out(r)
         /\ r = q \/ (q # <<>> /\ q[1].cmd = c /\ r = Tail(q))
<1>1. r = q \/ (q # <<>> /\ q[1].cmd = c /\ r = Tail(q))
  BY DEF RemoveDispatch, ConfirmAdmitted, HeadOwnedBy
<1>2. Out(q) /\ q[1].cmd = c /\ c # 0 => q # <<>> /\ r = Tail(q)
  BY DEF RemoveDispatch, ConfirmAdmitted, HeadOwnedBy, Out, Claimed, DeliveryState, NoCmd
<1>3. QueueStep(q, r)
  BY <1>1, TailStep, NoQueueStep
<1>4. Out(q) /\ q[1].cmd = c /\ c # 0 => ~Out(r)
  BY <1>2, TailStep
<1>. QED  BY <1>1, <1>3, <1>4

\* The head goes back to be claimed again.
LEMMA HeadBack ==
  ASSUME NEW q, QueueOK(q), q # <<>>, NEW b \in Batch(Nat),
         b.msgs = q[1].msgs, b.attempt = q[1].attempt,
         b.state = "Pending", b.cmd \in {0, q[1].cmd},
         NEW r, r = WithHead(q, b)
  PROVE  QueueStep(q, r) /\ Queued(r) = Queued(q) /\ ~Out(r)
<1>1. b.state \notin Claimed
  BY DEF Claimed
<1>2. QueueStep(q, r) /\ Queued(r) = Queued(q) /\ r[1] = b
  BY <1>1, HeadStep
<1>. QED  BY <1>1, <1>2 DEF Out

LEMMA ReleaseStep ==
  ASSUME NEW q, QueueOK(q), NEW m, NEW c, NEW a,
         NEW r, r = ReleaseDispatch(q, m, a) \/ r = ReleaseNotStarted(q, m, c, a)
  PROVE  /\ QueueStep(q, r) /\ Queued(r) = Queued(q)
         /\ HeadClaimedAs(q, m, a) /\ q[1].cmd = c /\ c # 0 => ~Out(r)
         /\ r = q \/ ~Out(r)
<1>1. CASE r = q /\ ~(HeadClaimedAs(q, m, a) /\ q[1].cmd = c /\ c # 0)
  BY <1>1, NoQueueStep
<1>3. ASSUME q # <<>> PROVE q[1] \in Batch(Nat)
  BY <1>3, QueueHead DEF QueueOK
<1>4. CASE q # <<>> /\ r = [q EXCEPT ![1].state = "Pending", ![1].cmd = NoCmd]
  <2>. DEFINE b == [q[1] EXCEPT !.state = "Pending", !.cmd = NoCmd]
  <2>1. /\ b \in Batch(Nat) /\ b.msgs = q[1].msgs /\ b.attempt = q[1].attempt
        /\ b.cmd = 0 /\ b.state = "Pending"
    BY <1>3, <1>4 DEF Batch, NoCmd, DeliveryState
  <2>2. r = WithHead(q, b)
    BY <1>4 DEF WithHead
  <2>. HIDE DEF b
  <2>3. b \in Batch(Nat) /\ b.cmd \in {0, q[1].cmd} /\ q # <<>>
    BY <1>4, <2>1
  <2>. QED  BY <2>1, <2>2, <2>3, HeadBack
<1>5. CASE q # <<>> /\ r = [q EXCEPT ![1].state = "Pending"]
  <2>. DEFINE b == [q[1] EXCEPT !.state = "Pending"]
  <2>1. /\ b \in Batch(Nat) /\ b.msgs = q[1].msgs /\ b.attempt = q[1].attempt
        /\ b.cmd = q[1].cmd /\ b.state = "Pending"
    BY <1>3, <1>5 DEF Batch, DeliveryState
  <2>2. r = WithHead(q, b)
    BY <1>5 DEF WithHead
  <2>. HIDE DEF b
  <2>3. b \in Batch(Nat) /\ b.cmd \in {0, q[1].cmd} /\ q # <<>>
    BY <1>5, <2>1
  <2>. QED  BY <2>1, <2>2, <2>3, HeadBack
<1>6. \/ r = q /\ ~(HeadClaimedAs(q, m, a) /\ q[1].cmd = c /\ c # 0)
      \/ q # <<>> /\ r = [q EXCEPT ![1].state = "Pending", ![1].cmd = NoCmd]
      \/ q # <<>> /\ r = [q EXCEPT ![1].state = "Pending"]
  BY DEF ReleaseDispatch, ReleaseNotStarted, HeadClaimedAs, HeadOwnedBy, NoCmd
<1>. QED  BY <1>1, <1>4, <1>5, <1>6

\* The head is marked uncertain, if it is the one that is meant.
LEMMA MarkStep ==
  ASSUME NEW q, QueueOK(q), NEW c, NEW a, NEW r, r = MarkDispatchUncertain(q, c, a)
  PROVE  /\ QueueStep(q, r) /\ Queued(r) = Queued(q)
         /\ r = q \/ (q # <<>> /\ q[1].cmd = c)
<1>1. CASE r = q
  BY <1>1, NoQueueStep
<1>2. CASE /\ q # <<>> /\ q[1].cmd = c /\ q[1].state = "Dispatching"
           /\ r = [q EXCEPT ![1].state = "DeliveryUncertain"]
  <2>. DEFINE b == [q[1] EXCEPT !.state = "DeliveryUncertain"]
  <2>1. q[1] \in Batch(Nat)
    BY <1>2, QueueHead DEF QueueOK
  <2>2. /\ b \in Batch(Nat) /\ b.msgs = q[1].msgs /\ b.attempt = q[1].attempt
        /\ b.cmd = q[1].cmd /\ b.state = "DeliveryUncertain"
    BY <2>1 DEF Batch, DeliveryState
  <2>3. r = WithHead(q, b) /\ q[1].state \in Claimed
    BY <1>2 DEF Claimed, WithHead
  <2>. HIDE DEF b
  <2>5. q # <<>>
    BY <1>2
  <2>4. QueueStep(q, r) /\ Queued(r) = Queued(q)
    BY <2>2, <2>3, <2>5, HeadStep
  <2>. QED  BY <1>2, <2>4
<1>3. \/ r = q
      \/ /\ q # <<>> /\ q[1].cmd = c /\ q[1].state = "Dispatching"
         /\ r = [q EXCEPT ![1].state = "DeliveryUncertain"]
  BY DEF MarkDispatchUncertain, HeadOwnedBy
<1>. QED  BY <1>1, <1>2, <1>3

LEMMA ParkStep ==
  ASSUME NEW q, QueueOK(q), NEW m, NEW a, NEW r, r = MarkClaimUncertain(q, m, a)
  PROVE  /\ QueueStep(q, r) /\ Queued(r) = Queued(q)
         /\ r = q \/ HeadClaimedAs(q, m, a)
<1>1. q \in Seq(Batch(Nat)) /\ DOMAIN q = 1..Len(q) /\ Len(q) \in Nat
  BY LenProperties DEF QueueOK
<1>2. \A i \in DOMAIN q : i # 1 => r[i] = q[i]
  BY <1>1 DEF RestIsFresh, MarkClaimUncertain, QueueOK
<1>3. r = [i \in DOMAIN q |-> r[i]]
  BY DEF MarkClaimUncertain
<1>4. CASE HeadClaimedAs(q, m, a)
  <2>. DEFINE b == [q[1] EXCEPT !.state = "DeliveryUncertain"]
  <2>1. /\ q # <<>> /\ q[1] \in Batch(Nat) /\ 1 \in DOMAIN q
        /\ q[1].state = "Dispatching"
    BY <1>1, <1>4, QueueHead DEF HeadClaimedAs
  <2>2. r[1] = b
    BY <1>4, <2>1 DEF MarkClaimUncertain, HeadClaimedAs
  <2>3. /\ b \in Batch(Nat) /\ b.msgs = q[1].msgs /\ b.attempt = q[1].attempt
        /\ b.cmd = q[1].cmd /\ b.state = "DeliveryUncertain"
    BY <2>1 DEF Batch, DeliveryState
  <2>. HIDE DEF b
  <2>4. r = WithHead(q, b)
    BY <1>1, <1>2, <1>3, <2>1, <2>2 DEF WithHead
  <2>5. q[1].state \in Claimed
    BY <2>1 DEF Claimed
  <2>6. QueueStep(q, r) /\ Queued(r) = Queued(q)
    BY <2>1, <2>3, <2>4, <2>5, HeadStep
  <2>. QED  BY <1>4, <2>6
<1>5. CASE ~HeadClaimedAs(q, m, a)
  <2>0. 1 \in DOMAIN q => q # <<>>
    BY <1>1, EmptySeq
  <2>1. \A i \in DOMAIN q : r[i] = q[i]
    BY <1>1, <1>2, <1>5, <2>0 DEF MarkClaimUncertain, HeadClaimedAs
  <2>2. q = [i \in DOMAIN q |-> q[i]]
    BY <1>1, LenProperties
  <2>3. r = q
    BY <1>3, <2>1, <2>2
  <2>. QED  BY <2>3, NoQueueStep
<1>. QED  BY <1>4, <1>5

\* No message stands in the queue twice.
LEMMA OnePlace ==
  ASSUME NEW q \in Seq(Batch(Nat)), InOrder(q), NEW i \in DOMAIN q, NEW j \in DOMAIN q,
         NEW x \in DOMAIN q[i].msgs, NEW y \in DOMAIN q[j].msgs,
         q[i].msgs[x] = q[j].msgs[y]
  PROVE  i = j /\ x = y
<1>1. DOMAIN q = 1..Len(q) /\ Len(q) \in Nat /\ q[i] \in Batch(Nat) /\ q[j] \in Batch(Nat)
  BY LenProperties, ElementOfSeq
<1>2. q[i].msgs \in Seq(Msgs) /\ q[j].msgs \in Seq(Msgs)
  BY <1>1 DEF Batch
<1>3. /\ DOMAIN q[i].msgs = 1..Len(q[i].msgs) /\ Len(q[i].msgs) \in Nat
      /\ DOMAIN q[j].msgs = 1..Len(q[j].msgs) /\ Len(q[j].msgs) \in Nat
      /\ q[i].msgs[x] \in Msgs
  BY <1>2, LenProperties, ElementOfSeq
<1>4. q[i].msgs[x] \in Nat
  BY <1>3, MsgsAssumption
<1>5. i \in Nat /\ j \in Nat /\ x \in Nat /\ y \in Nat
  BY <1>1, <1>3
<1>6. ~Before(i, x, j, y) /\ ~Before(j, y, i, x)
  BY <1>4 DEF InOrder
<1>. QED  BY <1>5, <1>6 DEF Before

LEMMA CancelStep ==
  ASSUME NEW q, QueueOK(q), NEW m, Cancellable(q, m), NEW r, r = CancelPending(q, m)
  PROVE  QueueStep(q, r) /\ Queued(r) = Queued(q) \ {m}
<1>. DEFINE n == HolderOf(q, m)
            ms == q[n].msgs
<1>1. q \in Seq(Batch(Nat)) /\ DOMAIN q = 1..Len(q) /\ Len(q) \in Nat
  BY LenProperties DEF QueueOK
<1>2. n \in DOMAIN q /\ m \in MembersOf(q[n])
  BY <1>1, HolderFound DEF Cancellable
<1>3. r = IF Len(ms) = 1 THEN RemoveAt(q, n)
          ELSE [q EXCEPT ![n].msgs = RemoveAt(@, PositionIn(q[n], m))]
  BY DEF CancelPending
<1>. HIDE DEF n
<1>4. q[n] \in Batch(Nat) /\ ms \in Seq(Msgs)
  <2>1. q[n] \in Batch(Nat)
    BY <1>1, <1>2, ElementOfSeq
  <2>. QED  BY <2>1 DEF Batch
<1>5. DOMAIN ms = 1..Len(ms) /\ Len(ms) \in Nat
  BY <1>4, LenProperties
<1>6. /\ r \in Seq(Batch(Nat))
      /\ \A i \in DOMAIN r : \E j \in DOMAIN q :
           /\ j >= i /\ SameDelivery(r[i], q[j]) /\ MembersOf(r[i]) \subseteq MembersOf(q[j])
      /\ q[1].state \in Claimed => r # <<>> /\ r[1] = q[1]
  BY <1>1, MessageCancelled
<1>7. InOrder(r)
  BY <1>1, CancelledInOrder, StillInOrder DEF QueueOK
<1>8. DOMAIN r = 1..Len(r) /\ Len(r) \in Nat
  BY <1>6, LenProperties
<1>9. \A k \in DOMAIN q : k # n => m \notin MembersOf(q[k])
  BY <1>1, <1>2, OnePlace DEF MembersOf, QueueOK
<1>10. Queued(r) = Queued(q) \ {m} /\ \A i \in DOMAIN r : r[i].msgs # <<>>
  <2>1. CASE Len(ms) = 1
    <3>1. /\ DOMAIN r = 1..(Len(q) - 1)
          /\ \A j \in 1..(Len(q) - 1) : r[j] = IF j < n THEN q[j] ELSE q[j + 1]
      BY <1>1, <1>2, <1>3, <2>1, Removed
    <3>2. MembersOf(q[n]) = {m}
      BY <1>2, <1>5, <2>1 DEF MembersOf
    <3>3. \A i \in DOMAIN r : \E k \in DOMAIN q : k # n /\ r[i] = q[k]
      BY <1>1, <1>2, <3>1
    <3>4. \A k \in DOMAIN q : k # n => \E i \in DOMAIN r : r[i] = q[k]
      <4>. TAKE k \in DOMAIN q
      <4>1. CASE k < n
        BY <1>1, <1>2, <3>1, <4>1
      <4>2. CASE k > n
        <5>1. k - 1 \in DOMAIN r /\ r[k - 1] = q[k]
          BY <1>1, <1>2, <3>1, <4>2
        <5>. QED  BY <5>1
      <4>. QED  BY <1>1, <1>2, <4>1, <4>2
    <3>5. Queued(r) = Queued(q) \ {m}
      BY <1>9, <3>2, <3>3, <3>4 DEF Queued
    <3>. QED  BY <3>3, <3>5 DEF QueueOK
  <2>2. CASE Len(ms) # 1
    <3>. DEFINE p == PositionIn(q[n], m)
                ns == RemoveAt(ms, p)
    <3>1. p \in DOMAIN ms /\ ms[p] = m
      BY <1>2, <1>4, PositionFound
    <3>2. r = [q EXCEPT ![n].msgs = ns]
      BY <1>3, <2>2
    <3>. HIDE DEF p
    <3>3. /\ DOMAIN ns = 1..(Len(ms) - 1) /\ ns \in Seq(Msgs)
          /\ \A j \in 1..(Len(ms) - 1) : ns[j] = IF j < p THEN ms[j] ELSE ms[j + 1]
      BY <1>4, <1>5, <3>1, Removed
    <3>. HIDE DEF ns
    <3>4. DOMAIN r = DOMAIN q /\ r[n].msgs = ns /\ \A k \in DOMAIN q : k # n => r[k] = q[k]
      BY <1>1, <1>2, <1>4, <3>2 DEF Batch
    <3>5. \A x \in DOMAIN ms : ms[x] = m => x = p
      BY <1>1, <1>2, <3>1, OnePlace DEF QueueOK
    <3>6. \A j \in DOMAIN ns : ns[j] # m /\ \E x \in DOMAIN ms : ns[j] = ms[x]
      <4>. TAKE j \in DOMAIN ns
      <4>1. PICK x \in DOMAIN ms : x # p /\ ns[j] = ms[x]
        <5>1. CASE j < p
          <6>1. j \in DOMAIN ms /\ j # p /\ ns[j] = ms[j]
            BY <1>5, <3>1, <3>3, <5>1
          <6>. QED  BY <6>1
        <5>2. CASE ~(j < p)
          <6>1. j + 1 \in DOMAIN ms /\ j + 1 # p /\ ns[j] = ms[j + 1]
            BY <1>5, <3>1, <3>3, <5>2
          <6>. QED  BY <6>1
        <5>. QED  BY <5>1, <5>2
      <4>. QED  BY <3>5, <4>1
    <3>7. \A x \in DOMAIN ms : x # p => \E j \in DOMAIN ns : ns[j] = ms[x]
      <4>. TAKE x \in DOMAIN ms
      <4>1. CASE x < p
        BY <1>5, <3>1, <3>3, <4>1
      <4>2. CASE x > p
        <5>1. x - 1 \in DOMAIN ns /\ ns[x - 1] = ms[x]
          BY <1>5, <3>1, <3>3, <4>2
        <5>. QED  BY <5>1
      <4>. QED  BY <1>5, <3>1, <4>1, <4>2
    <3>8. MembersOf(r[n]) = MembersOf(q[n]) \ {m}
      BY <3>1, <3>4, <3>6, <3>7 DEF MembersOf
    <3>9. \A k \in DOMAIN q : MembersOf(r[k]) = MembersOf(q[k]) \ {m}
      BY <1>9, <3>4, <3>8
    <3>10. Queued(r) = Queued(q) \ {m}
      BY <3>4, <3>9 DEF Queued
    <3>11. ns # <<>>
      <4>0. p \in 1..Len(ms)
        BY <1>5, <3>1
      <4>3. \A k \in Nat : k # 1 /\ p \in 1..k => k > 1
        OBVIOUS
      <4>2. Len(ms) > 1
        BY <1>5, <2>2, <4>0, <4>3
      <4>1. 1 \in DOMAIN ns
        BY <1>5, <3>3, <4>2
      <4>. QED  BY <3>3, <4>1, NoMembers DEF ToSet
    <3>12. \A i \in DOMAIN r : r[i].msgs # <<>>
      BY <3>4, <3>11 DEF QueueOK
    <3>. QED  BY <3>10, <3>12
  <2>. QED  BY <2>1, <2>2
<1>11. QueueOK(r) /\ ClaimKept(q, r) /\ Drawn(q, r)
       /\ (r # <<>> => r[1].cmd = 0 \/ (q # <<>> /\ r[1].cmd = q[1].cmd))
  <2>1. \A i \in DOMAIN r : \E j \in DOMAIN q :
          /\ j >= i /\ MembersOf(r[i]) \subseteq MembersOf(q[j])
          /\ r[i].state = q[j].state /\ r[i].attempt = q[j].attempt /\ r[i].cmd = q[j].cmd
    BY <1>6 DEF SameDelivery
  <2>2. Drawn(q, r)
    BY <2>1 DEF Drawn
  <2>3. \A j \in DOMAIN q : j > 1 =>
          q[j].state = "Pending" /\ q[j].attempt = 0 /\ q[j].cmd = NoCmd
    BY DEF QueueOK, RestIsFresh
  <2>4. RestIsFresh(r)
    <3>. SUFFICES ASSUME NEW i \in DOMAIN r, i > 1
                  PROVE  r[i].state = "Pending" /\ r[i].attempt = 0 /\ r[i].cmd = NoCmd
      BY DEF RestIsFresh
    <3>1. PICK j \in DOMAIN q : j >= i /\ r[i].state = q[j].state
                               /\ r[i].attempt = q[j].attempt /\ r[i].cmd = q[j].cmd
      BY <2>1
    <3>2. j > 1
      BY <1>1, <1>8, <3>1
    <3>. QED  BY <2>3, <3>1, <3>2
  <2>5. CASE r = <<>>
    BY <1>6, <1>7, <1>10, <2>2, <2>4, <2>5 DEF QueueOK, ClaimKept, Out
  <2>6. CASE r # <<>>
    <3>1. 1 \in DOMAIN r
      BY <1>6, <2>6, QueueHead
    <3>2. PICK j \in DOMAIN q : r[1].state = q[j].state /\ r[1].cmd = q[j].cmd
      BY <2>1, <3>1
    <3>3. q # <<>>
      BY <1>1, <1>2, EmptySeq
    <3>4. CASE j = 1
      <4>1. q[1].state \in Claimed => r[1] = q[1]
        BY <1>6
      <4>. QED  BY <1>6, <1>7, <1>10, <2>2, <2>4, <3>2, <3>3, <3>4, <4>1
                DEF QueueOK, ClaimKept, Out
    <3>5. CASE j # 1
      <4>1. r[1].state = "Pending" /\ r[1].cmd = 0
        BY <1>1, <2>3, <3>2, <3>5 DEF NoCmd
      <4>. QED  BY <1>6, <1>7, <1>10, <2>2, <2>4, <4>1 DEF QueueOK, ClaimKept, Out, Claimed
    <3>. QED  BY <3>4, <3>5
  <2>. QED  BY <2>5, <2>6
<1>. QED  BY <1>10, <1>11 DEF QueueStep

\* The head goes out, as a new attempt.
LEMMA ClaimStep ==
  ASSUME NEW q, QueueOK(q), Claimable(q), NEW c \in Nat, NEW r, r = ClaimHead(q, c)
  PROVE  /\ QueueOK(r) /\ Queued(r) = Queued(q) /\ Out(r)
         /\ r[1].cmd = c /\ r[1].msgs = q[1].msgs /\ r[1].attempt = q[1].attempt + 1
         /\ r[1].state = "Dispatching"
         /\ \A i \in DOMAIN r : /\ i \in DOMAIN q
                                /\ i # 1 => r[i] = q[i] /\ r[i].state \notin Claimed
                                /\ MembersOf(r[i]) = MembersOf(q[i])
<1>1. q \in Seq(Batch(Nat)) /\ q # <<>> /\ 1 \in DOMAIN q /\ q[1] \in Batch(Nat)
  BY QueueHead DEF QueueOK, Claimable
<1>2. r \in Seq(Batch(Nat)) /\ SameButHeadState(q, r) /\ r[1].cmd = c
  BY <1>1, HeadClaimed
<1>3. Queued(r) = Queued(q) /\ InOrder(r)
  BY <1>1, <1>2, HeadRewritten, HeadRewrittenInOrder, StillInOrder DEF QueueOK
<1>4. r[1].attempt = q[1].attempt + 1 /\ r[1].state = "Dispatching"
  BY <1>1 DEF ClaimHead, Batch
<1>5. DOMAIN q = 1..Len(q) /\ Len(q) \in Nat
  BY <1>1, LenProperties
<1>6. /\ r # <<>> /\ DOMAIN r = DOMAIN q /\ r[1].msgs = q[1].msgs
      /\ \A i \in DOMAIN r : i # 1 => i > 1 /\ r[i] = q[i]
  BY <1>2, <1>5 DEF SameButHeadState
<1>7. RestIsFresh(r)
  BY <1>6 DEF RestIsFresh, QueueOK
<1>8. \A i \in DOMAIN r : r[i].msgs = q[i].msgs
  BY <1>6
<1>9. \A i \in DOMAIN r : MembersOf(r[i]) = MembersOf(q[i])
  BY <1>8 DEF MembersOf
<1>10. \A i \in DOMAIN r : i # 1 => r[i].state \notin Claimed
  BY <1>6, <1>7 DEF RestIsFresh, Claimed
<1>11. QueueOK(r)
  BY <1>2, <1>3, <1>6, <1>7, <1>8 DEF QueueOK
<1>12. Out(r)
  BY <1>4, <1>6 DEF Out, Claimed
<1>. QED  BY <1>2, <1>3, <1>4, <1>6, <1>9, <1>10, <1>11, <1>12

\* A new prompt, later than all that wait, goes to the end.
LEMMA EnqueueStep ==
  ASSUME NEW q, QueueOK(q), NEW m \in Msgs, \A k \in Queued(q) : k < m, NEW f \in Nat,
         NEW r, r = Enqueued(q, m, f)
  PROVE  /\ QueueOK(r) /\ Queued(r) = Queued(q) \cup {m} /\ r # <<>>
         /\ Out(q) => Out(r) /\ r[1] = q[1]
         /\ Out(r) => Out(q)
         /\ r[1].cmd = 0 \/ (q # <<>> /\ r[1].cmd = q[1].cmd)
         /\ \A i \in DOMAIN r :
              \/ /\ i \in DOMAIN q /\ SameDelivery(r[i], q[i])
                 /\ MembersOf(r[i]) \subseteq MembersOf(q[i]) \cup {m}
              \/ MembersOf(r[i]) = {m}
<1>1. q \in Seq(Batch(Nat)) /\ DOMAIN q = 1..Len(q) /\ Len(q) \in Nat
  BY LenProperties DEF QueueOK
<1>2. /\ r \in Seq(Batch(Nat)) /\ r # <<>> /\ Queued(r) = Queued(q) \cup {m}
      /\ \A i \in DOMAIN r :
           \/ i \in DOMAIN q /\ SameDelivery(r[i], q[i])
           \/ i \notin DOMAIN q /\ SameDelivery(r[i], NewBatch(m, f))
      /\ \A i \in DOMAIN q : i \in DOMAIN r /\ (q[i].state \in Claimed => r[i] = q[i])
  BY <1>1, MessageEnqueued
<1>3. InOrder(r)
  <2>. SUFFICES ASSUME NEW i \in DOMAIN r, NEW j \in DOMAIN r,
                       NEW x \in DOMAIN r[i].msgs, NEW y \in DOMAIN r[j].msgs,
                       Before(i, x, j, y)
                PROVE  r[i].msgs[x] < r[j].msgs[y]
    BY DEF InOrder
  <2>1. /\ i \in DOMAIN q /\ x \in DOMAIN q[i].msgs /\ r[i].msgs[x] = q[i].msgs[x]
        /\ \/ r[j].msgs[y] = m
           \/ /\ j \in DOMAIN q /\ y \in DOMAIN q[j].msgs
              /\ r[j].msgs[y] = q[j].msgs[y]
    BY <1>1, EnqueuedInOrder
  <2>2. q[i].msgs[x] \in Queued(q)
    BY <2>1 DEF Queued, MembersOf
  <2>. QED  BY <2>1, <2>2 DEF QueueOK, InOrder
<1>4. \A i \in DOMAIN r : \/ i \in DOMAIN q /\ r[i].state = q[i].state
                             /\ r[i].attempt = q[i].attempt /\ r[i].cmd = q[i].cmd
                          \/ i \notin DOMAIN q /\ r[i].state = "Pending"
                             /\ r[i].attempt = 0 /\ r[i].cmd = NoCmd
  BY <1>2 DEF SameDelivery, NewBatch
<1>5. RestIsFresh(r)
  BY <1>4 DEF RestIsFresh, QueueOK
<1>6. \A i \in DOMAIN r :
        /\ r[i].msgs # <<>>
        /\ \/ i \in DOMAIN q /\ MembersOf(r[i]) \subseteq MembersOf(q[i]) \cup {m}
           \/ MembersOf(r[i]) = {m}
  <2>. TAKE i \in DOMAIN r
  <2>0. r = Enqueued(q, m, f) /\ r[i] \in Batch(Nat)
    BY <1>2, ElementOfSeq, LenProperties
  <2>1. CASE MergesIntoTail(q, f)
    <3>1. r = [q EXCEPT ![Len(q)].msgs = Append(@, m)]
      BY <2>1 DEF Enqueued
    <3>2. CASE i = Len(q)
      <4>1. q[i] \in Batch(Nat) /\ i \in DOMAIN q
        BY <1>1, <3>1, <3>2, ElementOfSeq
      <4>2. q[i].msgs \in Seq(Msgs)
        BY <4>1 DEF Batch
      <4>3. r[i].msgs = Append(q[i].msgs, m)
        BY <3>1, <3>2, <4>1 DEF Batch
      <4>4. Len(Append(q[i].msgs, m)) = Len(q[i].msgs) + 1 /\ Len(q[i].msgs) \in Nat
        BY <4>2, AppendProperties, LenProperties
      <4>5. Len(r[i].msgs) # 0 /\ r[i].msgs \in Seq(Msgs)
        BY <4>2, <4>3, <4>4, AppendProperties
      <4>6. ToSet(r[i].msgs) = ToSet(q[i].msgs) \cup {m}
        BY <4>2, <4>3, Members
      <4>7. MembersOf(r[i]) = MembersOf(q[i]) \cup {m}
        BY <4>6 DEF MembersOf, ToSet
      <4>. QED  BY <4>1, <4>5, <4>7, EmptySeq
    <3>3. CASE i # Len(q)
      <4>1. i \in DOMAIN q /\ r[i] = q[i]
        BY <3>1, <3>3
      <4>. QED  BY <4>1 DEF QueueOK
    <3>. QED  BY <3>2, <3>3
  <2>2. CASE ~MergesIntoTail(q, f)
    <3>1. r = Append(q, NewBatch(m, f))
      BY <2>2 DEF Enqueued
    <3>0. NewBatch(m, f) \in Batch(Nat)
      <4>1. <<m>> \in Seq(Msgs)
        BY LineMembers
      <4>. QED  BY <4>1 DEF NewBatch, Batch, DeliveryState, NoCmd
    <3>2. /\ Len(r) = Len(q) + 1 /\ DOMAIN r = 1..Len(r)
          /\ \A k \in 1..Len(q) : r[k] = q[k]
          /\ r[Len(q) + 1] = NewBatch(m, f)
      BY <1>1, <1>2, <3>0, <3>1, AppendProperties, LenProperties
    <3>3. CASE i = Len(q) + 1
      <4>3. r[i] = NewBatch(m, f)
        BY <3>2, <3>3
      <4>1. r[i].msgs = <<m>>
        BY <4>3 DEF NewBatch
      <4>2. ToSet(<<m>>) = {m}
        BY LineMembers
      <4>4. MembersOf(r[i]) = {m}
        BY <4>1, <4>2 DEF MembersOf, ToSet
      <4>. QED  BY <4>1, <4>2, <4>4, NoMembers
    <3>4. CASE i # Len(q) + 1
      <4>1. i \in DOMAIN q /\ r[i] = q[i]
        BY <1>1, <3>2, <3>4
      <4>. QED  BY <4>1 DEF QueueOK
    <3>. QED  BY <3>3, <3>4
  <2>. QED  BY <2>1, <2>2
<1>7. QueueOK(r)
  BY <1>2, <1>3, <1>5, <1>6 DEF QueueOK
<1>8. Out(q) => Out(r) /\ r[1] = q[1]
  <2>1. q # <<>> => 1 \in DOMAIN q
    BY <1>1, QueueHead
  <2>. QED  BY <1>2, <2>1 DEF Out
<1>9. 1 \in DOMAIN r /\ (1 \in DOMAIN q => q # <<>>)
  BY <1>1, <1>2, QueueHead, EmptySeq
<1>10. Out(r) => Out(q)
  BY <1>4, <1>9 DEF Out, Claimed
<1>11. r[1].cmd = 0 \/ (q # <<>> /\ r[1].cmd = q[1].cmd)
  BY <1>4, <1>9 DEF NoCmd
<1>12. \A i \in DOMAIN r :
          \/ /\ i \in DOMAIN q /\ SameDelivery(r[i], q[i])
             /\ MembersOf(r[i]) \subseteq MembersOf(q[i]) \cup {m}
          \/ MembersOf(r[i]) = {m}
  BY <1>2, <1>6
<1>. QED  BY <1>2, <1>7, <1>8, <1>10, <1>11, <1>12

-----------------------------------------------------------------------------
(* The threads that dispatch.  Between its claim and its verdict a thread  *)
(* holds the claim; until the prompt is written the helper never heard of  *)
(* the command.                                                            *)

Unwritten == {"claimed", "locking", "admit", "write", "undo"}
Holding == Unwritten \cup {"mark", "judge", "release"}
Flying == Holding \cup {"park", "arm"}
PCs == Flying \cup {"idle", "gate", "claim", "peek", "after", "recheck"}
Errors == {"none", "NotStarted", "Other", "DeliveryUncertain", "Busy",
           "SettingsPending", "StaleIncarnation", "ProtocolPoisoned", "ok"}

DispType(N) ==
  [pc : PCs, visible : BOOLEAN, cmd : N, attempt : Nat, msgs : Seq(Msgs),
   inc : Nat, retry : BOOLEAN, error : Errors]

\* A thread takes up nothing: what it still has to do with its claim, it had to
\* do before.
Follows(x, y) ==
  /\ y.cmd \in {0, x.cmd}
  /\ y.pc \in Flying => /\ x.pc \in Flying /\ y.cmd = x.cmd
                        /\ y.msgs = x.msgs /\ y.attempt = x.attempt
  /\ y.pc \in Holding => x.pc \in Holding
  /\ y.pc \in Unwritten => x.pc \in Unwritten
  /\ y.pc = "park" => x.pc \in Holding \cup {"park"}

Ids == 0..lastCmd
Threads == [Dispatchers -> DispType(Ids)]
OnlyMoves(d) ==
  disp' \in Threads /\ \A e \in Dispatchers \ {d} : disp'[e] = disp[e]
AllFollow == disp' \in Threads /\ \A e \in Dispatchers : Follows(disp[e], disp'[e])

NeedsLock(x) ==
  \/ x.pc \in {"admit", "write", "mark", "undo"}
  \/ x.pc \in {"claimed", "locking"} /\ x.retry

\* Before its admission a command does not own the foreground, from there until it
\* is written it does.
Phase(x, c) ==
  /\ x.pc \in {"write", "undo"} => c = x.cmd
  /\ x.pc \in {"claimed", "locking", "admit"} => c # x.cmd

LEMMA PCSets ==
  /\ Unwritten \subseteq Holding /\ Holding \subseteq Flying /\ Flying \subseteq PCs
  /\ "park" \notin Holding /\ "arm" \notin Holding
  /\ "park" \in Flying /\ "arm" \in Flying
  /\ \A p \in {"idle", "gate", "claim", "peek", "after", "recheck"} :
       p \in PCs /\ p \notin Flying /\ p \notin Holding /\ p \notin Unwritten
BY DEF Unwritten, Holding, Flying, PCs

LEMMA SameThread ==
  ASSUME NEW x PROVE Follows(x, x)
BY DEF Follows

LEMMA GoesTo ==
  ASSUME disp \in Threads, NEW d \in Dispatchers, NEW p \in PCs, Go(d, p)
  PROVE  /\ OnlyMoves(d)
         /\ disp'[d].pc = p /\ disp'[d].cmd = disp[d].cmd
         /\ disp'[d].msgs = disp[d].msgs /\ disp'[d].attempt = disp[d].attempt
         /\ disp'[d].retry = disp[d].retry
<1>1. disp[d] \in DispType(Ids)
  BY DEF Threads
<1>. DEFINE y == [disp[d] EXCEPT !.pc = p]
<1>2. disp' = [disp EXCEPT ![d] = y]
  BY DEF Go
<1>3. /\ y \in DispType(Ids) /\ y.pc = p /\ y.cmd = disp[d].cmd
      /\ y.msgs = disp[d].msgs /\ y.attempt = disp[d].attempt /\ y.retry = disp[d].retry
  BY <1>1 DEF DispType
<1>. HIDE DEF y
<1>4. disp' \in Threads /\ disp'[d] = y /\ \A e \in Dispatchers \ {d} : disp'[e] = disp[e]
  BY <1>2, <1>3 DEF Threads
<1>. QED  BY <1>3, <1>4 DEF OnlyMoves

LEMMA Returns ==
  ASSUME disp \in Threads, NEW d \in Dispatchers, Return(d), lastCmd \in Nat
  PROVE  OnlyMoves(d) /\ disp'[d].pc = "idle" /\ disp'[d].cmd = 0
<1>1. IdleDispatcher \in DispType(Ids)
  <2>1. <<>> \in Seq(Msgs) /\ 0 \in Ids
    BY EmptySeq DEF Ids
  <2>. QED  BY <2>1 DEF IdleDispatcher, DispType, PCs, Errors
<1>2. disp' \in Threads /\ disp'[d] = IdleDispatcher
      /\ \A e \in Dispatchers \ {d} : disp'[e] = disp[e]
  BY <1>1 DEF Return, Threads
<1>. QED  BY <1>2 DEF OnlyMoves, IdleDispatcher

LEMMA Fails ==
  ASSUME disp \in Threads, NEW d \in Dispatchers, NEW x \in Errors, Fail(d, x)
  PROVE  /\ OnlyMoves(d)
         /\ disp'[d].pc = "judge" /\ disp'[d].cmd = disp[d].cmd
         /\ disp'[d].msgs = disp[d].msgs /\ disp'[d].attempt = disp[d].attempt
<1>1. disp[d] \in DispType(Ids)
  BY DEF Threads
<1>. DEFINE y == [disp[d] EXCEPT !.pc = "judge", !.error = x]
<1>2. disp' = [disp EXCEPT ![d] = y]
  BY DEF Fail
<1>3. /\ y \in DispType(Ids) /\ y.pc = "judge" /\ y.cmd = disp[d].cmd
      /\ y.msgs = disp[d].msgs /\ y.attempt = disp[d].attempt
  BY <1>1 DEF DispType, PCs, Flying, Holding
<1>. HIDE DEF y
<1>4. disp' \in Threads /\ disp'[d] = y /\ \A e \in Dispatchers \ {d} : disp'[e] = disp[e]
  BY <1>2, <1>3 DEF Threads
<1>. QED  BY <1>3, <1>4 DEF OnlyMoves

\* One thread moves on with its claim, or lets it go.
LEMMA MovesOn ==
  ASSUME NEW d \in Dispatchers, OnlyMoves(d), Follows(disp[d], disp'[d])
  PROVE  AllFollow
<1>. SUFFICES ASSUME NEW e \in Dispatchers PROVE Follows(disp[e], disp'[e])
  BY DEF AllFollow, OnlyMoves
<1>1. CASE e = d
  BY <1>1
<1>2. CASE e # d
  BY <1>2, SameThread DEF OnlyMoves
<1>. QED  BY <1>1, <1>2

-----------------------------------------------------------------------------
(* The inductive invariant.                                                *)

LeftType ==
  [initial : BOOLEAN, msgs : 0..MaxMsgs, crash : Nat, stop : Nat, timeout : Nat,
   unknown : Nat, fail : Nat]

Basics ==
  /\ left \in LeftType
  /\ lastCmd \in Nat /\ InitialCmd \in Ids /\ sent \in 0..MaxMsgs
  /\ lastInc \in Nat /\ handle \in Nat
  /\ delivered \in Seq(Msgs)
  /\ stopper \in [pc : {"idle", "clicked", "remove"}, cmd : Ids]
  /\ pump.line.cmd \in Ids /\ pump.line.kind # "rejected"
  /\ \A x \in armed \cup expiring : x.cmd \in Ids
  /\ CoordOK(coord) /\ coord.active.cmd \in Ids

\* What the helper works on is what the coordinator calls active.
FgInv ==
  /\ helper \in HelperType(Ids) /\ HelperInv(helper)
  /\ \A c : Owns(helper, c) => coord.active.cmd = c

DispInv ==
  /\ disp \in Threads
  /\ \A d \in Dispatchers : disp[d].pc \in Flying => disp[d].cmd > InitialCmd
  /\ \A d, e \in Dispatchers : d # e /\ disp[d].cmd = disp[e].cmd => disp[d].cmd = 0

LockInv ==
  /\ \A d \in Dispatchers : NeedsLock(disp[d]) => termLock = d
  /\ stopper.pc = "remove" => termLock = "stop"

PhaseInv == \A d \in Dispatchers : Phase(disp[d], coord.active.cmd)

FreshInv ==
  \A d \in Dispatchers : disp[d].pc \in Unwritten =>
    ~Named(helper, disp[d].cmd) /\ pump.line.cmd # disp[d].cmd

QueueInv ==
  /\ QueueOK(queue)
  /\ \A m \in Queued(queue) : m <= sent
  /\ queue # <<>> => queue[1].cmd \in Ids
  /\ Out(queue) => queue[1].cmd > InitialCmd

\* Who holds the claim of the head holds what is in the head.
ClaimInv ==
  Out(queue) => \A d \in Dispatchers :
    disp[d].pc \in Holding /\ disp[d].cmd = queue[1].cmd =>
      /\ disp[d].msgs = queue[1].msgs /\ disp[d].attempt = queue[1].attempt
      /\ queue[1].state = "Dispatching"

PromptInv ==
  Out(queue) => \A ms : HasPrompt(helper, queue[1].cmd, ms) => ms = queue[1].msgs

\* What was said of the head is true: the SDK got it.
SaidTaken(h, p, c) == Taken(h, c) \/ (p.pc = "line" /\ Said(p.line, c))
TakenInv ==
  Out(queue) /\ SaidTaken(helper, pump, queue[1].cmd) =>
    MembersOf(queue[1]) \subseteq ToSet(delivered)

Resolving(p, c) ==
  /\ p.pc = "line" /\ p.line.cmd = c
  /\ p.line.kind \in {"terminal", "abandoned"} /\ p.decision = "Released"
Owned(c, a, p, s, f) ==
  \/ a = c
  \/ Resolving(p, c)
  \/ s.pc = "remove" /\ s.cmd = c
  \/ \E d \in Dispatchers : f[d].pc \in Holding /\ f[d].cmd = c
OwnedInv == Out(queue) => Owned(queue[1].cmd, coord.active.cmd, pump, stopper, disp)

\* A deadline runs only for a prompt that was written.
DeadlineInv ==
  \A x \in armed \cup expiring, d \in Dispatchers :
    disp[d].pc \in Holding => disp[d].cmd # x.cmd

\* The message by which a thread finds its batch again has not got a newer attempt
\* without the thread's attempt being over.
Recognises(x, b) ==
  x.msgs[1] \in MembersOf(b) =>
    /\ b.attempt >= x.attempt
    /\ b.attempt = x.attempt /\ b.state \in Claimed => b.cmd = x.cmd
AttemptInv ==
  \A d \in Dispatchers : disp[d].pc \in Holding \cup {"park"} =>
    /\ disp[d].msgs # <<>>
    /\ \A m \in ToSet(disp[d].msgs) : m <= sent
    /\ \A i \in DOMAIN queue : Recognises(disp[d], queue[i])

Inv ==
  /\ Basics /\ FgInv /\ DispInv /\ LockInv /\ PhaseInv /\ FreshInv
  /\ QueueInv /\ ClaimInv /\ PromptInv /\ TakenInv /\ OwnedInv /\ DeadlineInv
  /\ AttemptInv /\ NothingLost

-----------------------------------------------------------------------------
(* How a part of it is kept.                                               *)

SameRange == lastCmd' = lastCmd /\ left'.initial = left.initial
QueueMoves ==
  /\ QueueStep(queue, queue')
  /\ Out(queue') =>
       \/ queue'[1].state = queue[1].state
       \/ \A d \in Dispatchers : disp'[d].pc \in Holding => disp'[d].cmd # queue'[1].cmd
HelperMoves == \E T : Evolves(Ids, helper, helper', T)
Quieter(p, q) == q.line.cmd \in {0, p.line.cmd} \/ Named(helper, q.line.cmd)

LEMMA RangeKept ==
  ASSUME Basics, SameRange
  PROVE  /\ Ids' = Ids /\ InitialCmd' = InitialCmd /\ 0 \in Ids /\ Threads' = Threads
         /\ InitialCmd \in Nat
BY DEF Basics, SameRange, Ids, InitialCmd, Threads

LEMMA NobodyMoves ==
  ASSUME disp \in Threads, disp' = disp
  PROVE  AllFollow
BY SameThread DEF AllFollow

LEMMA HelperStays ==
  ASSUME FgInv, 0 \in Ids, helper' = helper
  PROVE  HelperMoves
BY Restates DEF FgInv, HelperMoves

LEMMA DispKept ==
  ASSUME Basics, DispInv, SameRange, AllFollow
  PROVE  DispInv'
<1>1. /\ Ids' = Ids /\ InitialCmd' = InitialCmd /\ Threads' = Threads
      /\ disp' \in Threads
  BY RangeKept DEF AllFollow
<1>2. \A d \in Dispatchers : /\ disp'[d].cmd \in {0, disp[d].cmd}
                             /\ disp'[d].pc \in Flying =>
                                  disp[d].pc \in Flying /\ disp'[d].cmd = disp[d].cmd
  BY DEF AllFollow, Follows
<1>3. \A d \in Dispatchers : disp'[d].pc \in Flying => disp'[d].cmd > InitialCmd
  BY <1>2 DEF DispInv
<1>4. \A d, e \in Dispatchers :
        d # e /\ disp'[d].cmd = disp'[e].cmd => disp'[d].cmd = 0
  BY <1>2 DEF DispInv
<1>. QED  BY <1>1, <1>3, <1>4 DEF DispInv

LEMMA FlyingIds ==
  ASSUME Basics, DispInv, NEW d \in Dispatchers, disp[d].pc \in Flying
  PROVE  disp[d].cmd # 0 /\ disp[d].cmd \in Ids /\ disp[d].cmd > InitialCmd
<1>1. disp[d].cmd \in Nat /\ disp[d].cmd \in Ids
  BY DEF DispInv, Threads, DispType, Ids, Basics
<1>2. InitialCmd \in Nat
  BY DEF Basics, Ids
<1>. QED  BY <1>1, <1>2 DEF DispInv

LEMMA FreshKept ==
  ASSUME Basics, DispInv, FreshInv, AllFollow, HelperMoves, Quieter(pump, pump')
  PROVE  FreshInv'
<1>. SUFFICES ASSUME NEW d \in Dispatchers, disp'[d].pc \in Unwritten
              PROVE  ~Named(helper', disp'[d].cmd) /\ pump'.line.cmd # disp'[d].cmd
  BY DEF FreshInv
<1>1. disp'[d].cmd = disp[d].cmd /\ disp[d].pc \in Unwritten /\ disp[d].pc \in Flying
  BY PCSets DEF AllFollow, Follows
<1>2. disp[d].cmd # 0 /\ ~Named(helper, disp[d].cmd) /\ pump.line.cmd # disp[d].cmd
  BY <1>1, FlyingIds DEF FreshInv
<1>3. Named(helper', disp[d].cmd) => disp[d].cmd = 0 \/ Named(helper, disp[d].cmd)
  BY DEF HelperMoves, Evolves
<1>. QED  BY <1>1, <1>2, <1>3 DEF Quieter

LEMMA QueueKept ==
  ASSUME Basics, QueueInv, SameRange, QueueStep(queue, queue'), sent' = sent
  PROVE  QueueInv'
<1>1. Ids' = Ids /\ InitialCmd' = InitialCmd /\ 0 \in Ids
  BY RangeKept
<1>2. QueueOK(queue') /\ \A m \in Queued(queue') : m <= sent
  BY DEF QueueInv, QueueStep
<1>3. queue' # <<>> => queue'[1].cmd \in Ids
  BY <1>1 DEF QueueInv, QueueStep
<1>4. Out(queue') => queue'[1].cmd > InitialCmd
  BY DEF QueueInv, QueueStep, ClaimKept
<1>. QED  BY <1>1, <1>2, <1>3, <1>4 DEF QueueInv

LEMMA ClaimsKept ==
  ASSUME ClaimInv, AllFollow, QueueMoves
  PROVE  ClaimInv'
<1>. SUFFICES ASSUME Out(queue'), NEW d \in Dispatchers,
                     disp'[d].pc \in Holding, disp'[d].cmd = queue'[1].cmd
              PROVE  /\ disp'[d].msgs = queue'[1].msgs
                     /\ disp'[d].attempt = queue'[1].attempt
                     /\ queue'[1].state = "Dispatching"
  BY DEF ClaimInv
<1>1. /\ Out(queue) /\ queue'[1].cmd = queue[1].cmd /\ queue'[1].msgs = queue[1].msgs
      /\ queue'[1].attempt = queue[1].attempt /\ queue'[1].state = queue[1].state
  BY DEF QueueMoves, QueueStep, ClaimKept
<1>2. /\ disp[d].pc \in Holding /\ disp'[d].cmd = disp[d].cmd
      /\ disp'[d].msgs = disp[d].msgs /\ disp'[d].attempt = disp[d].attempt
  BY PCSets DEF AllFollow, Follows
<1>. QED  BY <1>1, <1>2 DEF ClaimInv

LEMMA PromptsKept ==
  ASSUME Basics, QueueInv, PromptInv, HelperMoves, QueueStep(queue, queue')
  PROVE  PromptInv'
<1>. SUFFICES ASSUME Out(queue'), NEW ms, HasPrompt(helper', queue'[1].cmd, ms)
              PROVE  ms = queue'[1].msgs
  BY DEF PromptInv
<1>1. Out(queue) /\ queue'[1].cmd = queue[1].cmd /\ queue'[1].msgs = queue[1].msgs
  BY DEF QueueStep, ClaimKept
<1>2. queue[1].cmd # 0
  <2>1. queue # <<>> /\ queue[1].cmd \in Nat /\ InitialCmd \in Nat
    BY <1>1, QueueHead DEF Out, QueueInv, QueueOK, Basics, Ids
  <2>. QED  BY <1>1, <2>1 DEF QueueInv
<1>3. HasPrompt(helper, queue[1].cmd, ms)
  BY <1>1, <1>2 DEF HelperMoves, Evolves
<1>. QED  BY <1>1, <1>3 DEF PromptInv

LEMMA TakenKept ==
  ASSUME TakenInv, QueueStep(queue, queue'), delivered' = delivered,
         \A c : SaidTaken(helper', pump', c) => SaidTaken(helper, pump, c)
  PROVE  TakenInv'
<1>. SUFFICES ASSUME Out(queue'), SaidTaken(helper', pump', queue'[1].cmd)
              PROVE  MembersOf(queue'[1]) \subseteq ToSet(delivered)
  BY DEF TakenInv
<1>1. Out(queue) /\ queue'[1].cmd = queue[1].cmd /\ queue'[1].msgs = queue[1].msgs
  BY DEF QueueStep, ClaimKept
<1>2. MembersOf(queue'[1]) = MembersOf(queue[1])
  BY <1>1 DEF MembersOf
<1>. QED  BY <1>1, <1>2 DEF TakenInv

LEMMA DeadlinesKept ==
  ASSUME DeadlineInv, AllFollow, (armed \cup expiring)' \subseteq armed \cup expiring
  PROVE  DeadlineInv'
<1>1. \A d \in Dispatchers : disp'[d].pc \in Holding =>
        disp[d].pc \in Holding /\ disp'[d].cmd = disp[d].cmd
  BY PCSets DEF AllFollow, Follows
<1>. QED  BY <1>1 DEF DeadlineInv

LEMMA AttemptsKept ==
  ASSUME AttemptInv, AllFollow, QueueStep(queue, queue'), sent' = sent
  PROVE  AttemptInv'
<1>. SUFFICES ASSUME NEW d \in Dispatchers, disp'[d].pc \in Holding \cup {"park"}
              PROVE  /\ disp'[d].msgs # <<>>
                     /\ \A m \in ToSet(disp'[d].msgs) : m <= sent
                     /\ \A i \in DOMAIN queue' : Recognises(disp'[d], queue'[i])
  BY DEF AttemptInv
<1>1. /\ disp[d].pc \in Holding \cup {"park"} /\ disp'[d].cmd = disp[d].cmd
      /\ disp'[d].msgs = disp[d].msgs /\ disp'[d].attempt = disp[d].attempt
  BY PCSets DEF AllFollow, Follows
<1>2. ASSUME NEW i \in DOMAIN queue' PROVE Recognises(disp'[d], queue'[i])
  <2>1. PICK j \in DOMAIN queue :
          /\ queue'[i].attempt = queue[j].attempt
          /\ MembersOf(queue'[i]) \subseteq MembersOf(queue[j])
          /\ queue'[i].state \in Claimed =>
               queue[j].state \in Claimed /\ queue'[i].cmd = queue[j].cmd
    BY DEF QueueStep, Drawn
  <2>2. Recognises(disp[d], queue[j])
    BY <1>1 DEF AttemptInv
  <2>. QED  BY <1>1, <2>1, <2>2 DEF Recognises
<1>. QED  BY <1>1, <1>2 DEF AttemptInv

\* What leaves the queue was taken, or is withdrawn.
LEMMA NothingGetsLost ==
  ASSUME NothingLost, sent' = sent, Queued(queue') \subseteq Queued(queue),
         withdrawn \subseteq withdrawn', ToSet(delivered) \subseteq ToSet(delivered'),
         \A m \in Queued(queue) \ Queued(queue') :
           m \in withdrawn' \/ m \in ToSet(delivered')
  PROVE  NothingLost'
<1>. SUFFICES ASSUME NEW m \in 1..sent
              PROVE  \/ m \in withdrawn' /\ m \notin Queued(queue')
                     \/ m \in ToSet(delivered')
                     \/ m \in Queued(queue')
  BY DEF NothingLost
<1>. QED  BY DEF NothingLost

\* While the foreground has the same owner, the claim keeps the one it has.
LEMMA OwnerKept ==
  ASSUME OwnedInv, ClaimKept(queue, queue'), AllFollow,
         coord'.active.cmd = coord.active.cmd,
         stopper.pc = "remove" => stopper' = stopper,
         pump.pc = "line" => pump' = pump,
         \A d \in Dispatchers : disp[d].pc \in Holding =>
           \/ disp'[d].pc \in Holding
           \/ coord.active.cmd = disp[d].cmd
           \/ Out(queue') => queue'[1].cmd # disp[d].cmd
  PROVE  OwnedInv'
<1>. SUFFICES ASSUME Out(queue')
              PROVE  Owned(queue'[1].cmd, coord'.active.cmd, pump', stopper', disp')
  BY DEF OwnedInv
<1>1. Out(queue) /\ queue'[1].cmd = queue[1].cmd
  BY DEF ClaimKept
<1>. DEFINE c == queue[1].cmd
<1>2. Owned(c, coord.active.cmd, pump, stopper, disp)
  BY <1>1 DEF OwnedInv
<1>3. CASE \/ coord.active.cmd = c
           \/ Resolving(pump, c)
           \/ stopper.pc = "remove" /\ stopper.cmd = c
  BY <1>1, <1>3 DEF Owned, Resolving
<1>4. ASSUME NEW d \in Dispatchers, disp[d].pc \in Holding, disp[d].cmd = c
      PROVE  Owned(queue'[1].cmd, coord'.active.cmd, pump', stopper', disp')
  <2>1. CASE disp'[d].pc \in Holding
    <3>1. disp'[d].cmd = disp[d].cmd
      BY <2>1, PCSets DEF AllFollow, Follows
    <3>. QED  BY <1>1, <1>4, <2>1, <3>1 DEF Owned
  <2>2. CASE coord.active.cmd = c
    BY <1>3, <2>2
  <2>. QED  BY <1>1, <1>4, <2>1, <2>2
<1>. QED  BY <1>2, <1>3, <1>4 DEF Owned

LEMMA LocksKept ==
  ASSUME LockInv, NEW d \in Dispatchers, OnlyMoves(d),
         termLock' # termLock => termLock \in {Free, d},
         NeedsLock(disp'[d]) => termLock' = d, stopper' = stopper
  PROVE  LockInv'
<1>1. Free # "stop" /\ d # "stop" /\ Free \notin Dispatchers
  BY ThreadsAssumption
<1>2. ASSUME NEW e \in Dispatchers, NeedsLock(disp'[e]) PROVE termLock' = e
  <2>1. CASE e = d
    BY <1>2, <2>1
  <2>2. CASE e # d
    BY <1>1, <1>2, <2>2 DEF OnlyMoves, LockInv
  <2>. QED  BY <2>1, <2>2
<1>3. stopper'.pc = "remove" => termLock' = "stop"
  BY <1>1 DEF LockInv
<1>. QED  BY <1>2, <1>3 DEF LockInv

\* While the foreground has the same owner, only the thread that moves matters.
LEMMA PhasesKept ==
  ASSUME PhaseInv, NEW d \in Dispatchers, OnlyMoves(d),
         coord'.active.cmd = coord.active.cmd, Phase(disp'[d], coord.active.cmd)
  PROVE  PhaseInv'
<1>. SUFFICES ASSUME NEW e \in Dispatchers PROVE Phase(disp'[e], coord'.active.cmd)
  BY DEF PhaseInv
<1>1. CASE e = d
  BY <1>1
<1>2. CASE e # d
  BY <1>2 DEF OnlyMoves, PhaseInv
<1>. QED  BY <1>1, <1>2

-----------------------------------------------------------------------------
(* The steps of a dispatcher.                                              *)

LEMMA Spends ==
  ASSUME left \in LeftType, NEW f \in {"crash", "stop", "timeout", "unknown", "fail"},
         Spend(f)
  PROVE  left' \in LeftType /\ left'.initial = left.initial /\ left'.msgs = left.msgs
<1>1. left[f] \in Nat /\ left[f] > 0 /\ left' = [left EXCEPT ![f] = left[f] - 1]
  BY DEF Spend, LeftType
<1>2. left[f] - 1 \in Nat
  BY <1>1
<1>. DEFINE n == left[f] - 1
<1>. HIDE DEF n
<1>3. n \in Nat /\ left' = [left EXCEPT ![f] = n]
  BY <1>1, <1>2 DEF n
<1>. QED  BY <1>3 DEF LeftType

\* A thread moves on, and nothing else happens but that the deadline of a prompt it
\* wrote is armed, the queue changes, and the coordinator keeps the owner.
ThreadMoves(d) ==
  /\ OnlyMoves(d) /\ Follows(disp[d], disp'[d])
  /\ left' \in LeftType /\ SameRange
  /\ lastInc' \in Nat /\ handle' \in Nat
  /\ UNCHANGED <<pump, stopper, sent, delivered, withdrawn>>
  /\ Keeps(coord, coord')
  /\ \A x \in (armed \cup expiring)' :
       \/ x \in armed \cup expiring
       \/ disp[d].pc = "arm" /\ x.cmd = disp[d].cmd
  /\ termLock' # termLock => termLock \in {Free, d}
  /\ NeedsLock(disp'[d]) => termLock' = d
  /\ Phase(disp'[d], coord.active.cmd)

ThreadKeeps ==
  /\ Basics' /\ DispInv' /\ LockInv' /\ PhaseInv' /\ DeadlineInv'

LEMMA BasicsKept ==
  ASSUME Basics, left' \in LeftType, SameRange,
         lastInc' \in Nat, handle' \in Nat, stopper' = stopper, sent' = sent, delivered' = delivered,
         pump'.line.cmd \in Ids, pump'.line.kind # "rejected",
         CoordOK(coord'), coord'.active.cmd \in Ids,
         \A x \in (armed \cup expiring)' : x.cmd \in Ids
  PROVE  Basics'
<1>1. Ids' = Ids /\ InitialCmd' = InitialCmd
  BY RangeKept
<1>. QED  BY <1>1 DEF Basics, SameRange

LEMMA ThreadStep ==
  ASSUME Inv, NEW d \in Dispatchers, ThreadMoves(d)
  PROVE  ThreadKeeps
<1>. USE DEF Inv, ThreadMoves
<1>1. AllFollow
  BY MovesOn
<1>2. coord'.active.cmd = coord.active.cmd /\ CoordOK(coord')
  BY DEF Keeps
<1>3. Basics'
  <2>1. coord'.active.cmd \in Ids /\ pump'.line.cmd \in Ids /\ pump'.line.kind # "rejected"
        /\ lastInc' \in Nat /\ handle' \in Nat /\ stopper' = stopper /\ sent' = sent /\ delivered' = delivered
    BY <1>2 DEF Basics
  <2>2. \A x \in (armed \cup expiring)' : x.cmd \in Ids
    BY DEF Basics, DispInv, Threads, DispType
  <2>. QED  BY <1>2, <2>1, <2>2, BasicsKept
<1>4. DispInv'
  BY <1>1, DispKept
<1>5. LockInv'
  BY LocksKept
<1>6. PhaseInv'
  BY <1>2, PhasesKept
<1>7. DeadlineInv'
  <2>. SUFFICES ASSUME NEW x \in (armed \cup expiring)', NEW e \in Dispatchers,
                       disp'[e].pc \in Holding
                PROVE  disp'[e].cmd # x.cmd
    BY DEF DeadlineInv
  <2>1. disp[e].pc \in Holding /\ disp'[e].cmd = disp[e].cmd
    BY <1>1, PCSets DEF AllFollow, Follows
  <2>2. CASE x \in armed \cup expiring
    BY <2>1, <2>2 DEF DeadlineInv
  <2>3. CASE disp[d].pc = "arm" /\ x.cmd = disp[d].cmd
    <3>1. e # d /\ disp[d].cmd # 0
      BY <2>1, <2>3, PCSets, FlyingIds
    <3>. QED  BY <2>1, <2>3, <3>1 DEF DispInv
  <2>. QED  BY <2>2, <2>3
<1>. QED  BY <1>3, <1>4, <1>5, <1>6, <1>7 DEF ThreadKeeps

\* If the helper is left alone too, and no claim is let go, all is kept.
LEMMA QuietThread ==
  ASSUME Inv, NEW d \in Dispatchers, ThreadMoves(d), helper' = helper, QueueMoves,
         Queued(queue') = Queued(queue),
         disp[d].pc \in Holding => \/ disp'[d].pc \in Holding
                                   \/ coord.active.cmd = disp[d].cmd
                                   \/ Out(queue') => queue'[1].cmd # disp[d].cmd
  PROVE  Inv'
<1>1. ThreadKeeps
  BY ThreadStep
<1>2. AllFollow /\ SameRange /\ pump' = pump /\ stopper' = stopper
      /\ delivered' = delivered /\ sent' = sent /\ withdrawn' = withdrawn
  BY MovesOn DEF ThreadMoves
<1>3. coord'.active.cmd = coord.active.cmd
  BY DEF ThreadMoves, Keeps
<1>. USE DEF Inv
<1>4. HelperMoves /\ Ids' = Ids
  BY <1>2, RangeKept, HelperStays
<1>5. FgInv'
  BY <1>3, <1>4 DEF FgInv
<1>6. QueueStep(queue, queue') /\ ClaimKept(queue, queue')
  BY DEF QueueMoves, QueueStep
<1>7. FreshInv'
  BY <1>2, <1>4, FreshKept DEF Quieter
<1>8. QueueInv' /\ ClaimInv' /\ PromptInv' /\ AttemptInv'
  BY <1>2, <1>4, <1>6, QueueKept, ClaimsKept, PromptsKept, AttemptsKept
<1>9. TakenInv'
  BY <1>2, <1>6, TakenKept
<1>10. OwnedInv'
  <2>1. \A e \in Dispatchers : disp[e].pc \in Holding =>
           \/ disp'[e].pc \in Holding
           \/ coord.active.cmd = disp[e].cmd
           \/ Out(queue') => queue'[1].cmd # disp[e].cmd
    BY DEF ThreadMoves, OnlyMoves
  <2>. QED  BY <1>2, <1>3, <1>6, <2>1, OwnerKept
<1>11. NothingLost'
  BY <1>2, NothingGetsLost
<1>. QED  BY <1>1, <1>5, <1>7, <1>8, <1>9, <1>10, <1>11 DEF ThreadKeeps

\* A thread that has nothing out owes nothing.
LEMMA Landed ==
  ASSUME NEW d \in Dispatchers, NEW c,
         disp'[d].pc \in {"idle", "gate", "claim", "peek", "after", "recheck"},
         disp'[d].cmd \in {0, disp[d].cmd}
  PROVE  /\ Follows(disp[d], disp'[d]) /\ ~NeedsLock(disp'[d]) /\ Phase(disp'[d], c)
         /\ disp'[d].pc \notin Holding
BY PCSets DEF Follows, NeedsLock, Phase

LEMMA Carried ==
  ASSUME NEW d \in Dispatchers, disp'[d].cmd = disp[d].cmd,
         disp'[d].msgs = disp[d].msgs, disp'[d].attempt = disp[d].attempt,
         \/ disp[d].pc \in Unwritten /\ disp'[d].pc \in Holding
         \/ disp[d].pc \in Holding /\ disp'[d].pc \in Holding \ Unwritten
         \/ disp[d].pc \in Holding /\ disp'[d].pc = "park"
         \/ disp[d].pc = "write" /\ disp'[d].pc = "arm"
  PROVE  Follows(disp[d], disp'[d])
BY PCSets DEF Follows, Unwritten, Holding, Flying

LEMMA QueueStays ==
  ASSUME QueueInv, queue' = queue
  PROVE  QueueMoves /\ Queued(queue') = Queued(queue)
BY NoQueueStep DEF QueueInv, QueueMoves

LEMMA CoordStays ==
  ASSUME Basics, coord' = coord
  PROVE  Keeps(coord, coord')
BY Blocks DEF Basics

LEMMA LandedStep ==
  ASSUME Inv, NEW d \in Dispatchers, OnlyMoves(d),
         disp'[d].pc \in {"idle", "gate", "claim", "peek", "after", "recheck"},
         disp'[d].cmd \in {0, disp[d].cmd}, disp[d].pc \notin Holding,
         Keeps(coord, coord'), left' = left,
         (armed' = armed /\ expiring' = expiring) \/
           (disp[d].pc = "arm" /\ expiring' = expiring /\
            \A x \in armed' : x \in armed \/ x.cmd = disp[d].cmd),
         UNCHANGED <<queue, lastCmd, lastInc, handle, termLock, pump, stopper, helper,
                     sent, delivered, withdrawn>>
  PROVE  Inv'
<1>1. /\ Follows(disp[d], disp'[d]) /\ ~NeedsLock(disp'[d])
      /\ Phase(disp'[d], coord.active.cmd)
  BY Landed
<1>2. left' \in LeftType /\ SameRange
  BY DEF Inv, Basics, SameRange
<1>3. ThreadMoves(d)
  BY <1>1, <1>2 DEF ThreadMoves, Inv, Basics
<1>4. QueueMoves /\ Queued(queue') = Queued(queue)
  BY QueueStays DEF Inv
<1>. QED  BY <1>3, <1>4, QuietThread

LEMMA StartDispatchStep ==
  ASSUME Inv, NEW d \in Dispatchers, NEW t \in Trigger, StartDispatch(d, t)
  PROVE  Inv'
<1>1. disp \in Threads /\ lastCmd \in Nat
  BY DEF Inv, DispInv, Basics
<1>2. Keeps(coord, coord')
  BY CoordStays DEF StartDispatch, Inv
<1>3. disp[d].pc = "idle" /\ disp[d].pc \notin Holding
  BY PCSets DEF StartDispatch, At
<1>4. CASE GateOpen(t)
  <2>. DEFINE y == [IdleDispatcher EXCEPT !.pc = "claim", !.visible = (t = Visible)]
  <2>1. y \in DispType(Ids) /\ y.pc = "claim" /\ y.cmd = 0
    <3>1. <<>> \in Seq(Msgs) /\ 0 \in Ids
      BY <1>1, EmptySeq DEF Ids
    <3>. QED  BY <3>1 DEF IdleDispatcher, DispType, PCs, Errors
  <2>2. disp' = [disp EXCEPT ![d] = y]
    BY <1>4 DEF StartDispatch
  <2>. HIDE DEF y
  <2>3. OnlyMoves(d) /\ disp'[d].pc = "claim" /\ disp'[d].cmd = 0
    BY <1>1, <2>1, <2>2 DEF OnlyMoves, Threads
  <2>. QED  BY <1>2, <1>3, <2>3, LandedStep DEF StartDispatch, fifo, host, deadlines, history
<1>5. CASE ~GateOpen(t)
  <2>1. OnlyMoves(d) /\ disp'[d].pc = "idle" /\ disp'[d].cmd = disp[d].cmd
    BY <1>1, <1>3, <1>5 DEF StartDispatch, OnlyMoves
  <2>. QED  BY <1>2, <1>3, <2>1, LandedStep DEF StartDispatch, fifo, host, deadlines, history
<1>. QED  BY <1>4, <1>5

\* The steps that wait at a gate, find nothing, look again or return.
LEMMA WaitingSteps ==
  ASSUME Inv, NEW d \in Dispatchers,
         Gate(d) \/ NothingToClaim(d) \/ Peek(d) \/ AfterWrite(d) \/ Recheck(d)
  PROVE  Inv'
<1>. USE DEF fifo, host, deadlines, history
<1>1. disp \in Threads /\ lastCmd \in Nat /\ CoordOK(coord)
  BY DEF Inv, DispInv, Basics
<1>2. /\ disp[d].pc \notin Holding
      /\ Go(d, "claim") \/ Go(d, "after") \/ Return(d)
      /\ coord' \in {coord, Bump(coord)}
      /\ UNCHANGED <<queue, lastCmd, lastInc, handle, termLock, pump, stopper, helper, sent,
                     delivered, withdrawn, armed, expiring, left>>
  BY PCSets DEF Gate, NothingToClaim, Peek, AfterWrite, Recheck, At
<1>3. Keeps(coord, coord')
  BY <1>1, <1>2, Blocks
<1>4. /\ OnlyMoves(d) /\ disp'[d].cmd \in {0, disp[d].cmd}
      /\ disp'[d].pc \in {"idle", "claim", "after"}
  <2>1. CASE Return(d)
    BY <1>1, <2>1, Returns
  <2>2. CASE Go(d, "claim")
    BY <1>1, <2>2, GoesTo, PCSets
  <2>3. CASE Go(d, "after")
    BY <1>1, <2>3, GoesTo, PCSets
  <2>. QED  BY <1>2, <2>1, <2>2, <2>3
<1>5. disp'[d].pc \in {"idle", "gate", "claim", "peek", "after", "recheck"}
  BY <1>4
<1>. QED  BY <1>2, <1>3, <1>4, <1>5, LandedStep

LEMMA ArmDeadlineStep ==
  ASSUME Inv, NEW d \in Dispatchers, ArmDeadline(d)
  PROVE  Inv'
<1>. USE DEF fifo, host, deadlines, history
<1>1. disp \in Threads /\ lastCmd \in Nat
  BY DEF Inv, DispInv, Basics
<1>2. Keeps(coord, coord')
  BY CoordStays DEF ArmDeadline, Inv
<1>3. disp[d].pc = "arm" /\ disp[d].pc \notin Holding /\ Go(d, "peek")
  BY PCSets DEF ArmDeadline, At
<1>4. OnlyMoves(d) /\ disp'[d].cmd = disp[d].cmd /\ disp'[d].pc = "peek"
  BY <1>1, <1>3, GoesTo, PCSets
<1>5. expiring' = expiring /\ \A x \in armed' : x \in armed \/ x.cmd = disp[d].cmd
  BY DEF ArmDeadline
<1>6. /\ left' = left
      /\ UNCHANGED <<queue, lastCmd, lastInc, handle, termLock, pump, stopper, helper,
                     sent, delivered, withdrawn>>
  BY DEF ArmDeadline
<1>7. disp'[d].pc \in {"idle", "gate", "claim", "peek", "after", "recheck"}
      /\ disp'[d].cmd \in {0, disp[d].cmd}
  BY <1>4
<1>. QED  BY <1>2, <1>3, <1>4, <1>5, <1>6, <1>7, LandedStep

\* A thread goes on with its claim, and the queue stays.
LEMMA CarriedStep ==
  ASSUME Inv, NEW d \in Dispatchers, OnlyMoves(d), Follows(disp[d], disp'[d]),
         disp'[d].pc \in Holding \/ coord.active.cmd = disp[d].cmd,
         Keeps(coord, coord'), left' \in LeftType, left'.initial = left.initial,
         termLock' # termLock => termLock \in {Free, d},
         NeedsLock(disp'[d]) => termLock' = d,
         Phase(disp'[d], coord.active.cmd),
         UNCHANGED <<queue, lastCmd, lastInc, handle, pump, stopper, helper, sent,
                     delivered, withdrawn, armed, expiring>>
  PROVE  Inv'
<1>1. ThreadMoves(d)
  BY DEF ThreadMoves, SameRange, Inv, Basics
<1>2. QueueMoves /\ Queued(queue') = Queued(queue)
  BY QueueStays DEF Inv
<1>. QED  BY <1>1, <1>2, QuietThread

LEMMA LockHolder ==
  ASSUME Inv, NEW d \in Dispatchers, NeedsLock(disp[d])
  PROVE  termLock = d
BY DEF Inv, LockInv

LEMMA ObserveStep ==
  ASSUME Inv, NEW d \in Dispatchers, Observe(d)
  PROVE  Inv'
<1>. USE DEF fifo, host, deadlines, history
<1>1. disp \in Threads /\ CoordOK(coord) /\ left \in LeftType
  BY DEF Inv, DispInv, Basics
<1>2. Keeps(coord, coord')
  BY <1>1, HostMethods DEF Observe
<1>3. /\ OnlyMoves(d) /\ disp[d].pc = "claimed" /\ disp'[d].pc = "locking"
      /\ disp'[d].cmd = disp[d].cmd /\ disp'[d].msgs = disp[d].msgs
      /\ disp'[d].attempt = disp[d].attempt /\ disp'[d].retry = disp[d].retry
  BY <1>1, GoesTo DEF Observe, At, PCs, Flying, Holding, Unwritten
<1>4. disp'[d].pc \in Holding /\ Follows(disp[d], disp'[d])
  <2>1. disp[d].pc \in Unwritten /\ disp'[d].pc \in Holding
    BY <1>3 DEF Unwritten, Holding
  <2>. QED  BY <1>3, <2>1, Carried
<1>5. Phase(disp'[d], coord.active.cmd)
  BY <1>3 DEF Inv, PhaseInv, Phase
<1>6. NeedsLock(disp'[d]) => termLock = d
  <2>1. NeedsLock(disp'[d]) => NeedsLock(disp[d])
    BY <1>3 DEF NeedsLock
  <2>. QED  BY <2>1, LockHolder
<1>7. UNCHANGED <<queue, lastCmd, lastInc, handle, termLock, pump, stopper, helper, sent,
                  delivered, withdrawn, armed, expiring, left>>
  BY DEF Observe
<1>. QED  BY <1>1, <1>2, <1>3, <1>4, <1>5, <1>6, <1>7, CarriedStep

LEMMA UseHandleStep ==
  ASSUME Inv, NEW d \in Dispatchers, UseHandle(d)
  PROVE  Inv'
<1>. USE DEF fifo, host, deadlines, history
<1>1. disp \in Threads /\ CoordOK(coord) /\ left \in LeftType /\ handle \in Nat
  BY DEF Inv, DispInv, Basics
<1>2. Keeps(coord, coord')
  BY CoordStays DEF Inv, UseHandle
<1>. DEFINE y == [disp[d] EXCEPT !.pc = "admit", !.inc = handle]
<1>3. y \in DispType(Ids) /\ y.pc = "admit" /\ y.cmd = disp[d].cmd
      /\ y.msgs = disp[d].msgs /\ y.attempt = disp[d].attempt
  BY <1>1 DEF Threads, DispType, PCs, Flying, Holding, Unwritten
<1>4. disp' = [disp EXCEPT ![d] = y]
  BY DEF UseHandle
<1>. HIDE DEF y
<1>5. /\ OnlyMoves(d) /\ disp[d].pc = "locking" /\ disp'[d].pc = "admit"
      /\ disp'[d].cmd = disp[d].cmd /\ disp'[d].msgs = disp[d].msgs
      /\ disp'[d].attempt = disp[d].attempt
  BY <1>1, <1>3, <1>4 DEF UseHandle, At, OnlyMoves, Threads
<1>6. disp'[d].pc \in Holding /\ Follows(disp[d], disp'[d])
  <2>1. disp[d].pc \in Unwritten /\ disp'[d].pc \in Holding
    BY <1>5 DEF Unwritten, Holding
  <2>. QED  BY <1>5, <2>1, Carried
<1>7. Phase(disp'[d], coord.active.cmd)
  BY <1>5 DEF Inv, PhaseInv, Phase
<1>8. termLock' = d /\ termLock \in {Free, d}
  BY DEF UseHandle, HoldsOrTakes
<1>9. UNCHANGED <<queue, lastCmd, lastInc, handle, pump, stopper, helper, sent,
                  delivered, withdrawn, armed, expiring, left>>
  BY DEF UseHandle
<1>. QED  BY <1>1, <1>2, <1>5, <1>6, <1>7, <1>8, <1>9, CarriedStep

LEMMA NotStartedStep ==
  ASSUME Inv, NEW d \in Dispatchers, NotStarted(d)
  PROVE  Inv'
<1>. USE DEF fifo, host, deadlines, history
<1>1. disp \in Threads /\ CoordOK(coord) /\ left \in LeftType
  BY DEF Inv, DispInv, Basics
<1>2. Keeps(coord, coord')
  BY CoordStays DEF Inv, NotStarted
<1>3. /\ OnlyMoves(d) /\ disp[d].pc = "write" /\ disp'[d].pc = "undo"
      /\ disp'[d].cmd = disp[d].cmd /\ disp'[d].msgs = disp[d].msgs
      /\ disp'[d].attempt = disp[d].attempt
  BY <1>1, GoesTo DEF NotStarted, At, PCs, Flying, Holding, Unwritten
<1>4. disp'[d].pc \in Holding /\ Follows(disp[d], disp'[d])
  <2>1. disp[d].pc \in Unwritten /\ disp'[d].pc \in Holding
    BY <1>3 DEF Unwritten, Holding
  <2>. QED  BY <1>3, <2>1, Carried
<1>5. Phase(disp'[d], coord.active.cmd)
  BY <1>3 DEF Inv, PhaseInv, Phase
<1>6. termLock = d
  BY <1>3, LockHolder DEF NeedsLock
<1>7. UNCHANGED <<queue, lastCmd, lastInc, handle, termLock, pump, stopper, helper, sent,
                  delivered, withdrawn, armed, expiring, left>>
  BY DEF NotStarted
<1>. QED  BY <1>1, <1>2, <1>3, <1>4, <1>5, <1>6, <1>7, CarriedStep

\* The delivery failed: the thread goes to judge the claim it still holds.
LEMMA FailedStep ==
  ASSUME Inv, NEW d \in Dispatchers, NEW e \in Errors, Fail(d, e),
         disp[d].pc \in {"locking", "admit", "mark", "undo"},
         termLock' = Free, termLock \in {Free, d},
         Keeps(coord, coord'), left' \in LeftType, left'.initial = left.initial,
         UNCHANGED <<queue, lastCmd, lastInc, handle, pump, stopper, helper, sent,
                     delivered, withdrawn, armed, expiring>>
  PROVE  Inv'
<1>1. disp \in Threads
  BY DEF Inv, DispInv
<1>2. /\ OnlyMoves(d) /\ disp'[d].pc = "judge"
      /\ disp'[d].cmd = disp[d].cmd /\ disp'[d].msgs = disp[d].msgs
      /\ disp'[d].attempt = disp[d].attempt
  BY <1>1, Fails
<1>3. disp'[d].pc \in Holding /\ Follows(disp[d], disp'[d])
  <2>1. disp[d].pc \in Holding /\ disp'[d].pc \in Holding \ Unwritten
    BY <1>2 DEF Unwritten, Holding
  <2>. QED  BY <1>2, <2>1, Carried
<1>4. Phase(disp'[d], coord.active.cmd) /\ ~NeedsLock(disp'[d])
  BY <1>2 DEF Phase, NeedsLock
<1>. QED  BY <1>2, <1>3, <1>4, CarriedStep

LEMMA ReconnectFailsStep ==
  ASSUME Inv, NEW d \in Dispatchers, ReconnectFails(d)
  PROVE  Inv'
<1>. USE DEF fifo, host, deadlines, history
<1>1. Keeps(coord, coord')
  BY CoordStays DEF Inv, ReconnectFails
<1>2. left' \in LeftType /\ left'.initial = left.initial
  BY Spends DEF ReconnectFails, Inv, Basics
<1>3. PICK e \in Errors : Fail(d, e)
  BY DEF ReconnectFails, Errors
<1>4. termLock' = Free /\ termLock \in {Free, d}
  BY DEF ReconnectFails, HoldsOrTakes
<1>5. /\ disp[d].pc = "locking"
      /\ UNCHANGED <<queue, lastCmd, lastInc, handle, pump, stopper, helper, sent,
                     delivered, withdrawn, armed, expiring>>
  BY DEF ReconnectFails, At
<1>. QED  BY <1>1, <1>2, <1>3, <1>4, <1>5, FailedStep

LEMMA MarkDeliveryStep ==
  ASSUME Inv, NEW d \in Dispatchers, MarkDelivery(d)
  PROVE  Inv'
<1>. USE DEF fifo, host, deadlines, history
<1>1. Keeps(coord, coord')
  BY HostMethods DEF Inv, Basics, MarkDelivery
<1>2. left' \in LeftType /\ left'.initial = left.initial
  BY DEF MarkDelivery, Inv, Basics
<1>3. "DeliveryUncertain" \in Errors /\ Fail(d, "DeliveryUncertain")
  BY DEF MarkDelivery, Errors
<1>4. disp[d].pc = "mark"
  BY DEF MarkDelivery, At
<1>5. termLock = d
  BY <1>4, LockHolder DEF NeedsLock
<1>6. /\ termLock' = Free
      /\ UNCHANGED <<queue, lastCmd, lastInc, handle, pump, stopper, helper, sent,
                     delivered, withdrawn, armed, expiring>>
  BY DEF MarkDelivery
<1>. QED  BY <1>1, <1>2, <1>3, <1>4, <1>5, <1>6, FailedStep

LEMMA JudgeStep ==
  ASSUME Inv, NEW d \in Dispatchers, Judge(d)
  PROVE  Inv'
<1>. USE DEF fifo, host, deadlines, history
<1>1. disp \in Threads /\ left \in LeftType
  BY DEF Inv, DispInv, Basics
<1>2. Keeps(coord, coord')
  BY CoordStays DEF Inv, Judge
<1>3. UNCHANGED <<queue, lastCmd, lastInc, handle, termLock, pump, stopper, helper, sent,
                  delivered, withdrawn, armed, expiring, left>>
  BY DEF Judge
<1>4. ASSUME NEW p \in {"park", "release"}, Go(d, p),
             p = "park" => coord.active.cmd = disp[d].cmd
      PROVE  Inv'
  <2>1. /\ OnlyMoves(d) /\ disp[d].pc = "judge" /\ disp'[d].pc = p
        /\ disp'[d].cmd = disp[d].cmd /\ disp'[d].msgs = disp[d].msgs
        /\ disp'[d].attempt = disp[d].attempt
    <3>1. p \in PCs
      BY DEF PCs, Flying, Holding
    <3>. QED  BY <1>1, <1>4, <3>1, GoesTo DEF Judge, At
  <2>2. /\ disp'[d].pc \in Holding \/ coord.active.cmd = disp[d].cmd
        /\ Follows(disp[d], disp'[d])
    <3>1. /\ disp[d].pc \in Holding
          /\ disp'[d].pc \in Holding \ Unwritten \/ disp'[d].pc = "park"
      BY <2>1 DEF Unwritten, Holding
    <3>. QED  BY <1>4, <2>1, <3>1, Carried
  <2>3. Phase(disp'[d], coord.active.cmd) /\ ~NeedsLock(disp'[d])
    BY <2>1 DEF Phase, NeedsLock
  <2>. QED  BY <1>1, <1>2, <1>3, <2>1, <2>2, <2>3, CarriedStep
<1>5. \E p \in {"park", "release"} :
         Go(d, p) /\ (p = "park" => coord.active.cmd = disp[d].cmd)
  BY DEF Judge
<1>. QED  BY <1>4, <1>5

\* A claim is given back: the head is no more out, if it was this claim.
LEMMA GivesBack ==
  ASSUME Inv, NEW d \in Dispatchers, OnlyMoves(d), disp[d].pc \in Holding,
         disp'[d].pc \in {"idle", "recheck"}, disp'[d].cmd \in {0, disp[d].cmd},
         \/ queue' = ReleaseDispatch(queue, disp[d].msgs[1], disp[d].attempt)
         \/ queue' = ReleaseNotStarted(queue, disp[d].msgs[1], disp[d].cmd,
                                       disp[d].attempt),
         Keeps(coord, coord'), left' = left,
         UNCHANGED <<lastCmd, lastInc, handle, termLock, pump, stopper, helper, sent,
                     delivered, withdrawn, armed, expiring>>
  PROVE  Inv'
<1>. DEFINE m == disp[d].msgs[1]
            a == disp[d].attempt
            c == disp[d].cmd
<1>1. Follows(disp[d], disp'[d]) /\ ~NeedsLock(disp'[d]) /\ Phase(disp'[d], coord.active.cmd)
  BY Landed
<1>2. ThreadMoves(d)
  BY <1>1 DEF ThreadMoves, SameRange, Inv, Basics
<1>3. QueueOK(queue)
  BY DEF Inv, QueueInv
<1>4. /\ QueueStep(queue, queue') /\ Queued(queue') = Queued(queue)
      /\ HeadClaimedAs(queue, m, a) /\ queue[1].cmd = c /\ c # 0 => ~Out(queue')
      /\ queue' = queue \/ ~Out(queue')
  BY <1>3, ReleaseStep
<1>5. QueueMoves
  BY <1>4 DEF QueueMoves
<1>6. Out(queue') => queue'[1].cmd # c
  <2>. SUFFICES ASSUME Out(queue'), queue'[1].cmd = c PROVE FALSE
    OBVIOUS
  <2>1. Out(queue) /\ queue[1].cmd = c
    BY <1>4 DEF QueueStep, ClaimKept
  <2>2. /\ disp[d].msgs = queue[1].msgs /\ disp[d].attempt = queue[1].attempt
        /\ queue[1].state = "Dispatching"
    BY <2>1 DEF Inv, ClaimInv
  <2>3. c # 0
    BY PCSets, FlyingIds DEF Inv
  <2>4. m \in MembersOf(queue[1])
    <3>1. queue[1] \in Batch(Nat) /\ queue[1].msgs # <<>>
      BY <1>3, <2>1, QueueHead DEF QueueOK, Out
    <3>2. queue[1].msgs \in Seq(Msgs) /\ 1 \in DOMAIN queue[1].msgs
      BY <3>1, EmptySeq, LenProperties DEF Batch
    <3>. QED  BY <2>2, <3>2 DEF MembersOf
  <2>. QED  BY <1>4, <2>1, <2>2, <2>3, <2>4 DEF HeadClaimedAs, Out
<1>. QED  BY <1>2, <1>4, <1>5, <1>6, QuietThread

LEMMA GiveBackSteps ==
  ASSUME Inv, NEW d \in Dispatchers, GiveBack(d) \/ Release(d)
  PROVE  Inv'
<1>. USE DEF fifo, host, deadlines, history
<1>1. disp \in Threads /\ lastCmd \in Nat /\ CoordOK(coord)
  BY DEF Inv, DispInv, Basics
<1>2. Keeps(coord, coord')
  BY <1>1, Blocks DEF GiveBack, Release
<1>3. disp[d].pc \in Holding
  BY DEF GiveBack, Release, At, Holding
<1>4. /\ OnlyMoves(d)
      /\ disp'[d].pc \in {"idle", "recheck"} /\ disp'[d].cmd \in {0, disp[d].cmd}
  <2>1. CASE GiveBack(d)
    BY <1>1, <2>1, Returns DEF GiveBack
  <2>2. CASE Release(d)
    BY <1>1, <2>2, GoesTo, PCSets DEF Release
  <2>. QED  BY <2>1, <2>2
<1>5. \/ queue' = ReleaseDispatch(queue, disp[d].msgs[1], disp[d].attempt)
      \/ queue' = ReleaseNotStarted(queue, disp[d].msgs[1], disp[d].cmd,
                                    disp[d].attempt)
  BY DEF GiveBack, Release
<1>6. UNCHANGED <<lastCmd, lastInc, handle, termLock, pump, stopper, helper, sent,
                  delivered, withdrawn, armed, expiring, left>>
  BY DEF GiveBack, Release
<1>. QED  BY <1>2, <1>3, <1>4, <1>5, <1>6, GivesBack

LEMMA OwnsNamed ==
  ASSUME NEW h, NEW c, Owns(h, c)
  PROVE  Named(h, c)
BY DEF Owns, Named

LEMMA PromptNamed ==
  ASSUME NEW h, NEW c, NEW ms, HasPrompt(h, c, ms)
  PROVE  Named(h, c)
BY DEF HasPrompt, Named

LEMMA TakenNamed ==
  ASSUME NEW h, NEW c, Taken(h, c)
  PROVE  Named(h, c)
BY DEF Taken, Named, Said

LEMMA BlankMoves ==
  ASSUME NEW N, NEW h, NEW g, Blank(N, g)
  PROVE  Evolves(N, h, g, {})
BY DEF Blank, Evolves

\* What is left when nobody takes anything up and the pump says nothing new.
LEMMA RestKept ==
  ASSUME Inv, AllFollow, SameRange, QueueMoves, HelperMoves, Quieter(pump, pump'),
         \A c : SaidTaken(helper', pump', c) => SaidTaken(helper, pump, c),
         sent' = sent, delivered' = delivered,
         (armed \cup expiring)' \subseteq armed \cup expiring
  PROVE  /\ DispInv' /\ FreshInv' /\ QueueInv' /\ ClaimInv' /\ PromptInv' /\ TakenInv'
         /\ DeadlineInv' /\ AttemptInv'
<1>. USE DEF Inv
<1>1. QueueStep(queue, queue')
  BY DEF QueueMoves
<1>2. DispInv' /\ FreshInv' /\ QueueInv' /\ ClaimInv'
  BY <1>1, DispKept, FreshKept, QueueKept, ClaimsKept
<1>3. PromptInv' /\ TakenInv' /\ DeadlineInv' /\ AttemptInv'
  BY <1>1, PromptsKept, TakenKept, DeadlinesKept, AttemptsKept
<1>. QED  BY <1>2, <1>3

LEMMA ParkThread ==
  ASSUME Inv, NEW d \in Dispatchers, Park(d)
  PROVE  Inv'
<1>. USE DEF fifo, host, deadlines, history
<1>1. disp \in Threads /\ lastCmd \in Nat /\ CoordOK(coord)
  BY DEF Inv, DispInv, Basics
<1>2. Keeps(coord, coord')
  BY <1>1, Blocks DEF Park
<1>3. disp[d].pc = "park" /\ OnlyMoves(d) /\ disp'[d].pc = "idle" /\ disp'[d].cmd = 0
  BY <1>1, Returns DEF Park, At
<1>4. /\ Follows(disp[d], disp'[d]) /\ ~NeedsLock(disp'[d])
      /\ Phase(disp'[d], coord.active.cmd)
      /\ disp'[d].pc \notin Holding /\ disp[d].pc \notin Holding
  BY <1>3, Landed, PCSets
<1>5. UNCHANGED <<lastCmd, lastInc, handle, termLock, pump, stopper, helper, sent,
                  delivered, withdrawn, armed, expiring, left>>
  BY DEF Park
<1>6. ThreadMoves(d)
  BY <1>2, <1>3, <1>4, <1>5 DEF ThreadMoves, SameRange, Inv, Basics
<1>. DEFINE m == disp[d].msgs[1]
            a == disp[d].attempt
<1>7. /\ QueueStep(queue, queue') /\ Queued(queue') = Queued(queue)
      /\ queue' = queue \/ HeadClaimedAs(queue, m, a)
  BY ParkStep DEF Park, Inv, QueueInv
<1>8. QueueMoves
  <2>1. CASE queue' = queue
    BY <1>7, <2>1 DEF QueueMoves
  <2>2. CASE HeadClaimedAs(queue, m, a)
    <3>1. queue[1].cmd = disp[d].cmd
      <4>1. 1 \in DOMAIN queue /\ queue # <<>>
        BY <2>2, QueueHead DEF HeadClaimedAs, Inv, QueueInv, QueueOK
      <4>2. Recognises(disp[d], queue[1])
        BY <1>3, <4>1 DEF Inv, AttemptInv
      <4>. QED  BY <2>2, <4>2 DEF Recognises, HeadClaimedAs, Claimed
    <3>2. ASSUME Out(queue'), NEW e \in Dispatchers, disp'[e].pc \in Holding
          PROVE  disp'[e].cmd # queue'[1].cmd
      <4>1. queue'[1].cmd = disp[d].cmd
        BY <1>7, <3>1, <3>2 DEF QueueStep, ClaimKept
      <4>2. e # d /\ disp'[e] = disp[e]
        BY <1>3, <1>4, <3>2 DEF OnlyMoves
      <4>3. disp[d].cmd # 0
        BY <1>3, PCSets, FlyingIds DEF Inv
      <4>. QED  BY <4>1, <4>2, <4>3 DEF Inv, DispInv
    <3>. QED  BY <1>7, <3>2 DEF QueueMoves
  <2>. QED  BY <1>7, <2>1, <2>2
<1>. QED  BY <1>4, <1>5, <1>6, <1>7, <1>8, QuietThread

\* The coordinator admits or gives up the command of the thread that has the lock:
\* nobody else is between admission and write.
LEMMA OwnerChanges ==
  ASSUME Inv, NEW d \in Dispatchers, OnlyMoves(d), Follows(disp[d], disp'[d]),
         NeedsLock(disp[d]), disp[d].pc \in Holding, disp'[d].pc \in Holding,
         termLock' \in {Free, d}, NeedsLock(disp'[d]) => termLock' = d,
         CoordOK(coord'), coord'.active.cmd \in {0, disp[d].cmd},
         coord.active.cmd \in {0, disp[d].cmd},
         Phase(disp'[d], coord'.active.cmd),
         \A c : ~Owns(helper, c),
         UNCHANGED <<queue, lastCmd, lastInc, handle, pump, stopper, helper, sent,
                     delivered, withdrawn, armed, expiring, left>>
  PROVE  Inv'
<1>1. AllFollow
  BY MovesOn
<1>2. SameRange /\ left' \in LeftType
  BY DEF SameRange, Inv, Basics
<1>0. Ids' = Ids /\ 0 \in Ids
  BY <1>2, RangeKept DEF Inv
<1>3. HelperMoves /\ QueueMoves
  BY <1>0, HelperStays, QueueStays DEF Inv
<1>4. /\ DispInv' /\ FreshInv' /\ QueueInv' /\ ClaimInv' /\ PromptInv' /\ TakenInv'
      /\ DeadlineInv' /\ AttemptInv'
  BY <1>1, <1>2, <1>3, RestKept DEF Quieter
<1>5. disp[d].cmd \in Ids /\ disp[d].cmd # 0
  BY PCSets, FlyingIds DEF Inv
<1>6. Basics'
  <2>1. coord'.active.cmd \in Ids
    BY <1>0, <1>5
  <2>. QED  BY <1>2, <2>1, BasicsKept DEF Inv, Basics
<1>7. FgInv'
  BY <1>0 DEF Inv, FgInv
<1>8. termLock = d
  BY LockHolder
<1>9. LockInv'
  BY <1>8, LocksKept DEF Inv
<1>10. PhaseInv'
  <2>. SUFFICES ASSUME NEW e \in Dispatchers, e # d
                PROVE  Phase(disp'[e], coord'.active.cmd)
    BY DEF PhaseInv
  <2>1. disp'[e] = disp[e] /\ ~NeedsLock(disp[e])
    BY <1>8 DEF OnlyMoves, Inv, LockInv
  <2>2. disp[e].pc \in {"claimed", "locking", "admit"} =>
          disp[e].cmd # 0 /\ disp[e].cmd # disp[d].cmd
    <3>1. disp[e].pc \in {"claimed", "locking", "admit"} => disp[e].pc \in Flying
      BY DEF Flying, Holding, Unwritten
    <3>. QED  BY <1>5, <3>1, FlyingIds DEF Inv, DispInv
  <2>. QED  BY <2>1, <2>2 DEF Phase, NeedsLock
<1>11. OwnedInv'
  <2>. SUFFICES ASSUME Out(queue)
                PROVE  Owned(queue[1].cmd, coord'.active.cmd, pump, stopper, disp')
    BY DEF OwnedInv
  <2>1. Owned(queue[1].cmd, coord.active.cmd, pump, stopper, disp)
    BY DEF Inv, OwnedInv
  <2>2. queue[1].cmd # 0
    <3>1. queue # <<>> /\ queue[1].cmd \in Nat /\ InitialCmd \in Nat
      BY QueueHead DEF Out, Inv, QueueInv, QueueOK, Basics, Ids
    <3>. QED  BY <3>1 DEF Inv, QueueInv
  <2>3. \A e \in Dispatchers : disp[e].pc \in Holding =>
          disp'[e].pc \in Holding /\ disp'[e].cmd = disp[e].cmd
    BY <1>1, PCSets DEF AllFollow, Follows, OnlyMoves
  <2>4. CASE coord.active.cmd = queue[1].cmd
    <3>1. disp[d].cmd = queue[1].cmd
      BY <2>2, <2>4
    <3>. QED  BY <2>3, <3>1 DEF Owned
  <2>5. CASE \E e \in Dispatchers : disp[e].pc \in Holding /\ disp[e].cmd = queue[1].cmd
    BY <2>3, <2>5 DEF Owned
  <2>. QED  BY <2>1, <2>4, <2>5 DEF Owned
<1>12. NothingLost'
  BY NothingGetsLost DEF Inv
<1>. QED  BY <1>4, <1>6, <1>7, <1>9, <1>10, <1>11, <1>12 DEF Inv

LEMMA AdmitPromptStep ==
  ASSUME Inv, NEW d \in Dispatchers, AdmitPrompt(d)
  PROVE  Inv'
<1>. USE DEF fifo, host, deadlines, history
<1>. DEFINE v == AdmissionVerdict(coord, disp[d].inc)
<1>1. disp \in Threads /\ CoordOK(coord) /\ left \in LeftType
  BY DEF Inv, DispInv, Basics
<1>2. disp[d].pc = "admit" /\ NeedsLock(disp[d]) /\ disp[d].pc \in Unwritten
  BY DEF AdmitPrompt, At, NeedsLock, Unwritten
<1>3. termLock = d
  BY <1>2, LockHolder
<1>4. coord' = Admit(coord, disp[d].inc, disp[d].cmd, disp[d].attempt)
  BY DEF AdmitPrompt
<1>5. UNCHANGED <<queue, lastCmd, lastInc, handle, pump, stopper, helper, sent,
                  delivered, withdrawn, armed, expiring, left>>
  BY DEF AdmitPrompt
<1>6. CASE v = "ok"
  <2>1. coord.active.cmd = 0 /\ CoordOK(coord') /\ coord'.active.cmd = disp[d].cmd
    BY <1>1, <1>4, <1>6, Admission
  <2>2. Go(d, "write") /\ termLock' = termLock
    BY <1>6 DEF AdmitPrompt
  <2>3. "write" \in PCs
    BY DEF PCs, Flying, Holding, Unwritten
  <2>4. /\ OnlyMoves(d) /\ disp'[d].pc = "write" /\ disp'[d].cmd = disp[d].cmd
        /\ disp'[d].msgs = disp[d].msgs /\ disp'[d].attempt = disp[d].attempt
    BY <1>1, <2>2, <2>3, GoesTo
  <2>5. disp[d].pc \in Holding /\ disp'[d].pc \in Holding
    BY <1>2, <2>4 DEF Holding, Unwritten
  <2>6. Follows(disp[d], disp'[d])
    BY <1>2, <2>4, <2>5, Carried
  <2>7. Phase(disp'[d], coord'.active.cmd)
    BY <2>1, <2>4 DEF Phase
  <2>8. \A c : ~Owns(helper, c)
    BY <2>1 DEF Inv, FgInv, Owns
  <2>. QED  BY <1>2, <1>3, <1>5, <2>1, <2>2, <2>4, <2>5, <2>6, <2>7, <2>8, OwnerChanges
<1>7. CASE v # "ok"
  <2>1. Keeps(coord, coord')
    BY <1>1, <1>4, <1>7, Admission
  <2>2. v \in Errors
    BY DEF AdmissionVerdict, Errors
  <2>3. PICK e \in Errors : Fail(d, e)
    BY <1>7, <2>2 DEF AdmitPrompt, Errors
  <2>4. termLock' = Free
    BY <1>7 DEF AdmitPrompt
  <2>. QED  BY <1>1, <1>2, <1>3, <1>5, <2>1, <2>3, <2>4, FailedStep
<1>. QED  BY <1>6, <1>7

LEMMA UndoStep ==
  ASSUME Inv, NEW d \in Dispatchers, Undo(d)
  PROVE  Inv'
<1>. USE DEF fifo, host, deadlines, history
<1>. DEFINE abandoned == CanAbandonAdmission(coord, disp[d].inc, disp[d].cmd)
            retired == CanAbandonNotStarted(coord, disp[d].inc, disp[d].cmd)
<1>1. disp \in Threads /\ CoordOK(coord) /\ left \in LeftType
  BY DEF Inv, DispInv, Basics
<1>2. disp[d].pc = "undo" /\ NeedsLock(disp[d]) /\ disp[d].pc \in Unwritten
  BY DEF Undo, At, NeedsLock, Unwritten
<1>3. termLock = d
  BY <1>2, LockHolder
<1>5. UNCHANGED <<queue, lastCmd, lastInc, handle, pump, stopper, helper, sent,
                  delivered, withdrawn, armed, expiring, left>>
  BY DEF Undo
<1>6. CASE abandoned \/ retired
  <2>1. coord' = ReleaseActive(coord) \/ coord' = AbandonNotStarted(coord)
    BY <1>6 DEF Undo
  <2>2. CoordOK(coord') /\ coord'.active.cmd = 0 /\ coord.active.cmd = disp[d].cmd
    BY <1>1, <1>6, <2>1, GivenUp DEF Frees
  <2>3. \A c : ~Owns(helper, c)
    <3>. SUFFICES ASSUME NEW c, Owns(helper, c) PROVE FALSE
      OBVIOUS
    <3>1. c = disp[d].cmd /\ Named(helper, c)
      BY <2>2, OwnsNamed DEF Inv, FgInv
    <3>. QED  BY <1>2, <3>1 DEF Inv, FreshInv
  <2>4. disp[d].cmd # 0
    BY <1>2, PCSets, FlyingIds DEF Inv
  <2>5. CASE /\ disp' = [disp EXCEPT ![d].pc = "locking", ![d].retry = TRUE]
             /\ termLock' = termLock
    <3>. DEFINE y == [disp[d] EXCEPT !.pc = "locking", !.retry = TRUE]
    <3>1. /\ y \in DispType(Ids) /\ y.pc = "locking" /\ y.cmd = disp[d].cmd
          /\ y.msgs = disp[d].msgs /\ y.attempt = disp[d].attempt
      BY <1>1 DEF Threads, DispType, PCs, Flying, Holding, Unwritten
    <3>2. disp' = [disp EXCEPT ![d] = y]
      BY <2>5
    <3>. HIDE DEF y
    <3>3. /\ OnlyMoves(d) /\ disp'[d].pc = "locking" /\ disp'[d].cmd = disp[d].cmd
          /\ disp'[d].msgs = disp[d].msgs /\ disp'[d].attempt = disp[d].attempt
      BY <1>1, <3>1, <3>2 DEF OnlyMoves, Threads
    <3>4. disp[d].pc \in Holding /\ disp'[d].pc \in Holding
      BY <1>2, <3>3 DEF Holding, Unwritten
    <3>5. Follows(disp[d], disp'[d])
      BY <1>2, <3>3, <3>4, Carried
    <3>6. Phase(disp'[d], coord'.active.cmd)
      BY <2>2, <2>4, <3>3 DEF Phase
    <3>. QED  BY <1>2, <1>3, <1>5, <2>2, <2>3, <2>5, <3>3, <3>4, <3>5, <3>6, OwnerChanges
  <2>6. CASE \E e \in Errors : Fail(d, e) /\ termLock' = Free
    <3>1. /\ OnlyMoves(d) /\ disp'[d].pc = "judge" /\ disp'[d].cmd = disp[d].cmd
          /\ disp'[d].msgs = disp[d].msgs /\ disp'[d].attempt = disp[d].attempt
      BY <1>1, <2>6, Fails
    <3>2. disp[d].pc \in Holding /\ disp'[d].pc \in Holding
      BY <1>2, <3>1 DEF Holding, Unwritten
    <3>3. Follows(disp[d], disp'[d])
      BY <1>2, <3>1, <3>2, Carried
    <3>4. Phase(disp'[d], coord'.active.cmd) /\ ~NeedsLock(disp'[d])
      BY <3>1 DEF Phase, NeedsLock
    <3>. QED  BY <1>2, <1>3, <1>5, <2>2, <2>3, <2>6, <3>1, <3>2, <3>3, <3>4, OwnerChanges
  <2>. QED  BY <2>5, <2>6 DEF Undo, Errors
<1>7. CASE ~abandoned /\ ~retired
  <2>1. coord' = coord /\ termLock' = Free
    BY <1>7 DEF Undo
  <2>2. PICK e \in Errors : Fail(d, e)
    BY <1>7 DEF Undo, Errors
  <2>3. Keeps(coord, coord')
    BY <2>1, CoordStays DEF Inv
  <2>. QED  BY <1>1, <1>2, <1>3, <1>5, <2>1, <2>2, <2>3, FailedStep
<1>. QED  BY <1>6, <1>7

-----------------------------------------------------------------------------
(* The steps of the others: the pump, the stopper, the user, the deadlines  *)
(* and the helper.                                                          *)

StopperType(N) == [pc : {"idle", "clicked", "remove"}, cmd : N]

LEMMA ZeroPhase ==
  ASSUME Inv, NEW d \in Dispatchers, disp[d].pc \notin {"write", "undo"}
  PROVE  Phase(disp[d], 0)
<1>1. disp[d].pc \in {"claimed", "locking", "admit"} => disp[d].pc \in Flying
  BY DEF Flying, Holding, Unwritten
<1>. QED  BY <1>1, FlyingIds DEF Inv, Phase

\* No thread moves.
LEMMA Apart ==
  ASSUME Inv, disp' = disp, sent' = sent, SameRange, left' \in LeftType,
         lastInc' \in Nat, handle' \in Nat, delivered' \in Seq(Msgs),
         stopper' \in StopperType(Ids),
         pump'.line.cmd \in Ids, pump'.line.kind # "rejected",
         CoordOK(coord'), coord'.active.cmd \in {0, coord.active.cmd},
         coord'.active.cmd # coord.active.cmd =>
           \A d \in Dispatchers : disp[d].pc \notin {"write", "undo"},
         termLock' # termLock => \A d \in Dispatchers : ~NeedsLock(disp[d]),
         stopper'.pc = "remove" => termLock' = "stop",
         (armed \cup expiring)' \subseteq armed \cup expiring,
         QueueMoves
  PROVE  /\ Basics' /\ DispInv' /\ LockInv' /\ PhaseInv' /\ QueueInv'
         /\ ClaimInv' /\ DeadlineInv' /\ AttemptInv'
<1>. USE DEF Inv
<1>1. AllFollow /\ QueueStep(queue, queue')
  BY NobodyMoves DEF DispInv, QueueMoves
<1>2. Ids' = Ids /\ InitialCmd' = InitialCmd /\ 0 \in Ids
  BY RangeKept
<1>3. DispInv' /\ QueueInv' /\ ClaimInv' /\ DeadlineInv' /\ AttemptInv'
  BY <1>1, DispKept, QueueKept, ClaimsKept, DeadlinesKept, AttemptsKept
<1>4. Basics'
  <2>1. coord'.active.cmd \in Ids
    BY <1>2 DEF Basics
  <2>2. \A x \in (armed \cup expiring)' : x.cmd \in Ids
    BY DEF Basics
  <2>. QED  BY <1>2, <2>1, <2>2 DEF Basics, SameRange, StopperType
<1>5. LockInv'
  BY DEF LockInv
<1>6. PhaseInv'
  <2>. SUFFICES ASSUME NEW d \in Dispatchers PROVE Phase(disp[d], coord'.active.cmd)
    BY DEF PhaseInv
  <2>1. CASE coord'.active.cmd = coord.active.cmd
    BY <2>1 DEF PhaseInv
  <2>2. CASE coord'.active.cmd # coord.active.cmd
    BY <2>2, ZeroPhase
  <2>. QED  BY <2>1, <2>2
<1>. QED  BY <1>3, <1>4, <1>5, <1>6

\* Nor does anybody name a command for the first time.
LEMMA Elsewhere ==
  ASSUME Inv, disp' = disp, sent' = sent, SameRange, left' \in LeftType,
         lastInc' \in Nat, handle' \in Nat, delivered' \in Seq(Msgs),
         stopper' \in StopperType(Ids),
         pump'.line.cmd \in Ids, pump'.line.kind # "rejected", Quieter(pump, pump'),
         CoordOK(coord'), coord'.active.cmd \in {0, coord.active.cmd},
         coord'.active.cmd # coord.active.cmd =>
           \A d \in Dispatchers : disp[d].pc \notin {"write", "undo"},
         termLock' # termLock => \A d \in Dispatchers : ~NeedsLock(disp[d]),
         stopper'.pc = "remove" => termLock' = "stop",
         (armed \cup expiring)' \subseteq armed \cup expiring,
         HelperMoves, QueueMoves
  PROVE  /\ Basics' /\ DispInv' /\ LockInv' /\ PhaseInv' /\ FreshInv' /\ QueueInv'
         /\ ClaimInv' /\ PromptInv' /\ DeadlineInv' /\ AttemptInv'
<1>1. AllFollow /\ QueueStep(queue, queue')
  BY NobodyMoves DEF Inv, DispInv, QueueMoves
<1>2. FreshInv' /\ PromptInv'
  BY <1>1, FreshKept, PromptsKept DEF Inv
<1>. QED  BY <1>2, Apart

\* Nor does the queue.
LEMMA QueueStill ==
  ASSUME Inv, queue' = queue, disp' = disp
  PROVE  QueueMoves /\ ClaimKept(queue, queue') /\ Queued(queue') = Queued(queue)
         /\ AllFollow
BY QueueStays, NobodyMoves DEF Inv, DispInv, QueueMoves, QueueStep

\* The helper acts alone, and the SDK gets the prompts of the commands in T.
LEMMA HelperActs ==
  ASSUME Inv, NEW T, Evolves(Ids, helper, helper', T),
         left' \in LeftType, left'.initial = left.initial,
         delivered' \in Seq(Msgs), ToSet(delivered) \subseteq ToSet(delivered'),
         Out(queue) /\ queue[1].cmd \in T => MembersOf(queue[1]) \subseteq ToSet(delivered'),
         UNCHANGED <<queue, lastCmd, coord, lastInc, handle, termLock, disp, pump,
                     stopper, armed, expiring, sent, withdrawn>>
  PROVE  Inv'
<1>1. QueueMoves /\ ClaimKept(queue, queue') /\ Queued(queue') = Queued(queue) /\ AllFollow
  BY QueueStill
<1>2. SameRange /\ HelperMoves
  BY DEF SameRange, HelperMoves
<1>3. /\ Basics' /\ DispInv' /\ LockInv' /\ PhaseInv' /\ FreshInv' /\ QueueInv'
      /\ ClaimInv' /\ PromptInv' /\ DeadlineInv' /\ AttemptInv'
  <2>1. /\ lastInc' \in Nat /\ handle' \in Nat /\ stopper' \in StopperType(Ids)
        /\ pump'.line.cmd \in Ids /\ pump'.line.kind # "rejected"
        /\ CoordOK(coord') /\ coord'.active.cmd \in {0, coord.active.cmd}
    BY DEF Inv, Basics, StopperType
  <2>2. Quieter(pump, pump') /\ (stopper'.pc = "remove" => termLock' = "stop")
    BY DEF Quieter, Inv, LockInv
  <2>. QED  BY <1>1, <1>2, <2>1, <2>2, Elsewhere
<1>4. FgInv'
  <2>1. Ids' = Ids
    BY <1>2, RangeKept DEF Inv
  <2>. QED  BY <2>1 DEF Evolves, Inv, FgInv
<1>5. TakenInv'
  <2>. SUFFICES ASSUME Out(queue), SaidTaken(helper', pump, queue[1].cmd)
                PROVE  MembersOf(queue[1]) \subseteq ToSet(delivered')
    BY DEF TakenInv
  <2>1. SaidTaken(helper, pump, queue[1].cmd) \/ queue[1].cmd \in T
    BY DEF SaidTaken, Evolves
  <2>. QED  BY <2>1 DEF Inv, TakenInv
<1>6. OwnedInv'
  BY DEF Inv, OwnedInv
<1>7. NothingLost'
  BY <1>1, NothingGetsLost DEF Inv
<1>. QED  BY <1>3, <1>4, <1>5, <1>6, <1>7 DEF Inv

LEMMA HelperSteps ==
  ASSUME Inv, HelperStep \/ HelperCrashes
  PROVE  Inv'
<1>. USE DEF fifo, host, deadlines, history
<1>1. /\ helper \in HelperType(Ids) /\ HelperInv(helper) /\ 0 \in Ids
      /\ left \in LeftType /\ delivered \in Seq(Msgs)
  BY DEF Inv, FgInv, Basics, Ids
<1>2. /\ UNCHANGED <<queue, lastCmd, coord, lastInc, handle, termLock, disp, pump,
                     stopper, armed, expiring, sent, withdrawn>>
      /\ left' \in LeftType /\ left'.initial = left.initial
  <2>1. CASE HelperStep
    BY <1>1, <2>1 DEF HelperStep, HelperInit, HelperReads, HelperAdmits,
                      HelperNegotiates, HelperFinishes, HelperTakes
  <2>2. CASE HelperCrashes
    BY <1>1, <2>2, Spends DEF HelperCrashes
  <2>. QED  BY <2>1, <2>2
<1>3. ASSUME Evolves(Ids, helper, helper', {}), delivered' = delivered
      PROVE  Inv'
  BY <1>1, <1>2, <1>3, HelperActs
<1>4. CASE HelperInit
  <2>. DEFINE i == IF helper.inc = 1 THEN InitialCmd ELSE 0
              T == IF i # 0 /\ helper.pend.cmd = i THEN {i} ELSE {}
  <2>1. helper' = H!InitSettled(helper, i) /\ delivered' = delivered
    BY <1>4 DEF HelperInit, HelperTakes
  <2>2. Evolves(Ids, helper, helper', T)
    BY <1>1, <2>1, InitSettles
  <2>3. ~(Out(queue) /\ queue[1].cmd \in T)
    <3>1. \A c \in T : c = InitialCmd /\ InitialCmd \in Nat
      BY DEF Inv, Basics, Ids
    <3>. QED  BY <3>1 DEF Inv, QueueInv
  <2>. HIDE DEF T
  <2>. QED  BY <1>1, <1>2, <2>1, <2>2, <2>3, HelperActs
<1>5. CASE HelperReads
  <2>. DEFINE c == Head(helper.inbox)
  <2>1. helper.inbox # <<>> /\ delivered' = delivered
    BY <1>5 DEF HelperReads
  <2>2. CASE Prompt(c)
    <3>1. helper' = H!Reserve([helper EXCEPT !.inbox = Tail(@)],
                              [cmd |-> c.cmd, msgs |-> c.msgs])
      BY <1>5, <2>2 DEF HelperReads, HelperTakes, Prompt
    <3>. QED  BY <1>1, <1>3, <2>1, <2>2, <3>1, Reserves
  <2>3. CASE ~Prompt(c)
    <3>1. helper' = H!Interrupt([helper EXCEPT !.inbox = Tail(@)], c.cmd)
      BY <1>5, <2>3 DEF HelperReads, HelperTakes, Prompt
    <3>. QED  BY <1>1, <1>3, <2>1, <2>3, <3>1, Interrupts
  <2>. QED  BY <2>2, <2>3
<1>6. CASE HelperAdmits
  <2>. DEFINE c == helper.pend.cmd
              ms == helper.pend.msgs
  <2>1. /\ H!CanConsume(helper) /\ helper' = H!Consume(helper)
        /\ delivered' = delivered \o ms
    BY <1>6 DEF HelperAdmits, HelperTakes
  <2>2. Evolves(Ids, helper, helper', {c})
    BY <1>1, <2>1, Consumes
  <2>3. ms \in Seq(Msgs)
    BY <1>1 DEF HelperType
  <2>4. /\ delivered' \in Seq(Msgs)
        /\ ToSet(delivered') = ToSet(delivered) \cup ToSet(ms)
    BY <1>1, <2>1, <2>3, Members
  <2>5. Out(queue) /\ queue[1].cmd \in {c} => MembersOf(queue[1]) \subseteq ToSet(delivered')
    <3>. SUFFICES ASSUME Out(queue), queue[1].cmd = c
                  PROVE  MembersOf(queue[1]) \subseteq ToSet(delivered')
      OBVIOUS
    <3>1. queue[1].msgs = ms
      BY DEF Inv, PromptInv, HasPrompt
    <3>2. MembersOf(queue[1]) = ToSet(ms)
      BY <3>1 DEF MembersOf, ToSet
    <3>. QED  BY <2>4, <3>2
  <2>. QED  BY <1>2, <2>2, <2>4, <2>5, HelperActs
<1>7. CASE HelperNegotiates
  BY <1>1, <1>3, <1>7, Negotiates DEF HelperNegotiates, HelperTakes
<1>8. CASE HelperFinishes
  BY <1>1, <1>3, <1>8, Finishes DEF HelperFinishes, HelperTakes
<1>9. CASE HelperCrashes
  BY <1>1, <1>3, <1>9, Dies DEF HelperCrashes
<1>. QED  BY <1>4, <1>5, <1>6, <1>7, <1>8, <1>9 DEF HelperStep

\* The queue moves, or the stopper; who owns the foreground stays.
LEMMA Aside ==
  ASSUME Inv, QueueMoves, Keeps(coord, coord'),
         left' \in LeftType, left'.initial = left.initial,
         stopper' \in StopperType(Ids),
         stopper.pc = "remove" \/ stopper'.pc = "remove" => stopper' = stopper,
         withdrawn \subseteq withdrawn',
         \A m \in Queued(queue) \ Queued(queue') : m \in withdrawn' \/ m \in ToSet(delivered),
         (armed \cup expiring)' \subseteq armed \cup expiring,
         UNCHANGED <<lastCmd, lastInc, handle, termLock, disp, pump, helper, sent, delivered>>
  PROVE  Inv'
<1>1. SameRange /\ AllFollow /\ QueueStep(queue, queue') /\ ClaimKept(queue, queue')
  BY NobodyMoves DEF SameRange, Inv, DispInv, QueueMoves, QueueStep
<1>2. Ids' = Ids /\ 0 \in Ids
  BY <1>1, RangeKept DEF Inv
<1>3. HelperMoves
  BY <1>2, HelperStays DEF Inv
<1>4. CoordOK(coord') /\ coord'.active.cmd = coord.active.cmd
  BY DEF Keeps
<1>5. /\ Basics' /\ DispInv' /\ LockInv' /\ PhaseInv' /\ FreshInv' /\ QueueInv'
      /\ ClaimInv' /\ PromptInv' /\ DeadlineInv' /\ AttemptInv'
  <2>1. /\ lastInc' \in Nat /\ handle' \in Nat /\ delivered' \in Seq(Msgs)
        /\ pump'.line.cmd \in Ids /\ pump'.line.kind # "rejected" /\ Quieter(pump, pump')
        /\ (stopper'.pc = "remove" => termLock' = "stop")
    BY DEF Inv, Basics, Quieter, LockInv
  <2>. QED  BY <1>1, <1>3, <1>4, <2>1, Elsewhere
<1>6. FgInv'
  BY <1>2, <1>4 DEF Inv, FgInv
<1>7. TakenInv'
  BY <1>1, TakenKept DEF Inv
<1>8. OwnedInv'
  <2>1. \A d \in Dispatchers : disp[d].pc \in Holding => disp'[d].pc \in Holding
    OBVIOUS
  <2>. QED  BY <1>1, <1>4, <2>1, OwnerKept DEF Inv
<1>9. NothingLost'
  BY <1>1, NothingGetsLost DEF Inv, QueueStep
<1>. QED  BY <1>5, <1>6, <1>7, <1>8, <1>9 DEF Inv

LEMMA RemoveMoves ==
  ASSUME Inv, NEW c, queue' = RemoveDispatch(queue, c) \/ queue' = ConfirmAdmitted(queue, c)
  PROVE  /\ QueueMoves
         /\ Out(queue) /\ queue[1].cmd = c /\ c # 0 => ~Out(queue')
         /\ queue' = queue \/ (queue # <<>> /\ queue[1].cmd = c /\ queue' = Tail(queue))
<1>1. QueueOK(queue)
  BY DEF Inv, QueueInv
<1>2. /\ QueueStep(queue, queue')
      /\ Out(queue) /\ queue[1].cmd = c /\ c # 0 => ~Out(queue')
      /\ queue' = queue \/ (queue # <<>> /\ queue[1].cmd = c /\ queue' = Tail(queue))
  BY <1>1, RemoveStep
<1>3. Out(queue') => queue'[1].state = queue[1].state
  BY <1>1, <1>2, TailStep
<1>. QED  BY <1>2, <1>3 DEF QueueMoves

\* What a cancel or a stop takes out is withdrawn.
LEMMA WithdrawnAll ==
  ASSUME withdrawn' = Withdrawn(queue')
  PROVE  /\ withdrawn \subseteq withdrawn'
         /\ \A m \in Queued(queue) \ Queued(queue') : m \in withdrawn' \/ m \in ToSet(delivered)
BY DEF Withdrawn

LEMMA CancelStays ==
  ASSUME Inv, NEW m, Cancel(m)
  PROVE  Inv'
<1>. USE DEF fifo, host, deadlines, history
<1>1. QueueOK(queue) /\ CoordOK(coord) /\ left \in LeftType /\ stopper \in StopperType(Ids)
  BY DEF Inv, QueueInv, Basics, StopperType
<1>2. Keeps(coord, coord')
  BY <1>1, Blocks DEF Cancel
<1>3. QueueStep(queue, queue') /\ Queued(queue') = Queued(queue) \ {m}
  BY <1>1, CancelStep DEF Cancel
<1>4. Out(queue) => queue'[1] = queue[1]
  BY <1>1, MessageCancelled DEF Cancel, QueueOK, Out
<1>5. QueueMoves
  BY <1>3, <1>4 DEF QueueMoves, QueueStep, ClaimKept
<1>6. /\ withdrawn \subseteq withdrawn'
      /\ \A k \in Queued(queue) \ Queued(queue') : k \in withdrawn'
  BY <1>3 DEF Cancel
<1>7. /\ stopper' = stopper /\ left' = left
      /\ (armed \cup expiring)' \subseteq armed \cup expiring
      /\ UNCHANGED <<lastCmd, lastInc, handle, termLock, disp, pump, helper, sent, delivered>>
  BY DEF Cancel
<1>. QED  BY <1>1, <1>2, <1>5, <1>6, <1>7, Aside

LEMMA DeadlineSteps ==
  ASSUME Inv, Deadline
  PROVE  Inv'
<1>. USE DEF fifo, host, deadlines, history
<1>1. QueueOK(queue) /\ CoordOK(coord) /\ left \in LeftType /\ stopper \in StopperType(Ids)
  BY DEF Inv, QueueInv, Basics, StopperType
<1>2. ASSUME NEW x \in armed, Expire(x) PROVE Inv'
  <2>1. Keeps(coord, coord')
    BY <1>1, <1>2, HostMethods DEF Expire
  <2>2. left' \in LeftType /\ left'.initial = left.initial
    BY <1>1, <1>2, Spends DEF Expire
  <2>3. QueueMoves
    BY <1>2, QueueStays DEF Expire, Inv
  <2>4. /\ stopper' = stopper /\ queue' = queue /\ withdrawn' = withdrawn
        /\ UNCHANGED <<lastCmd, lastInc, handle, termLock, disp, pump, helper, sent,
                       delivered>>
    BY <1>2 DEF Expire
  <2>5. (armed \cup expiring)' \subseteq armed \cup expiring
    BY <1>2 DEF Expire
  <2>. QED  BY <1>1, <2>1, <2>2, <2>3, <2>4, <2>5, Aside
<1>3. ASSUME NEW x \in expiring, ExpireQueued(x) PROVE Inv'
  <2>1. Keeps(coord, coord')
    BY <1>1, <1>3, Blocks DEF ExpireQueued
  <2>2. /\ QueueStep(queue, queue') /\ Queued(queue') = Queued(queue)
        /\ queue' = queue \/ (queue # <<>> /\ queue[1].cmd = x.cmd)
    BY <1>1, <1>3, MarkStep DEF ExpireQueued
  <2>3. QueueMoves
    <3>1. CASE queue' = queue
      BY <2>2, <3>1 DEF QueueMoves
    <3>2. CASE queue[1].cmd = x.cmd
      <4>1. Out(queue') => queue'[1].cmd = x.cmd
        BY <2>2, <3>2 DEF QueueStep, ClaimKept
      <4>2. \A d \in Dispatchers : disp'[d].pc \in Holding => disp'[d].cmd # x.cmd
        BY <1>3 DEF ExpireQueued, Inv, DeadlineInv
      <4>. QED  BY <2>2, <4>1, <4>2 DEF QueueMoves
    <3>. QED  BY <2>2, <3>1, <3>2
  <2>4. /\ stopper' = stopper /\ left' = left /\ withdrawn' = withdrawn
        /\ UNCHANGED <<lastCmd, lastInc, handle, termLock, disp, pump, helper, sent,
                       delivered>>
        /\ (armed \cup expiring)' \subseteq armed \cup expiring
    BY <1>3 DEF ExpireQueued
  <2>. QED  BY <1>1, <2>1, <2>2, <2>3, <2>4, Aside
<1>. QED  BY <1>2, <1>3 DEF Deadline

\* The steps of a Stop that touch neither the helper nor the owner.
LEMMA StopSteps ==
  ASSUME Inv, StopClick \/ StopQueued \/ StopStale
  PROVE  Inv'
<1>. USE DEF fifo, host, deadlines, history
<1>1. /\ CoordOK(coord) /\ left \in LeftType /\ stopper \in StopperType(Ids) /\ 0 \in Ids
      /\ coord.active.cmd \in Ids
  BY DEF Inv, Basics, StopperType, Ids
<1>2. Keeps(coord, coord')
  BY <1>1, Blocks DEF StopClick, StopQueued, StopStale
<1>3. left' \in LeftType /\ left'.initial = left.initial
  BY <1>1, Spends DEF StopClick, StopQueued, StopStale
<1>4. /\ UNCHANGED <<lastCmd, lastInc, handle, termLock, disp, pump, helper, sent,
                     delivered>>
      /\ (armed \cup expiring)' \subseteq armed \cup expiring
  BY DEF StopClick, StopQueued, StopStale
<1>5. /\ stopper.pc # "remove" /\ stopper'.pc # "remove" /\ stopper' \in StopperType(Ids)
  BY <1>1 DEF StopClick, StopQueued, StopStale, StopRuns, IdleStop, StopperType
<1>6. CASE StopQueued
  <2>1. QueueMoves
    BY <1>6, RemoveMoves DEF StopQueued
  <2>2. /\ withdrawn \subseteq withdrawn'
        /\ \A m \in Queued(queue) \ Queued(queue') : m \in withdrawn' \/ m \in ToSet(delivered)
    BY <1>6, WithdrawnAll DEF StopQueued
  <2>. QED  BY <1>2, <1>3, <1>4, <1>5, <2>1, <2>2, Aside
<1>7. CASE StopClick \/ StopStale
  <2>1. queue' = queue /\ withdrawn' = withdrawn
    BY <1>7 DEF StopClick, StopStale
  <2>2. QueueMoves
    BY <2>1, QueueStays DEF Inv
  <2>. QED  BY <1>2, <1>3, <1>4, <1>5, <2>1, <2>2, Aside
<1>. QED  BY <1>6, <1>7

\* The helper is gone, and with it what it had.
LEMMA Retires ==
  ASSUME Inv, NEW k, RetireTo(k), CoordOK(k), k.active.cmd \in {0, coord.active.cmd},
         k.active.cmd # coord.active.cmd => \A d \in Dispatchers : ~NeedsLock(disp[d]),
         termLock' # termLock => \A d \in Dispatchers : ~NeedsLock(disp[d]),
         stopper' \in StopperType(Ids),
         stopper.pc = "remove" => stopper' = stopper,
         stopper'.pc = "remove" => termLock' = "stop",
         k.active.cmd # coord.active.cmd => stopper'.pc = "remove" /\ stopper'.cmd = coord.active.cmd,
         pump'.line.cmd = 0 \/ pump' = pump, pump'.line.kind # "rejected",
         pump'.pc # "line", pump.pc # "line",
         UNCHANGED <<queue, lastCmd, left, armed, expiring, disp, sent, delivered, withdrawn>>
  PROVE  Inv'
<1>1. QueueMoves /\ ClaimKept(queue, queue') /\ Queued(queue') = Queued(queue) /\ AllFollow
  BY QueueStill
<1>2. SameRange /\ left' \in LeftType
  BY DEF SameRange, Inv, Basics
<1>3. Ids' = Ids /\ 0 \in Ids
  BY <1>2, RangeKept DEF Inv
<1>4. Blank(Ids, helper')
  BY <1>3, BlankHelpers DEF RetireTo
<1>5. HelperMoves
  BY <1>4, BlankMoves DEF HelperMoves
<1>6. coord' = k
  BY DEF RetireTo
<1>7. /\ Basics' /\ DispInv' /\ LockInv' /\ PhaseInv' /\ FreshInv' /\ QueueInv'
      /\ ClaimInv' /\ PromptInv' /\ DeadlineInv' /\ AttemptInv'
  <2>1. /\ lastInc' \in Nat /\ handle' \in Nat /\ delivered' \in Seq(Msgs)
        /\ pump'.line.cmd \in Ids
    BY <1>3 DEF Inv, Basics, RetireTo
  <2>2. Quieter(pump, pump')
    BY DEF Quieter
  <2>3. \A d \in Dispatchers : ~NeedsLock(disp[d]) => disp[d].pc \notin {"write", "undo"}
    BY DEF NeedsLock
  <2>4. (armed \cup expiring)' \subseteq armed \cup expiring
    OBVIOUS
  <2>. QED  BY <1>1, <1>2, <1>5, <1>6, <2>1, <2>2, <2>3, <2>4, Elsewhere
<1>8. FgInv'
  BY <1>3, <1>4 DEF Blank, FgInv
<1>9. TakenInv'
  BY <1>4 DEF Blank, TakenInv, SaidTaken
<1>10. OwnedInv'
  <2>. SUFFICES ASSUME Out(queue)
                PROVE  Owned(queue[1].cmd, k.active.cmd, pump', stopper', disp)
    BY <1>6 DEF OwnedInv
  <2>1. Owned(queue[1].cmd, coord.active.cmd, pump, stopper, disp)
    BY DEF Inv, OwnedInv
  <2>2. CASE coord.active.cmd = queue[1].cmd
    BY <2>2 DEF Owned
  <2>3. CASE stopper.pc = "remove" /\ stopper.cmd = queue[1].cmd
    BY <2>3 DEF Owned
  <2>4. CASE \E d \in Dispatchers : disp[d].pc \in Holding /\ disp[d].cmd = queue[1].cmd
    BY <2>4 DEF Owned
  <2>. QED  BY <2>1, <2>2, <2>3, <2>4 DEF Owned, Resolving
<1>11. NothingLost'
  BY <1>1, NothingGetsLost DEF Inv
<1>. QED  BY <1>7, <1>8, <1>9, <1>10, <1>11 DEF Inv

\* While nobody has the lock, or Stop has it, no thread is about to write.
LEMMA NobodyWrites ==
  ASSUME Inv, termLock \in {Free, "stop"}
  PROVE  \A d \in Dispatchers : ~NeedsLock(disp[d])
BY ThreadsAssumption DEF Inv, LockInv

LEMMA ExitSteps ==
  ASSUME Inv, ExitBegin \/ ExitEnd
  PROVE  Inv'
<1>. USE DEF fifo, host, deadlines, history
<1>1. CoordOK(coord) /\ stopper \in StopperType(Ids) /\ left \in LeftType /\ 0 \in Ids
      /\ delivered \in Seq(Msgs)
  BY DEF Inv, Basics, StopperType, Ids
<1>2. pump'.line.cmd = 0 /\ pump'.line.kind # "rejected" /\ pump'.pc # "line"
      /\ pump.pc # "line"
  BY DEF ExitBegin, ExitEnd, ReconnectLockFree, IdlePump, H!Line
<1>3. UNCHANGED <<queue, lastCmd, left, armed, expiring, disp, sent, delivered, withdrawn,
                  stopper, termLock>>
  BY DEF ExitBegin, ExitEnd
<1>4. CASE ExitEnd
  <2>. DEFINE k == NoteRetired(coord, handle)
  <2>1. RetireTo(k) /\ Keeps(coord, k)
    BY <1>1, <1>4, HostMethods DEF ExitEnd
  <2>. HIDE DEF k
  <2>2. CoordOK(k) /\ k.active.cmd = coord.active.cmd
    BY <2>1 DEF Keeps
  <2>3. stopper'.pc = "remove" => termLock' = "stop"
    BY <1>3 DEF Inv, LockInv
  <2>. QED  BY <1>1, <1>2, <1>3, <2>1, <2>2, <2>3, Retires
<1>5. CASE ExitBegin
  <2>1. QueueMoves /\ ClaimKept(queue, queue') /\ Queued(queue') = Queued(queue) /\ AllFollow
    BY <1>3, QueueStill
  <2>2. SameRange /\ Ids' = Ids
    BY <1>3, RangeKept DEF SameRange, Inv
  <2>3. helper' = helper /\ coord' = coord
    BY <1>5 DEF ExitBegin
  <2>4. HelperMoves
    BY <1>1, <2>3, HelperStays DEF Inv
  <2>5. /\ Basics' /\ DispInv' /\ LockInv' /\ PhaseInv' /\ FreshInv' /\ QueueInv'
        /\ ClaimInv' /\ PromptInv' /\ DeadlineInv' /\ AttemptInv'
    <3>1. /\ lastInc' \in Nat /\ handle' \in Nat /\ pump'.line.cmd \in Ids
          /\ Quieter(pump, pump') /\ (stopper'.pc = "remove" => termLock' = "stop")
      BY <1>1, <1>2, <1>3, <1>5 DEF Inv, Basics, ExitBegin, Quieter, LockInv
    <3>2. (armed \cup expiring)' \subseteq armed \cup expiring
      BY <1>3
    <3>. QED  BY <1>1, <1>2, <1>3, <2>1, <2>2, <2>3, <2>4, <3>1, <3>2, Elsewhere
  <2>6. FgInv'
    BY <2>2, <2>3 DEF Inv, FgInv
  <2>7. TakenInv'
    BY <1>2, <1>3, <2>3 DEF Inv, TakenInv, SaidTaken
  <2>8. OwnedInv'
    BY <1>2, <1>3, <2>3 DEF Inv, OwnedInv, Owned, Resolving
  <2>9. NothingLost'
    BY <1>3, <2>1, NothingGetsLost DEF Inv
  <2>. QED  BY <2>5, <2>6, <2>7, <2>8, <2>9 DEF Inv
<1>. QED  BY <1>4, <1>5

LEMMA StopRetires ==
  ASSUME Inv, StopAbandon \/ StopRefused
  PROVE  Inv'
<1>. USE DEF fifo, host, deadlines, history
<1>. DEFINE k == AfterRetirement
            a == AbandonRetired(k, stopper.cmd).c
<1>1. CoordOK(coord) /\ stopper \in StopperType(Ids) /\ 0 \in Ids
      /\ pump.line.kind # "rejected"
  BY DEF Inv, Basics, StopperType, Ids
<1>2. Keeps(coord, k)
  BY <1>1, HostMethods, Blocks DEF AfterRetirement
<1>3. /\ stopper.pc = "clicked" /\ termLock = Free /\ pump' = pump /\ pump.pc = "idle"
      /\ stopper.cmd = coord.active.cmd
      /\ UNCHANGED <<queue, lastCmd, left, armed, expiring, disp, sent, delivered, withdrawn>>
  BY DEF StopAbandon, StopRefused, StopRuns, Doubtful, Targeted
<1>4. \A d \in Dispatchers : ~NeedsLock(disp[d])
  BY <1>3, NobodyWrites
<1>. HIDE DEF k
<1>5. CoordOK(k) /\ k.active.cmd = coord.active.cmd
  BY <1>2 DEF Keeps
<1>6. CASE StopAbandon
  <2>1. RetireTo(a) /\ Frees(a)
    BY <1>5, <1>6, GivenUp DEF StopAbandon, k
  <2>. HIDE DEF a
  <2>2. CoordOK(a) /\ a.active.cmd = 0
    BY <2>1 DEF Frees
  <2>3. /\ stopper' \in StopperType(Ids) /\ stopper'.pc = "remove" /\ termLock' = "stop"
        /\ stopper'.cmd = coord.active.cmd
    BY <1>1, <1>3, <1>6 DEF StopAbandon, StopperType
  <2>. QED  BY <1>1, <1>3, <1>4, <2>1, <2>2, <2>3, Retires
<1>7. CASE StopRefused
  <2>1. RetireTo(k)
    BY <1>7 DEF StopRefused, k
  <2>2. stopper' \in StopperType(Ids) /\ stopper'.pc = "idle"
    BY <1>1, <1>7 DEF StopRefused, IdleStop, StopperType
  <2>. QED  BY <1>1, <1>3, <1>4, <1>5, <2>1, <2>2, Retires
<1>. QED  BY <1>6, <1>7

LEMMA StopRemoveStep ==
  ASSUME Inv, StopRemove
  PROVE  Inv'
<1>. USE DEF fifo, host, deadlines, history
<1>1. /\ CoordOK(coord) /\ left \in LeftType /\ 0 \in Ids /\ delivered \in Seq(Msgs)
      /\ lastInc \in Nat /\ handle \in Nat
  BY DEF Inv, Basics, Ids
<1>2. /\ stopper.pc = "remove" /\ stopper'.pc = "idle" /\ stopper' \in StopperType(Ids)
  BY <1>1 DEF StopRemove, IdleStop, StopperType
<1>3. UNCHANGED <<lastCmd, lastInc, handle, disp, pump, armed, expiring, helper, sent,
                  delivered, left>>
  BY DEF StopRemove
<1>4. \A d \in Dispatchers : ~NeedsLock(disp[d])
  BY <1>2, NobodyWrites DEF Inv, LockInv
<1>5. QueueMoves /\ (Out(queue) /\ queue[1].cmd = stopper.cmd /\ stopper.cmd # 0 => ~Out(queue'))
  BY RemoveMoves DEF StopRemove
<1>6. CoordOK(coord') /\ coord'.active.cmd = coord.active.cmd
  BY <1>1, Blocks DEF StopRemove, Keeps
<1>7. /\ SameRange /\ AllFollow /\ Ids' = Ids
      /\ QueueStep(queue, queue') /\ ClaimKept(queue, queue')
  BY <1>3, <1>5, RangeKept, NobodyMoves DEF SameRange, Inv, DispInv, QueueMoves, QueueStep
<1>8. HelperMoves
  BY <1>1, <1>3, HelperStays DEF Inv
<1>9. /\ Basics' /\ DispInv' /\ LockInv' /\ PhaseInv' /\ FreshInv' /\ QueueInv'
      /\ ClaimInv' /\ PromptInv' /\ DeadlineInv' /\ AttemptInv'
  <2>1. /\ Quieter(pump, pump') /\ pump'.line.cmd \in Ids /\ pump'.line.kind # "rejected"
        /\ (armed \cup expiring)' \subseteq armed \cup expiring
    BY <1>3 DEF Quieter, Inv, Basics
  <2>. QED  BY <1>1, <1>2, <1>3, <1>4, <1>5, <1>6, <1>7, <1>8, <2>1, Elsewhere
<1>10. FgInv'
  BY <1>3, <1>6, <1>7 DEF Inv, FgInv
<1>11. TakenInv'
  BY <1>3, <1>7, TakenKept DEF Inv
<1>12. OwnedInv'
  <2>. SUFFICES ASSUME Out(queue')
                PROVE  Owned(queue'[1].cmd, coord'.active.cmd, pump, stopper', disp)
    BY <1>3 DEF OwnedInv
  <2>1. Out(queue) /\ queue'[1].cmd = queue[1].cmd
    BY <1>7 DEF ClaimKept
  <2>2. Owned(queue[1].cmd, coord.active.cmd, pump, stopper, disp)
    BY <2>1 DEF Inv, OwnedInv
  <2>3. queue[1].cmd # 0
    <3>1. queue # <<>> /\ queue[1].cmd \in Nat /\ InitialCmd \in Nat
      BY <2>1, QueueHead DEF Out, Inv, QueueInv, QueueOK, Basics, Ids
    <3>. QED  BY <2>1, <3>1 DEF Inv, QueueInv
  <2>4. stopper.cmd # queue[1].cmd
    BY <1>5, <2>1, <2>3
  <2>. QED  BY <1>6, <2>1, <2>2, <2>4 DEF Owned
<1>13. NothingLost'
  <2>1. /\ withdrawn \subseteq withdrawn'
        /\ \A m \in Queued(queue) \ Queued(queue') : m \in withdrawn' \/ m \in ToSet(delivered)
    BY WithdrawnAll DEF StopRemove
  <2>. QED  BY <1>3, <1>7, <2>1, NothingGetsLost DEF Inv, QueueStep
<1>. QED  BY <1>9, <1>10, <1>11, <1>12, <1>13 DEF Inv

LEMMA StopInterruptStep ==
  ASSUME Inv, StopInterrupt
  PROVE  Inv'
<1>. USE DEF fifo, host, deadlines, history
<1>. DEFINE x == [kind |-> "interrupt", cmd |-> stopper.cmd, msgs |-> <<>>]
<1>1. /\ CoordOK(coord) /\ left \in LeftType /\ 0 \in Ids /\ delivered \in Seq(Msgs)
      /\ lastInc \in Nat /\ handle \in Nat /\ stopper \in StopperType(Ids)
      /\ helper \in HelperType(Ids) /\ HelperInv(helper)
  BY DEF Inv, Basics, Ids, StopperType, FgInv
<1>2. /\ stopper.pc # "remove" /\ stopper'.pc = "idle" /\ stopper' \in StopperType(Ids)
      /\ termLock = Free /\ coord.active.cmd = stopper.cmd
  BY <1>1 DEF StopInterrupt, StopRuns, IdleStop, StopperType, Targeted
<1>3. UNCHANGED <<queue, lastCmd, coord, lastInc, handle, termLock, disp, pump, armed,
                  expiring, sent, delivered, withdrawn, left>>
  BY DEF StopInterrupt
<1>4. helper' = helper \/ helper' = H!Push(helper, x)
  BY DEF StopInterrupt
<1>5. QueueMoves /\ ClaimKept(queue, queue') /\ Queued(queue') = Queued(queue) /\ AllFollow
  BY <1>3, QueueStill
<1>6. SameRange /\ Ids' = Ids
  BY <1>3, RangeKept DEF SameRange, Inv
<1>7. /\ Basics' /\ DispInv' /\ LockInv' /\ PhaseInv' /\ QueueInv'
      /\ ClaimInv' /\ DeadlineInv' /\ AttemptInv'
  <2>1. /\ pump'.line.cmd \in Ids /\ pump'.line.kind # "rejected"
        /\ (armed \cup expiring)' \subseteq armed \cup expiring
    BY <1>3 DEF Inv, Basics
  <2>. QED  BY <1>1, <1>2, <1>3, <1>5, <1>6, <2>1, Apart
<1>8. CASE helper' = helper
  <2>1. FgInv' /\ FreshInv' /\ PromptInv' /\ TakenInv'
    BY <1>3, <1>6, <1>8 DEF Inv, FgInv, FreshInv, PromptInv, TakenInv
  <2>2. OwnedInv'
    BY <1>2, <1>3 DEF Inv, OwnedInv, Owned
  <2>3. NothingLost'
    BY <1>3 DEF Inv, NothingLost
  <2>. QED  BY <1>7, <2>1, <2>2, <2>3 DEF Inv
<1>9. CASE helper' = H!Push(helper, x)
  <2>1. /\ x \in CommandType(Ids) /\ ~Prompt(x) /\ x.cmd = stopper.cmd
    BY <1>1, EmptySeq DEF CommandType, Prompt, StopperType
  <2>. HIDE DEF x
  <2>2. /\ helper' \in HelperType(Ids) /\ HelperInv(helper')
        /\ \A c : Named(helper', c) => Named(helper, c) \/ c = stopper.cmd
        /\ \A c : Owns(helper', c) => Owns(helper, c)
        /\ \A c, ms : HasPrompt(helper', c, ms) => HasPrompt(helper, c, ms)
        /\ \A c : Taken(helper', c) <=> Taken(helper, c)
    BY <1>1, <1>9, <2>1, Pushes
  <2>3. FgInv'
    BY <1>3, <1>6, <2>2 DEF Inv, FgInv
  <2>4. FreshInv'
    <3>. SUFFICES ASSUME NEW d \in Dispatchers, disp[d].pc \in Unwritten
                  PROVE  ~Named(helper', disp[d].cmd) /\ pump.line.cmd # disp[d].cmd
      BY <1>3 DEF FreshInv
    <3>1. ~NeedsLock(disp[d])
      BY <1>2, NobodyWrites
    <3>2. disp[d].pc \in {"claimed", "locking", "admit"}
      BY <3>1 DEF NeedsLock, Unwritten
    <3>3. disp[d].cmd # stopper.cmd
      BY <1>2, <3>2 DEF Inv, PhaseInv, Phase
    <3>. QED  BY <2>2, <3>3 DEF Inv, FreshInv
  <2>5. PromptInv' /\ TakenInv'
    BY <1>3, <2>2 DEF Inv, PromptInv, TakenInv, SaidTaken
  <2>6. OwnedInv'
    BY <1>2, <1>3 DEF Inv, OwnedInv, Owned
  <2>7. NothingLost'
    BY <1>3 DEF Inv, NothingLost
  <2>. QED  BY <1>7, <2>3, <2>4, <2>5, <2>6, <2>7 DEF Inv
<1>. QED  BY <1>4, <1>8, <1>9

LEMMA PumpTakeStep ==
  ASSUME Inv, PumpTake
  PROVE  Inv'
<1>. USE DEF fifo, host, deadlines, history
<1>. DEFINE l == Head(helper.outbox)
            effect == LineEffect(coord, l, helper.inc)
<1>1. /\ CoordOK(coord) /\ left \in LeftType /\ 0 \in Ids /\ delivered \in Seq(Msgs)
      /\ lastInc \in Nat /\ handle \in Nat /\ stopper \in StopperType(Ids)
      /\ helper \in HelperType(Ids) /\ HelperInv(helper)
  BY DEF Inv, Basics, Ids, StopperType, FgInv
<1>2. /\ helper.outbox # <<>> /\ helper' = [helper EXCEPT !.outbox = Tail(@)]
      /\ coord' = effect.c
      /\ pump.pc = "idle" /\ pump'.pc = "line" /\ pump'.line = l
      /\ pump'.decision = effect.decision
      /\ UNCHANGED <<queue, lastCmd, lastInc, handle, termLock, disp, stopper, armed,
                     expiring, sent, delivered, withdrawn, left>>
  BY DEF PumpTake, ReconnectLockFree
<1>3. /\ Evolves(Ids, helper, helper', {})
      /\ l \in LineType(Ids) /\ l \in ToSet(helper.outbox)
      /\ \A c : Owns(helper', c) <=> Owns(helper, c)
  BY <1>1, <1>2, LineTaken
<1>4. /\ l.kind # "rejected" /\ l.kind \in LineKinds /\ l.cmd \in Ids
      /\ l.kind \in {"abandoned", "terminal"} => ~Owns(helper, l.cmd)
      /\ Named(helper, l.cmd) /\ \A c : Said(l, c) => Taken(helper, c)
  BY <1>1, <1>3 DEF HelperInv, SaysTrue, LineType, Named, Taken, Said
<1>. HIDE DEF l
<1>5. /\ CoordOK(effect.c)
      /\ \/ effect.c.active.cmd = coord.active.cmd
         \/ /\ effect.c.active.cmd = 0 /\ coord.active.cmd = l.cmd
            /\ l.kind \in {"abandoned", "terminal"} /\ effect.decision = "Released"
  BY <1>1, <1>4, LineJudged
<1>. HIDE DEF effect
<1>6. /\ CoordOK(coord')
      /\ \/ coord'.active.cmd = coord.active.cmd
         \/ /\ coord'.active.cmd = 0 /\ coord.active.cmd = l.cmd
            /\ l.kind \in {"abandoned", "terminal"} /\ pump'.decision = "Released"
  BY <1>2, <1>5
<1>7. QueueMoves /\ ClaimKept(queue, queue') /\ Queued(queue') = Queued(queue) /\ AllFollow
  BY <1>2, QueueStill
<1>8. SameRange /\ Ids' = Ids
  BY <1>2, RangeKept DEF SameRange, Inv
<1>9. HelperMoves
  BY <1>3 DEF HelperMoves
<1>10. coord'.active.cmd # coord.active.cmd =>
         \A d \in Dispatchers : disp[d].pc \notin {"write", "undo"}
  <2>. SUFFICES ASSUME coord.active.cmd = l.cmd, NEW d \in Dispatchers,
                       disp[d].pc \in {"write", "undo"}
                PROVE  FALSE
    BY <1>6
  <2>1. disp[d].cmd = l.cmd /\ disp[d].pc \in Unwritten
    BY DEF Inv, PhaseInv, Phase, Unwritten
  <2>. QED  BY <1>4, <2>1 DEF Inv, FreshInv
<1>11. /\ Basics' /\ DispInv' /\ LockInv' /\ PhaseInv' /\ FreshInv' /\ QueueInv'
       /\ ClaimInv' /\ PromptInv' /\ DeadlineInv' /\ AttemptInv'
  <2>1. /\ Quieter(pump, pump') /\ pump'.line.cmd \in Ids /\ pump'.line.kind # "rejected"
        /\ (stopper'.pc = "remove" => termLock' = "stop")
        /\ (armed \cup expiring)' \subseteq armed \cup expiring
    BY <1>2, <1>4 DEF Quieter, Inv, LockInv
  <2>2. coord'.active.cmd \in {0, coord.active.cmd}
    BY <1>6
  <2>. QED  BY <1>1, <1>2, <1>6, <1>7, <1>8, <1>9, <1>10, <2>1, <2>2, Elsewhere
<1>12. FgInv'
  <2>. SUFFICES ASSUME NEW c, Owns(helper', c) PROVE coord'.active.cmd = c
    BY <1>3, <1>8 DEF FgInv, Evolves
  <2>1. Owns(helper, c) /\ coord.active.cmd = c
    BY <1>3 DEF Inv, FgInv
  <2>. QED  BY <1>4, <1>6, <2>1
<1>13. TakenInv'
  <2>1. \A c : SaidTaken(helper', pump', c) => SaidTaken(helper, pump, c)
    BY <1>2, <1>3, <1>4 DEF SaidTaken, Evolves
  <2>. QED  BY <1>2, <1>7, <2>1, TakenKept DEF Inv, QueueMoves
<1>14. OwnedInv'
  <2>. SUFFICES ASSUME Out(queue)
                PROVE  Owned(queue[1].cmd, coord'.active.cmd, pump', stopper, disp)
    BY <1>2 DEF OwnedInv
  <2>1. Owned(queue[1].cmd, coord.active.cmd, pump, stopper, disp)
    BY DEF Inv, OwnedInv
  <2>. QED  BY <1>2, <1>6, <2>1 DEF Owned, Resolving
<1>15. NothingLost'
  BY <1>2 DEF Inv, NothingLost
<1>. QED  BY <1>11, <1>12, <1>13, <1>14, <1>15 DEF Inv

LEMMA PumpFinishStep ==
  ASSUME Inv, PumpFinish
  PROVE  Inv'
<1>. USE DEF fifo, host, deadlines, history
<1>. DEFINE c == pump.line.cmd
<1>1. /\ CoordOK(coord) /\ left \in LeftType /\ 0 \in Ids /\ delivered \in Seq(Msgs)
      /\ lastInc \in Nat /\ handle \in Nat /\ stopper \in StopperType(Ids)
      /\ QueueOK(queue) /\ pump.line.kind # "rejected"
  BY DEF Inv, Basics, Ids, StopperType, QueueInv
<1>2. /\ pump.pc = "line" /\ pump' = IdlePump
      /\ UNCHANGED <<lastCmd, lastInc, handle, termLock, disp, stopper, armed, helper,
                     expiring, sent, delivered, left>>
  BY DEF PumpFinish
<1>3. pump'.pc = "idle" /\ pump'.line.cmd = 0 /\ pump'.line.kind = "none"
  BY <1>2 DEF IdlePump, H!Line
<1>4. /\ \/ queue' = queue
         \/ pump.line.kind \in {"admitted", "terminal"} /\ queue' = ConfirmAdmitted(queue, c)
         \/ pump.line.kind = "abandoned" /\ queue' = RemoveDispatch(queue, c)
      /\ pump.line.kind = "terminal" /\ pump.decision = "Released" =>
           queue' = ConfirmAdmitted(queue, c)
      /\ pump.line.kind = "abandoned" /\ pump.decision = "Released" =>
           queue' = RemoveDispatch(queue, c)
  BY <1>1 DEF PumpFinish, QueueEffect
<1>5. QueueMoves
  BY <1>1, <1>4, NoQueueStep, RemoveMoves DEF QueueMoves
<1>6. CoordOK(coord') /\ coord'.active.cmd = coord.active.cmd
  <2>1. Keeps(coord, coord')
    BY <1>1, Blocks DEF PumpFinish
  <2>. QED  BY <2>1 DEF Keeps
<1>7. /\ SameRange /\ AllFollow /\ Ids' = Ids
      /\ QueueStep(queue, queue') /\ ClaimKept(queue, queue')
  BY <1>2, <1>5, RangeKept, NobodyMoves DEF SameRange, Inv, DispInv, QueueMoves, QueueStep
<1>8. HelperMoves
  BY <1>1, <1>2, HelperStays DEF Inv
<1>9. /\ Basics' /\ DispInv' /\ LockInv' /\ PhaseInv' /\ FreshInv' /\ QueueInv'
      /\ ClaimInv' /\ PromptInv' /\ DeadlineInv' /\ AttemptInv'
  <2>1. /\ Quieter(pump, pump') /\ pump'.line.cmd \in Ids /\ pump'.line.kind # "rejected"
        /\ (stopper'.pc = "remove" => termLock' = "stop")
        /\ (armed \cup expiring)' \subseteq armed \cup expiring
    BY <1>1, <1>2, <1>3 DEF Quieter, Inv, LockInv
  <2>. QED  BY <1>1, <1>2, <1>5, <1>6, <1>7, <1>8, <2>1, Elsewhere
<1>10. FgInv'
  BY <1>2, <1>6, <1>7 DEF Inv, FgInv
<1>11. TakenInv'
  <2>1. \A i : SaidTaken(helper', pump', i) => SaidTaken(helper, pump, i)
    BY <1>2, <1>3 DEF SaidTaken
  <2>. QED  BY <1>2, <1>7, <2>1, TakenKept DEF Inv
<1>12. OwnedInv'
  <2>. SUFFICES ASSUME Out(queue')
                PROVE  Owned(queue'[1].cmd, coord'.active.cmd, pump', stopper, disp)
    BY <1>2 DEF OwnedInv
  <2>1. Out(queue) /\ queue'[1].cmd = queue[1].cmd
    BY <1>7 DEF ClaimKept
  <2>2. Owned(queue[1].cmd, coord.active.cmd, pump, stopper, disp)
    BY <2>1 DEF Inv, OwnedInv
  <2>3. queue[1].cmd # 0
    <3>1. queue # <<>> /\ queue[1].cmd \in Nat /\ InitialCmd \in Nat
      BY <2>1, QueueHead DEF Out, Inv, QueueInv, QueueOK, Basics, Ids
    <3>. QED  BY <2>1, <3>1 DEF Inv, QueueInv
  <2>4. ~Resolving(pump, queue[1].cmd)
    <3>. SUFFICES ASSUME Resolving(pump, queue[1].cmd) PROVE FALSE
      OBVIOUS
    <3>1. queue[1].cmd = c
          /\ (queue' = RemoveDispatch(queue, c) \/ queue' = ConfirmAdmitted(queue, c))
      BY <1>4 DEF Resolving
    <3>. QED  BY <2>1, <2>3, <3>1, RemoveMoves
  <2>. QED  BY <1>6, <2>1, <2>2, <2>4 DEF Owned
<1>13. NothingLost'
  <2>1. withdrawn \subseteq withdrawn'
    BY DEF PumpFinish, Withdrawn
  <2>2. ASSUME NEW m \in Queued(queue) \ Queued(queue')
        PROVE  m \in withdrawn' \/ m \in ToSet(delivered)
    <3>1. CASE pump.line.kind = "abandoned"
      BY <2>2, <3>1 DEF PumpFinish, Withdrawn
    <3>2. CASE pump.line.kind # "abandoned"
      <4>1. /\ queue' # queue /\ queue' = ConfirmAdmitted(queue, c)
            /\ pump.line.kind \in {"admitted", "terminal"}
        BY <1>4, <2>2, <3>2
      <4>2. Out(queue) /\ queue[1].cmd = c /\ queue' = Tail(queue)
        BY <4>1 DEF ConfirmAdmitted, HeadOwnedBy, Out
      <4>3. SaidTaken(helper, pump, queue[1].cmd)
        BY <1>2, <4>1, <4>2 DEF SaidTaken, Said
      <4>4. MembersOf(queue[1]) \subseteq ToSet(delivered)
        BY <4>2, <4>3 DEF Inv, TakenInv
      <4>5. Queued(queue) \subseteq MembersOf(queue[1]) \cup Queued(queue')
        BY <1>1, <4>2, TailStep DEF Out
      <4>. QED  BY <2>2, <4>4, <4>5
    <3>. QED  BY <3>1, <3>2
  <2>. QED  BY <1>2, <1>7, <2>1, <2>2, NothingGetsLost DEF Inv, QueueStep
<1>. QED  BY <1>9, <1>10, <1>11, <1>12, <1>13 DEF Inv

-----------------------------------------------------------------------------
(* The steps that take something up: a prompt is written, a helper is       *)
(* launched, a head is claimed, a message is sent.                          *)

\* The prompt enters the pipe of a helper that never heard of it.
LEMMA Writes ==
  ASSUME Inv, NEW d \in Dispatchers, OnlyMoves(d), disp[d].pc = "write",
         disp'[d].pc \in {"arm", "mark"}, disp'[d].cmd = disp[d].cmd,
         disp'[d].msgs = disp[d].msgs, disp'[d].attempt = disp[d].attempt,
         helper' = H!Push(helper, Command(d)),
         left' \in LeftType, left'.initial = left.initial,
         termLock' \in {Free, d}, disp'[d].pc = "mark" => termLock' = d,
         UNCHANGED <<queue, lastCmd, coord, lastInc, handle, pump, stopper, sent,
                     delivered, withdrawn, armed, expiring>>
  PROVE  Inv'
<1>. DEFINE c == disp[d].cmd
            x == Command(d)
<1>1. /\ disp[d].pc \in Unwritten /\ disp[d].pc \in Holding /\ disp[d].pc \in Flying
      /\ NeedsLock(disp[d])
  BY DEF Unwritten, Holding, Flying, NeedsLock
<1>2. Follows(disp[d], disp'[d])
  <2>1. CASE disp'[d].pc = "arm"
    BY <2>1, Carried
  <2>2. CASE disp'[d].pc = "mark"
    <3>1. disp'[d].pc \in Holding
      BY <2>2 DEF Holding
    <3>. QED  BY <1>1, <3>1, Carried
  <2>. QED  BY <2>1, <2>2
<1>3. /\ helper \in HelperType(Ids) /\ HelperInv(helper) /\ 0 \in Ids
      /\ left \in LeftType /\ CoordOK(coord) /\ disp[d] \in DispType(Ids)
  BY DEF Inv, FgInv, Basics, Ids, DispInv, Threads
<1>4. c # 0 /\ c \in Ids /\ coord.active.cmd = c /\ ~Named(helper, c)
  BY <1>1, FlyingIds DEF Inv, PhaseInv, Phase, FreshInv
<1>5. \A e : ~Owns(helper, e)
  BY <1>4, OwnsNamed DEF Inv, FgInv
<1>6. x \in CommandType(Ids) /\ x.cmd = c /\ x.msgs = disp[d].msgs /\ Prompt(x)
  BY <1>3 DEF Command, CommandType, DispType, Prompt
<1>7. /\ helper' \in HelperType(Ids) /\ HelperInv(helper')
      /\ \A e : Named(helper', e) => Named(helper, e) \/ e = c
      /\ \A e : Owns(helper', e) => e = c
      /\ \A e, ms : HasPrompt(helper', e, ms) =>
           HasPrompt(helper, e, ms) \/ (e = c /\ ms = disp[d].msgs)
      /\ \A e : Taken(helper', e) <=> Taken(helper, e)
  <2>. HIDE DEF x
  <2>1. helper' = H!Push(helper, x)
    BY DEF x
  <2>. QED  BY <1>3, <1>4, <1>5, <1>6, <2>1, Pushes
<1>8. ThreadMoves(d)
  <2>1. Keeps(coord, coord')
    BY CoordStays DEF Inv
  <2>2. termLock = d
    BY <1>1, LockHolder
  <2>3. NeedsLock(disp'[d]) => termLock' = d
    BY DEF NeedsLock
  <2>4. Phase(disp'[d], coord.active.cmd)
    BY DEF Phase
  <2>. QED  BY <1>2, <2>1, <2>2, <2>3, <2>4 DEF ThreadMoves, SameRange, Inv, Basics
<1>9. ThreadKeeps
  BY <1>8, ThreadStep
<1>10. AllFollow /\ SameRange
  BY <1>2, <1>8, MovesOn DEF ThreadMoves
<1>11. QueueMoves /\ QueueStep(queue, queue') /\ ClaimKept(queue, queue') /\ Ids' = Ids
  BY <1>10, QueueStays, RangeKept DEF Inv, QueueMoves, QueueStep
<1>12. QueueInv' /\ ClaimInv' /\ AttemptInv'
  BY <1>10, <1>11, QueueKept, ClaimsKept, AttemptsKept DEF Inv
<1>13. FgInv'
  BY <1>4, <1>7, <1>11 DEF FgInv
<1>14. FreshInv'
  <2>. SUFFICES ASSUME NEW e \in Dispatchers, disp'[e].pc \in Unwritten
                PROVE  ~Named(helper', disp'[e].cmd) /\ pump.line.cmd # disp'[e].cmd
    BY DEF FreshInv
  <2>1. e # d /\ disp'[e] = disp[e]
    BY DEF OnlyMoves, Unwritten
  <2>2. disp[e].cmd # c
    BY <1>4, <2>1 DEF Inv, DispInv
  <2>. QED  BY <1>7, <2>1, <2>2 DEF Inv, FreshInv
<1>15. PromptInv'
  <2>. SUFFICES ASSUME Out(queue), NEW ms, HasPrompt(helper', queue[1].cmd, ms)
                PROVE  ms = queue[1].msgs
    BY DEF PromptInv
  <2>1. CASE HasPrompt(helper, queue[1].cmd, ms)
    BY <2>1 DEF Inv, PromptInv
  <2>2. CASE queue[1].cmd = c /\ ms = disp[d].msgs
    BY <1>1, <2>2 DEF Inv, ClaimInv
  <2>. QED  BY <1>7, <2>1, <2>2
<1>16. TakenInv'
  BY <1>7 DEF Inv, TakenInv, SaidTaken
<1>17. OwnedInv'
  <2>1. \A e \in Dispatchers : disp[e].pc \in Holding =>
          disp'[e].pc \in Holding \/ coord.active.cmd = disp[e].cmd
    BY <1>4 DEF OnlyMoves
  <2>. QED  BY <1>10, <1>11, <2>1, OwnerKept DEF Inv
<1>18. NothingLost'
  BY DEF Inv, NothingLost
<1>. QED  BY <1>9, <1>12, <1>13, <1>14, <1>15, <1>16, <1>17, <1>18 DEF Inv, ThreadKeeps

LEMMA WriteSteps ==
  ASSUME Inv, NEW d \in Dispatchers, Written(d) \/ WriteUnknown(d)
  PROVE  Inv'
<1>. USE DEF fifo, host, deadlines, history
<1>1. disp \in Threads /\ left \in LeftType /\ disp[d].pc = "write"
  BY DEF Inv, DispInv, Basics, Written, WriteUnknown, At
<1>2. termLock = d
  BY <1>1, LockHolder DEF NeedsLock
<1>3. UNCHANGED <<queue, lastCmd, coord, lastInc, handle, pump, stopper, sent,
                  delivered, withdrawn, armed, expiring>>
  BY DEF Written, WriteUnknown
<1>4. CASE Written(d)
  <2>1. "arm" \in PCs
    BY PCSets
  <2>2. /\ OnlyMoves(d) /\ disp'[d].pc = "arm" /\ disp'[d].cmd = disp[d].cmd
        /\ disp'[d].msgs = disp[d].msgs /\ disp'[d].attempt = disp[d].attempt
    BY <1>1, <1>4, <2>1, GoesTo DEF Written
  <2>. QED  BY <1>1, <1>3, <1>4, <2>2, Writes DEF Written
<1>5. CASE WriteUnknown(d)
  <2>1. "mark" \in PCs /\ "mark" \in Holding
    BY DEF PCs, Flying, Holding
  <2>2. /\ OnlyMoves(d) /\ disp'[d].pc = "mark" /\ disp'[d].cmd = disp[d].cmd
        /\ disp'[d].msgs = disp[d].msgs /\ disp'[d].attempt = disp[d].attempt
    BY <1>1, <1>5, <2>1, GoesTo DEF WriteUnknown
  <2>3. left' \in LeftType /\ left'.initial = left.initial /\ termLock' = termLock
    BY <1>1, <1>5, Spends DEF WriteUnknown
  <2>4. CASE helper' = H!Push(helper, Command(d))
    BY <1>1, <1>2, <1>3, <2>2, <2>3, <2>4, Writes
  <2>5. CASE helper' = helper
    <3>1. Keeps(coord, coord')
      BY <1>3, CoordStays DEF Inv
    <3>2. disp[d].pc \in Unwritten
      BY <1>1 DEF Unwritten
    <3>3. Follows(disp[d], disp'[d])
      BY <2>1, <2>2, <3>2, Carried
    <3>4. Phase(disp'[d], coord.active.cmd)
      BY <2>2 DEF Phase
    <3>. QED  BY <1>2, <1>3, <2>1, <2>2, <2>3, <2>5, <3>1, <3>3, <3>4, CarriedStep
  <2>. QED  BY <1>5, <2>4, <2>5 DEF WriteUnknown
<1>. QED  BY <1>4, <1>5

LEMMA ReconnectStep ==
  ASSUME Inv, NEW d \in Dispatchers, Reconnect(d)
  PROVE  Inv'
<1>. USE DEF fifo, host, deadlines, history
<1>1. /\ disp \in Threads /\ CoordOK(coord) /\ left \in LeftType /\ 0 \in Ids
      /\ lastInc \in Nat
  BY DEF Inv, DispInv, Basics, Ids
<1>. DEFINE n == NextGeneration
<1>2. n \in Nat /\ lastInc' = n /\ handle' = n
  BY <1>1 DEF Reconnect, NextGeneration
<1>3. helper' = H!Launched(n, H!NoPrompt) /\ coord' = NoteIncarnation(coord, n)
  BY DEF Reconnect
<1>. DEFINE y == [disp[d] EXCEPT !.pc = "admit", !.inc = n]
<1>4. disp' = [disp EXCEPT ![d] = y]
  BY DEF Reconnect
<1>. HIDE DEF n
<1>5. y \in DispType(Ids) /\ y.pc = "admit" /\ y.cmd = disp[d].cmd
      /\ y.msgs = disp[d].msgs /\ y.attempt = disp[d].attempt
  BY <1>1, <1>2 DEF Threads, DispType, PCs, Flying, Holding, Unwritten
<1>. HIDE DEF y
<1>6. /\ OnlyMoves(d) /\ disp[d].pc = "locking" /\ disp'[d].pc = "admit"
      /\ disp'[d].cmd = disp[d].cmd /\ disp'[d].msgs = disp[d].msgs
      /\ disp'[d].attempt = disp[d].attempt
  BY <1>1, <1>4, <1>5 DEF Reconnect, At, OnlyMoves, Threads
<1>7. disp'[d].pc \in Holding /\ Follows(disp[d], disp'[d])
  <2>1. disp[d].pc \in Unwritten /\ disp'[d].pc \in Holding
    BY <1>6 DEF Unwritten, Holding
  <2>. QED  BY <1>6, <2>1, Carried
<1>8. Phase(disp'[d], coord.active.cmd)
  BY <1>6 DEF Inv, PhaseInv, Phase
<1>9. termLock' = d /\ termLock \in {Free, d}
  BY DEF Reconnect, HoldsOrTakes
<1>10. Keeps(coord, coord')
  BY <1>1, <1>3, HostMethods
<1>11. UNCHANGED <<queue, lastCmd, pump, stopper, sent, delivered, withdrawn, armed,
                   expiring, left>>
  BY DEF Reconnect
<1>12. ThreadMoves(d)
  BY <1>1, <1>2, <1>6, <1>7, <1>8, <1>9, <1>10, <1>11 DEF ThreadMoves, SameRange
<1>13. ThreadKeeps
  BY <1>12, ThreadStep
<1>14. AllFollow /\ SameRange /\ coord'.active.cmd = coord.active.cmd
  BY <1>6, <1>7, <1>10, <1>12, MovesOn DEF ThreadMoves, Keeps
<1>15. QueueMoves /\ ClaimKept(queue, queue') /\ Queued(queue') = Queued(queue) /\ Ids' = Ids
  BY <1>11, <1>14, QueueStays, RangeKept DEF Inv, QueueMoves, QueueStep
<1>16. Blank(Ids, helper')
  BY <1>1, <1>2, <1>3, BlankHelpers
<1>17. HelperMoves
  BY <1>16, BlankMoves DEF HelperMoves
<1>18. FreshInv' /\ QueueInv' /\ ClaimInv' /\ PromptInv' /\ TakenInv' /\ AttemptInv'
  <2>1. \A c : SaidTaken(helper', pump', c) => SaidTaken(helper, pump, c)
    BY <1>11, <1>16 DEF SaidTaken, Blank
  <2>. QED  BY <1>11, <1>14, <1>15, <1>17, <2>1, RestKept DEF Quieter
<1>19. FgInv'
  BY <1>15, <1>16 DEF FgInv, Blank
<1>20. OwnedInv'
  <2>1. \A e \in Dispatchers : disp[e].pc \in Holding => disp'[e].pc \in Holding
    BY <1>6, <1>7 DEF OnlyMoves
  <2>. QED  BY <1>11, <1>14, <1>15, <2>1, OwnerKept DEF Inv
<1>21. NothingLost'
  BY <1>11 DEF Inv, NothingLost
<1>. QED  BY <1>13, <1>18, <1>19, <1>20, <1>21 DEF Inv, ThreadKeeps

\* Nobody has the new id, and whoever looks for the old attempt finds a newer one.
LEMMA ClaimNextStep ==
  ASSUME Inv, NEW d \in Dispatchers, ClaimNext(d)
  PROVE  Inv'
<1>. USE DEF fifo, host, deadlines, history
<1>. DEFINE c == lastCmd + 1
            y == [disp[d] EXCEPT !.pc = "claimed", !.cmd = c,
                                 !.attempt = queue[1].attempt + 1, !.msgs = queue[1].msgs,
                                 !.retry = FALSE, !.error = "none"]
<1>1. /\ disp \in Threads /\ CoordOK(coord) /\ left \in LeftType /\ 0 \in Ids
      /\ lastCmd \in Nat /\ InitialCmd \in Nat /\ InitialCmd <= lastCmd
      /\ helper \in HelperType(Ids) /\ QueueOK(queue)
  BY DEF Inv, DispInv, Basics, Ids, FgInv, QueueInv
<1>2. /\ disp[d].pc = "claim" /\ Claimable(queue) /\ lastCmd' = c
      /\ queue' = ClaimHead(queue, c)
      /\ UNCHANGED <<coord, lastInc, handle, termLock, pump, stopper, helper, sent,
                     delivered, withdrawn, armed, expiring, left>>
  BY DEF ClaimNext, At
<1>3. /\ c \in Nat /\ c # 0 /\ c > InitialCmd /\ c \notin Ids /\ Ids' = 0..c
      /\ Ids \subseteq 0..c /\ c \in 0..c
  BY <1>1, <1>2 DEF Ids
<1>4. disp' = [disp EXCEPT ![d] = y]
  BY <1>2 DEF ClaimNext
<1>. HIDE DEF c
<1>5. /\ queue # <<>> /\ queue[1] \in Batch(Nat) /\ 1 \in DOMAIN queue
      /\ queue[1].msgs \in Seq(Msgs) /\ queue[1].attempt \in Nat /\ queue[1].msgs # <<>>
      /\ MembersOf(queue[1]) \subseteq Queued(queue)
  BY <1>1, <1>2, QueueHead DEF Claimable, QueueOK
<1>6. /\ QueueOK(queue') /\ Queued(queue') = Queued(queue) /\ Out(queue')
      /\ queue'[1].cmd = c /\ queue'[1].msgs = queue[1].msgs
      /\ queue'[1].attempt = queue[1].attempt + 1
      /\ queue'[1].state = "Dispatching"
      /\ \A i \in DOMAIN queue' :
           /\ i \in DOMAIN queue
           /\ i # 1 => queue'[i] = queue[i] /\ queue'[i].state \notin Claimed
           /\ MembersOf(queue'[i]) = MembersOf(queue[i])
  BY <1>1, <1>2, <1>3, ClaimStep
<1>7. /\ y \in DispType(0..c) /\ y.pc = "claimed" /\ y.cmd = c /\ y.retry = FALSE
      /\ y.msgs = queue[1].msgs /\ y.attempt = queue[1].attempt + 1
  <2>1. disp[d] \in DispType(Ids) /\ queue[1].attempt + 1 \in Nat
    BY <1>1, <1>5 DEF Threads
  <2>. QED  BY <1>3, <1>5, <2>1 DEF DispType, PCs, Flying, Holding, Unwritten, Errors
<1>. HIDE DEF y
<1>8. /\ disp' \in [Dispatchers -> DispType(0..c)] /\ disp'[d] = y
      /\ \A e \in Dispatchers \ {d} : disp'[e] = disp[e] /\ disp[e].cmd \in Ids
  <2>1. DispType(Ids) \subseteq DispType(0..c)
    BY <1>3 DEF DispType
  <2>. QED  BY <1>1, <1>4, <1>7, <2>1 DEF Threads, DispType
<1>9. InitialCmd' = InitialCmd
  BY <1>2 DEF InitialCmd
<1>10. Basics'
  <2>1. \A x \in armed \cup expiring : x.cmd \in 0..c
    BY <1>3 DEF Inv, Basics
  <2>. QED  BY <1>2, <1>3, <1>9, <2>1 DEF Inv, Basics
<1>11. FgInv'
  BY <1>2, <1>3, Widens DEF Inv, FgInv
<1>12. DispInv'
  <2>1. Threads' = [Dispatchers -> DispType(0..c)]
    BY <1>3 DEF Threads
  <2>2. \A e \in Dispatchers : disp'[e].pc \in Flying => disp'[e].cmd > InitialCmd
    BY <1>3, <1>7, <1>8 DEF Inv, DispInv
  <2>3. ASSUME NEW e \in Dispatchers, NEW f \in Dispatchers, e # f,
               disp'[e].cmd = disp'[f].cmd
        PROVE  disp'[e].cmd = 0
    <3>1. e # d /\ f # d
      BY <1>3, <1>7, <1>8, <2>3
    <3>. QED  BY <1>8, <2>3, <3>1 DEF Inv, DispInv
  <2>. QED  BY <1>8, <1>9, <2>1, <2>2, <2>3 DEF DispInv
<1>13. LockInv'
  <2>1. ~NeedsLock(disp'[d])
    BY <1>7, <1>8 DEF NeedsLock
  <2>. QED  BY <1>2, <1>8, <2>1 DEF Inv, LockInv
<1>14. PhaseInv'
  <2>1. Phase(disp'[d], coord.active.cmd)
    BY <1>3, <1>7, <1>8 DEF Phase, Inv, Basics
  <2>. QED  BY <1>2, <1>8, <2>1 DEF Inv, PhaseInv
<1>15. FreshInv'
  <2>1. ~Named(helper, c) /\ pump.line.cmd # c
    BY <1>1, <1>3, NamesInUse DEF Inv, Basics
  <2>. QED  BY <1>2, <1>7, <1>8, <2>1 DEF Inv, FreshInv
<1>16. QueueInv'
  <2>1. \A m \in Queued(queue') : m <= sent
    BY <1>6 DEF Inv, QueueInv
  <2>. QED  BY <1>2, <1>3, <1>6, <1>9, <2>1 DEF QueueInv
<1>17. ClaimInv'
  <2>1. \A e \in Dispatchers : disp'[e].cmd = c => e = d
    BY <1>3, <1>8
  <2>. QED  BY <1>6, <1>7, <1>8, <2>1 DEF ClaimInv
<1>18. PromptInv' /\ TakenInv'
  <2>1. ~Named(helper, c) /\ pump.line.cmd # c
    BY <1>1, <1>3, NamesInUse DEF Inv, Basics
  <2>2. \A ms : ~HasPrompt(helper, c, ms)
    BY <2>1, PromptNamed
  <2>3. ~SaidTaken(helper, pump, c)
    BY <2>1, TakenNamed DEF SaidTaken, Said
  <2>. QED  BY <1>2, <1>6, <2>2, <2>3 DEF PromptInv, TakenInv
<1>19. OwnedInv'
  <2>1. disp'[d].pc \in Holding /\ disp'[d].cmd = c
    BY <1>7, <1>8 DEF Holding, Unwritten
  <2>. QED  BY <1>6, <2>1 DEF OwnedInv, Owned
<1>20. DeadlineInv'
  <2>1. \A x \in armed \cup expiring : x.cmd # c
    BY <1>3 DEF Inv, Basics
  <2>. QED  BY <1>2, <1>7, <1>8, <2>1 DEF Inv, DeadlineInv
<1>21. AttemptInv'
  <2>. SUFFICES ASSUME NEW e \in Dispatchers, disp'[e].pc \in Holding \cup {"park"}
                PROVE  /\ disp'[e].msgs # <<>>
                       /\ \A m \in ToSet(disp'[e].msgs) : m <= sent
                       /\ \A i \in DOMAIN queue' : Recognises(disp'[e], queue'[i])
    BY <1>2 DEF AttemptInv
  <2>1. CASE e = d
    <3>1. /\ disp'[e].msgs = queue[1].msgs /\ disp'[e].attempt = queue'[1].attempt
          /\ disp'[e].cmd = queue'[1].cmd
      BY <1>6, <1>7, <1>8, <2>1
    <3>2. \A m \in ToSet(disp'[e].msgs) : m <= sent
      <4>1. ToSet(queue[1].msgs) = MembersOf(queue[1])
        BY DEF ToSet, MembersOf
      <4>. QED  BY <1>5, <3>1, <4>1 DEF Inv, QueueInv
    <3>3. ASSUME NEW i \in DOMAIN queue', queue[1].msgs[1] \in MembersOf(queue'[i])
          PROVE  i = 1
      <4>1. i \in DOMAIN queue /\ queue[1].msgs[1] \in MembersOf(queue[i])
        BY <1>6, <3>3
      <4>2. PICK z \in DOMAIN queue[i].msgs : queue[1].msgs[1] = queue[i].msgs[z]
        BY <4>1 DEF MembersOf
      <4>3. 1 \in DOMAIN queue[1].msgs
        BY <1>5, LenProperties, EmptySeq
      <4>. QED  BY <1>1, <1>5, <4>1, <4>2, <4>3, OnePlace DEF QueueOK
    <3>4. ASSUME NEW i \in DOMAIN queue' PROVE Recognises(disp'[e], queue'[i])
      <4>1. queue'[1].attempt \in Nat
        BY <1>5, <1>6
      <4>. QED  BY <3>1, <3>3, <4>1 DEF Recognises
    <3>. QED  BY <1>5, <3>1, <3>2, <3>4
  <2>2. CASE e # d
    <3>1. disp'[e] = disp[e] /\ disp[e].attempt \in Nat
      BY <1>1, <1>8, <2>2 DEF Threads, DispType
    <3>2. ASSUME NEW i \in DOMAIN queue' PROVE Recognises(disp[e], queue'[i])
      <4>1. Recognises(disp[e], queue[i]) /\ i \in DOMAIN queue
        BY <1>6, <3>1 DEF Inv, AttemptInv
      <4>2. CASE i # 1
        BY <1>6, <4>1, <4>2
      <4>3. CASE i = 1
        <5>1. \A a \in Nat, b \in Nat : a >= b => a + 1 >= b /\ a + 1 # b
          OBVIOUS
        <5>2. disp[e].msgs[1] \in MembersOf(queue[1]) =>
                queue'[1].attempt >= disp[e].attempt /\ queue'[1].attempt # disp[e].attempt
          BY <1>5, <1>6, <3>1, <4>1, <4>3, <5>1 DEF Recognises
        <5>. QED  BY <1>6, <4>3, <5>2 DEF Recognises
      <4>. QED  BY <4>2, <4>3
    <3>. QED  BY <3>1, <3>2 DEF Inv, AttemptInv
  <2>. QED  BY <2>1, <2>2
<1>22. NothingLost'
  BY <1>2, <1>6 DEF Inv, NothingLost
<1>. QED  BY <1>10, <1>11, <1>12, <1>13, <1>14, <1>15, <1>16, <1>17, <1>18, <1>19, <1>20,
             <1>21, <1>22 DEF Inv

\* A prompt joins the queue; no claim, and no attempt, has anything to do with it.
LEMMA SendStep ==
  ASSUME Inv, NEW d \in Dispatchers, Send(d)
  PROVE  Inv'
<1>. USE DEF fifo, host, deadlines, history
<1>. DEFINE m == sent + 1
            y == [IdleDispatcher EXCEPT !.pc = "gate"]
<1>1. /\ disp \in Threads /\ CoordOK(coord) /\ left \in LeftType /\ 0 \in Ids
      /\ sent \in Nat /\ sent \in 0..MaxMsgs /\ QueueOK(queue) /\ lastCmd \in Nat
      /\ coord.active.cmd \in Nat
  BY DEF Inv, DispInv, Basics, Ids, QueueInv
<1>2. /\ disp[d].pc = "idle" /\ sent < left.msgs /\ sent' = m
      /\ queue' = Enqueued(queue, m, coord.active.cmd)
      /\ UNCHANGED <<lastCmd, lastInc, handle, termLock, pump, stopper, helper,
                     delivered, withdrawn, armed, expiring, left>>
  BY DEF Send, At, MergeFence
<1>3. /\ m \in Msgs /\ m \in 0..MaxMsgs /\ \A k \in Nat : k <= sent => k < m /\ k <= m
      /\ 1..m = 1..sent \cup {m}
  <2>1. left.msgs \in 0..MaxMsgs /\ MaxMsgs \in Nat /\ Msgs = 1..MaxMsgs
    BY <1>1, MsgsAssumption DEF LeftType
  <2>. QED  BY <1>1, <1>2, <2>1
<1>4. disp' = [disp EXCEPT ![d] = y]
  BY DEF Send
<1>. HIDE DEF m
<1>5. y \in DispType(Ids) /\ y.pc = "gate" /\ y.cmd = 0
  <2>1. <<>> \in Seq(Msgs)
    BY EmptySeq
  <2>. QED  BY <1>1, <2>1 DEF IdleDispatcher, DispType, PCs, Errors
<1>. HIDE DEF y
<1>6. OnlyMoves(d) /\ disp'[d].pc = "gate" /\ disp'[d].cmd = 0
  BY <1>1, <1>4, <1>5 DEF OnlyMoves, Threads
<1>7. /\ Follows(disp[d], disp'[d]) /\ ~NeedsLock(disp'[d])
      /\ Phase(disp'[d], coord.active.cmd) /\ disp'[d].pc \notin Holding
      /\ disp[d].pc \notin Holding
  BY <1>2, <1>6, Landed, PCSets
<1>8. AllFollow /\ SameRange
  BY <1>2, <1>6, <1>7, MovesOn DEF SameRange
<1>9. Ids' = Ids /\ InitialCmd' = InitialCmd
  BY <1>8, RangeKept DEF Inv
<1>10. HelperMoves
  BY <1>1, <1>2, HelperStays DEF Inv
<1>11. CoordOK(coord') /\ coord'.active.cmd = coord.active.cmd
  BY <1>1, Blocks DEF Send, Keeps
<1>12. Queued(queue) \subseteq Nat /\ \A k \in Queued(queue) : k < m /\ k <= m
  <2>1. \A i \in DOMAIN queue : MembersOf(queue[i]) \subseteq Msgs
    <3>. TAKE i \in DOMAIN queue
    <3>1. queue[i] \in Batch(Nat)
      BY <1>1, LenProperties, ElementOfSeq DEF QueueOK
    <3>2. queue[i].msgs \in Seq(Msgs)
      BY <3>1 DEF Batch
    <3>3. \A z \in DOMAIN queue[i].msgs : queue[i].msgs[z] \in Msgs
      BY <3>2, LenProperties, ElementOfSeq
    <3>. QED  BY <3>3 DEF MembersOf
  <2>2. Queued(queue) \subseteq Nat
    BY <2>1, MsgsAssumption DEF Queued
  <2>. QED  BY <1>3, <2>2 DEF Inv, QueueInv
<1>13. /\ QueueOK(queue') /\ Queued(queue') = Queued(queue) \cup {m} /\ queue' # <<>>
       /\ Out(queue) => Out(queue') /\ queue'[1] = queue[1]
       /\ Out(queue') => Out(queue)
       /\ queue'[1].cmd = 0 \/ (queue # <<>> /\ queue'[1].cmd = queue[1].cmd)
       /\ \A i \in DOMAIN queue' :
            \/ /\ i \in DOMAIN queue /\ SameDelivery(queue'[i], queue[i])
               /\ MembersOf(queue'[i]) \subseteq MembersOf(queue[i]) \cup {m}
            \/ MembersOf(queue'[i]) = {m}
  BY <1>1, <1>2, <1>3, <1>12, EnqueueStep
<1>14. Basics'
  BY <1>2, <1>3, <1>9, <1>11 DEF Inv, Basics
<1>15. FgInv'
  BY <1>2, <1>9, <1>11 DEF Inv, FgInv
<1>16. DispInv' /\ FreshInv' /\ DeadlineInv'
  BY <1>2, <1>8, <1>10, DispKept, FreshKept, DeadlinesKept DEF Inv, Quieter
<1>17. LockInv' /\ PhaseInv'
  BY <1>2, <1>6, <1>7, <1>11, LocksKept, PhasesKept DEF Inv
<1>18. QueueInv'
  <2>1. \A k \in Queued(queue') : k <= m
    BY <1>1, <1>3, <1>12, <1>13 DEF m
  <2>2. queue'[1].cmd \in Ids
    BY <1>1, <1>13 DEF Inv, QueueInv
  <2>3. Out(queue') => queue'[1].cmd > InitialCmd
    BY <1>13 DEF Inv, QueueInv
  <2>. QED  BY <1>2, <1>9, <1>13, <2>1, <2>2, <2>3 DEF QueueInv
<1>19. ClaimInv'
  <2>. SUFFICES ASSUME Out(queue'), NEW e \in Dispatchers,
                       disp'[e].pc \in Holding, disp'[e].cmd = queue'[1].cmd
                PROVE  /\ disp'[e].msgs = queue'[1].msgs
                       /\ disp'[e].attempt = queue'[1].attempt
                       /\ queue'[1].state = "Dispatching"
    BY DEF ClaimInv
  <2>1. Out(queue) /\ queue'[1] = queue[1]
    BY <1>13
  <2>2. e # d /\ disp'[e] = disp[e]
    BY <1>6, <1>7 DEF OnlyMoves
  <2>. QED  BY <2>1, <2>2 DEF Inv, ClaimInv
<1>20. PromptInv' /\ TakenInv'
  <2>1. Out(queue') => Out(queue) /\ queue'[1] = queue[1]
    BY <1>13
  <2>. QED  BY <1>2, <2>1 DEF Inv, PromptInv, TakenInv
<1>21. OwnedInv'
  <2>1. ClaimKept(queue, queue')
    BY <1>13 DEF ClaimKept
  <2>2. \A e \in Dispatchers : disp[e].pc \in Holding => disp'[e].pc \in Holding
    BY <1>6, <1>7 DEF OnlyMoves
  <2>. QED  BY <1>2, <1>8, <1>11, <2>1, <2>2, OwnerKept DEF Inv
<1>22. AttemptInv'
  <2>. SUFFICES ASSUME NEW e \in Dispatchers, disp'[e].pc \in Holding \cup {"park"}
                PROVE  /\ disp'[e].msgs # <<>>
                       /\ \A k \in ToSet(disp'[e].msgs) : k <= m
                       /\ \A i \in DOMAIN queue' : Recognises(disp'[e], queue'[i])
    BY <1>2 DEF AttemptInv
  <2>1. e # d /\ disp'[e] = disp[e]
    BY <1>6, <1>7 DEF OnlyMoves
  <2>. DEFINE x == disp[e]
  <2>2. /\ x.msgs # <<>> /\ \A k \in ToSet(x.msgs) : k <= sent
        /\ \A i \in DOMAIN queue : Recognises(x, queue[i])
    BY <2>1 DEF Inv, AttemptInv
  <2>3. x.msgs \in Seq(Msgs)
    BY <1>1 DEF Threads, DispType
  <2>4. ToSet(x.msgs) \subseteq Nat /\ x.msgs[1] \in ToSet(x.msgs)
    <3>1. ToSet(x.msgs) \subseteq Msgs /\ Head(x.msgs) \in ToSet(x.msgs)
      BY <2>2, <2>3, Members
    <3>2. Head(x.msgs) = x.msgs[1]
      BY <2>2, <2>3, HeadTailProperties
    <3>. QED  BY <3>1, <3>2, MsgsAssumption
  <2>5. \A k \in ToSet(x.msgs) : k <= m /\ k # m
    BY <1>1, <1>3, <2>2, <2>4 DEF m
  <2>. HIDE DEF x
  <2>6. ASSUME NEW i \in DOMAIN queue' PROVE Recognises(x, queue'[i])
    <3>. SUFFICES ASSUME x.msgs[1] \in MembersOf(queue'[i])
                  PROVE  /\ queue'[i].attempt >= x.attempt
                         /\ queue'[i].attempt = x.attempt /\ queue'[i].state \in Claimed =>
                              queue'[i].cmd = x.cmd
      BY DEF Recognises
    <3>1. x.msgs[1] # m
      BY <2>4, <2>5
    <3>2. /\ i \in DOMAIN queue /\ SameDelivery(queue'[i], queue[i])
          /\ x.msgs[1] \in MembersOf(queue[i])
      BY <1>13, <3>1
    <3>. QED  BY <2>2, <3>2 DEF Recognises, SameDelivery
  <2>. QED  BY <2>1, <2>2, <2>5, <2>6 DEF x
<1>23. NothingLost'
  <2>1. \A k \in 1..m : k \in 1..sent \/ k = m
    BY <1>3
  <2>2. \A k \in 1..sent : k # m
    BY <1>1 DEF m
  <2>. QED  BY <1>2, <1>13, <2>1, <2>2 DEF Inv, NothingLost
<1>. QED  BY <1>14, <1>15, <1>16, <1>17, <1>18, <1>19, <1>20, <1>21, <1>22, <1>23 DEF Inv

-----------------------------------------------------------------------------
(* The theorems.                                                            *)

LEMMA Starts ==
  ASSUME Init
  PROVE  Inv
<1>1. left \in LeftType /\ lastCmd \in Nat /\ InitialCmd \in {0, 1} /\ lastCmd = InitialCmd
      /\ 0 \in Ids /\ InitialCmd \in Ids
  BY ScenariosAssumption DEF Init, InitialCmd, LeftType, Ids
<1>. DEFINE k == NoteIncarnation(NewCoordination, 1)
<1>2. CoordOK(NewCoordination) /\ NewCoordination.active.cmd = 0
  BY DEF CoordOK, CoordFields, ActiveFields, NewCoordination, NoActive
<1>3. CoordOK(k) /\ k.active.cmd = 0
  BY <1>2, HostMethods DEF Keeps
<1>4. AdmissionVerdict(k, 1) = "ok"
  <2>1. /\ k.inc = 1 /\ k.adapter = "Negotiating" /\ k.settings.id = 0 /\ k.perm.id = 0
    BY DEF NoteIncarnation, NewCoordination, Doubt, Bump, Reconcile, BlocksDispatch, NoOp,
           HasActive, NoActive
  <2>2. ~StaleFor(k, 1) /\ ~HasActive(k) /\ ~SettingsPending(k)
    BY <1>3, <2>1 DEF StaleFor, HasActive, SettingsPending, BlocksDispatch
  <2>. HIDE DEF k
  <2>. QED  BY <2>1, <2>2 DEF AdmissionVerdict
<1>5. CoordOK(coord) /\ coord.active.cmd = InitialCmd
  <2>1. CASE left.initial
    <3>1. coord = Admit(k, 1, InitialCmd, 0)
      BY <2>1 DEF Init
    <3>. HIDE DEF k
    <3>. QED  BY <1>3, <1>4, <3>1, Admission
  <2>2. CASE ~left.initial
    BY <1>3, <2>2 DEF Init, InitialCmd
  <2>. QED  BY <2>1, <2>2
<1>6. disp = [d \in Dispatchers |-> IdleDispatcher] /\ IdleDispatcher \in DispType(Ids)
      /\ IdleDispatcher.pc = "idle" /\ IdleDispatcher.cmd = 0
  <2>1. <<>> \in Seq(Msgs)
    BY EmptySeq
  <2>. QED  BY <1>1, <2>1 DEF Init, IdleDispatcher, DispType, PCs, Errors
<1>7. /\ queue = <<>> /\ Queued(queue) = {} /\ ~Out(queue) /\ QueueOK(queue)
  <2>1. queue = <<>> /\ DOMAIN queue = {}
    BY DEF Init
  <2>2. Queued(queue) = {}
    BY <2>1 DEF Queued
  <2>3. RestIsFresh(queue)
    BY <2>1 DEF RestIsFresh
  <2>. QED  BY <2>1, <2>2, <2>3, EmptySeq DEF QueueOK, InOrder, Out
<1>8. Basics
  <2>1. delivered \in Seq(Msgs) /\ sent \in 0..MaxMsgs /\ lastInc \in Nat /\ handle \in Nat
    BY EmptySeq, MsgsAssumption DEF Init
  <2>2. stopper \in [pc : {"idle", "clicked", "remove"}, cmd : Ids]
    BY <1>1 DEF Init, IdleStop
  <2>3. pump.line.cmd = 0 /\ pump.line.kind = "none"
    BY DEF Init, IdlePump, H!Line
  <2>4. \A x \in armed \cup expiring : x.cmd \in Ids
    BY <1>1 DEF Init
  <2>. QED  BY <1>1, <1>5, <2>1, <2>2, <2>3, <2>4 DEF Basics
<1>9. FgInv
  <2>1. helper = H!Launched(1, [cmd |-> InitialCmd, msgs |-> <<>>])
    BY DEF Init, InitialPrompt
  <2>2. /\ helper \in HelperType(Ids) /\ HelperInv(helper)
        /\ helper.inbox = <<>> /\ helper.fg = 0 /\ helper.pend.cmd = InitialCmd
    BY <1>1, <2>1, FirstHelper
  <2>3. ToSet(helper.inbox) = {}
    BY <2>2, NoMembers
  <2>. QED  BY <1>5, <2>2, <2>3 DEF FgInv, Owns
<1>10. \A d \in Dispatchers : /\ disp[d].pc = "idle" /\ disp[d].pc \notin Flying
                              /\ disp[d].pc \notin Holding \cup {"park"}
                              /\ disp[d].pc \notin Unwritten /\ disp[d].cmd = 0
  BY <1>6, PCSets
<1>11. DispInv
  BY <1>6, <1>10 DEF DispInv, Threads
<1>12. LockInv /\ PhaseInv
  BY <1>10 DEF LockInv, PhaseInv, NeedsLock, Phase, Init, IdleStop
<1>13. FreshInv /\ DeadlineInv /\ AttemptInv
  BY <1>10 DEF FreshInv, DeadlineInv, AttemptInv
<1>14. QueueInv /\ ClaimInv /\ PromptInv /\ TakenInv /\ OwnedInv
  BY <1>7 DEF QueueInv, ClaimInv, PromptInv, TakenInv, OwnedInv
<1>15. NothingLost
  BY DEF NothingLost, Init
<1>. QED  BY <1>8, <1>9, <1>11, <1>12, <1>13, <1>14, <1>15 DEF Inv

LEMMA Stutters ==
  ASSUME Inv, UNCHANGED vars
  PROVE  Inv'
<1>1. UNCHANGED <<queue, lastCmd, coord, handle, lastInc, termLock, disp, pump, stopper,
                  armed, expiring, helper, sent, delivered, withdrawn, left>>
  BY DEF vars
<1>2. left' \in LeftType /\ left'.initial = left.initial /\ delivered' \in Seq(Msgs)
  BY <1>1 DEF Inv, Basics
<1>3. Evolves(Ids, helper, helper', {})
  BY <1>1, Restates DEF Inv, FgInv, Basics, Ids
<1>. QED  BY <1>1, <1>2, <1>3, HelperActs

LEMMA Steps ==
  ASSUME Inv, Next
  PROVE  Inv'
<1>1. ASSUME NEW d \in Dispatchers, DispatcherStep(d) PROVE Inv'
  <2>1. CASE \E t \in Trigger : StartDispatch(d, t)
    BY <2>1, StartDispatchStep
  <2>2. CASE Gate(d) \/ NothingToClaim(d) \/ Peek(d) \/ AfterWrite(d) \/ Recheck(d)
    BY <2>2, WaitingSteps
  <2>3. CASE ClaimNext(d) \/ Observe(d) \/ UseHandle(d) \/ Reconnect(d) \/ AdmitPrompt(d)
    BY <2>3, ClaimNextStep, ObserveStep, UseHandleStep, ReconnectStep, AdmitPromptStep
  <2>4. CASE Written(d) \/ NotStarted(d) \/ MarkDelivery(d) \/ Undo(d) \/ ArmDeadline(d)
    BY <2>4, WriteSteps, NotStartedStep, MarkDeliveryStep, UndoStep, ArmDeadlineStep
  <2>5. CASE GiveBack(d) \/ Release(d) \/ Judge(d) \/ Park(d)
    BY <2>5, GiveBackSteps, JudgeStep, ParkThread
  <2>. QED  BY <1>1, <2>1, <2>2, <2>3, <2>4, <2>5 DEF DispatcherStep
<1>2. CASE PumpStep
  BY <1>2, PumpTakeStep, PumpFinishStep, ExitSteps DEF PumpStep
<1>3. CASE StopStep
  BY <1>3, StopSteps, StopRetires, StopRemoveStep, StopInterruptStep DEF StopStep
<1>4. CASE HelperStep
  BY <1>4, HelperSteps
<1>5. CASE Deadline
  BY <1>5, DeadlineSteps
<1>6. CASE Fault
  BY <1>6, WriteSteps, ReconnectFailsStep, HelperSteps DEF Fault
<1>7. CASE User
  BY <1>7, SendStep, CancelStays, StopSteps DEF User
<1>. QED  BY <1>1, <1>2, <1>3, <1>4, <1>5, <1>6, <1>7 DEF Next

\* The inductive invariant of the composed session: what the threads hold, what the
\* helper works on, what the queue and the coordinator say of both, and NothingLost.
THEOREM Invariance == Spec => []Inv
<1>1. Init => Inv
  BY Starts
<1>2. Inv /\ [Next]_vars => Inv'
  BY Steps, Stutters
<1>. QED  BY <1>1, <1>2, PTL DEF Spec

\* NothingLost: whatever threads, faults, cancels and stops do to a session, every
\* message that was sent is in the queue, with the SDK, or withdrawn.
THEOREM EveryPromptIsKept == Spec => []NothingLost
<1>1. Inv => NothingLost
  BY DEF Inv
<1>. QED  BY <1>1, Invariance, PTL

\* ClaimIsOwned: a claimed head always has somebody who will resolve it (the threads
\* of dispatch_queued_with, the coordinator, the pump, stop_native_session).
THEOREM ClaimsHaveOwners == Spec => []ClaimIsOwned
<1>1. Inv => ClaimIsOwned
  <2>. SUFFICES ASSUME Inv, queue # <<>>, queue[1].state \in Claimed
                PROVE  ClaimIsOwned
    BY DEF ClaimIsOwned
  <2>1. Owned(queue[1].cmd, coord.active.cmd, pump, stopper, disp)
    BY DEF Inv, OwnedInv, Out
  <2>2. \A d \in Dispatchers : disp[d].pc \in Holding =>
          disp[d].pc \notin {"idle", "gate", "claim", "recheck"}
    BY PCSets
  <2>. QED  BY <2>1, <2>2 DEF ClaimIsOwned, Owned, Resolving
<1>. QED  BY <1>1, Invariance, PTL

\* ForegroundAgrees: the command the helper works on, reserves or has in the pipe is
\* the one the coordinator calls active.
THEOREM HostKnowsForeground == Spec => []ForegroundAgrees
<1>1. Inv => ForegroundAgrees
  <2>. SUFFICES ASSUME Inv PROVE ForegroundAgrees
    OBVIOUS
  <2>1. \A c : Owns(helper, c) => coord.active.cmd = c
    BY DEF Inv, FgInv
  <2>2. ASSUME NEW i \in DOMAIN helper.inbox, helper.inbox[i].kind = "prompt"
        PROVE  coord.active.cmd = helper.inbox[i].cmd
    <3>. DEFINE x == helper.inbox[i]
    <3>1. x \in ToSet(helper.inbox)
      BY DEF ToSet
    <3>. HIDE DEF x
    <3>2. Prompt(x) /\ x.cmd # 0
      BY <2>2, <3>1 DEF Inv, FgInv, HelperInv, OneTurn, Prompt, x
    <3>3. coord.active.cmd = x.cmd
      BY <2>1, <3>1, <3>2 DEF Owns
    <3>. QED  BY <3>3 DEF x
  <2>. QED  BY <2>1, <2>2 DEF ForegroundAgrees, Owns
<1>. QED  BY <1>1, Invariance, PTL

\* PromptFindsHelperFree: reserveClaudeCoordinatorAdmission never has to refuse a
\* prompt because another one owns the foreground.
THEOREM NoPromptIsRefused == Spec => []PromptFindsHelperFree
<1>1. Inv => PromptFindsHelperFree
  <2>. SUFFICES ASSUME Inv, NEW i \in DOMAIN helper.outbox
                PROVE  helper.outbox[i].kind # "rejected"
    BY DEF PromptFindsHelperFree
  <2>1. helper.outbox[i] \in ToSet(helper.outbox)
    BY DEF ToSet
  <2>. QED  BY <2>1 DEF Inv, FgInv, HelperInv, SaysTrue
<1>. QED  BY <1>1, Invariance, PTL

-----------------------------------------------------------------------------
(* What the session promises about prompts.  As long as every write ends   *)
(* known, a prompt on its way to the SDK is the head of the queue, whole,  *)
(* undelivered, and in nobody else's hands.                                *)

Given == ToSet(delivered)

\* A thread that has not written holds the claim of the head.
HeldInv == \A d \in Dispatchers : disp[d].pc \in Unwritten =>
             Out(queue) /\ queue[1].cmd = disp[d].cmd

\* A Stop does not know a command that was never admitted, and what it removes
\* nobody owns.
Early(x) == x.pc \in {"claimed", "locking", "admit"} /\ ~x.retry
StopInv ==
  /\ stopper.pc = "remove" => coord.active.cmd = 0
  /\ \A d \in Dispatchers :
       Early(disp[d]) /\ stopper.pc # "idle" => stopper.cmd # disp[d].cmd

AbandonInv ==
  pump.pc = "line" /\ pump.line.kind = "abandoned" => ~Owns(helper, pump.line.cmd)

NobodyHolds(f, c) == \A d \in Dispatchers : f[d].pc \in Holding => f[d].cmd # c

AwaitedInv ==
  \A c, ms : c # 0 /\ ms # <<>> /\ HasPrompt(helper, c, ms) =>
    /\ Out(queue) /\ queue[1].cmd = c /\ NobodyHolds(disp, c)
    /\ MembersOf(queue[1]) \cap Given = {}

\* What was delivered and is still queued is the head, about to be confirmed.
GivenInv ==
  Queued(queue) \cap Given # {} =>
    /\ Out(queue) /\ NobodyHolds(disp, queue[1].cmd)
    /\ Queued(queue) \cap Given \subseteq MembersOf(queue[1])

PastInv ==
  /\ Given \subseteq 1..sent /\ withdrawn \subseteq 1..sent
  /\ withdrawn \cap Queued(queue) = {} /\ withdrawn \cap Given = {}
  /\ IsInjective(delivered)

Promise ==
  /\ left.unknown = 0
  /\ HeldInv /\ StopInv /\ AbandonInv /\ AwaitedInv /\ GivenInv /\ PastInv

Promised == [Delivery!Next]_(Delivery!vars)

-----------------------------------------------------------------------------
\* The batch a helper works on is let go only when nothing is left of it.
HeadStays(q, r) == Out(r) /\ r[1].cmd = q[1].cmd /\ r[1].msgs = q[1].msgs
HeadFreed ==
  /\ \A d \in Dispatchers : disp'[d].pc \in Unwritten => disp'[d].cmd # queue[1].cmd
  /\ \A ms : ms # <<>> => ~HasPrompt(helper', queue[1].cmd, ms)
  /\ MembersOf(queue[1]) \cap Queued(queue') \cap Given = {}

PromptsShrink == \A c, ms : c # 0 /\ HasPrompt(helper', c, ms) => HasPrompt(helper, c, ms)

LEMMA StillWaiting == Delivery!Waiting = (1..sent) \ (Given \cup withdrawn)
BY DEF Delivery!Waiting, Delivery!ToSet, Given, ToSet

\* A step that delivers nothing and takes nothing up.
LEMMA PromiseKept ==
  ASSUME Inv, Promise, left'.unknown = 0, sent' = sent, delivered' = delivered,
         withdrawn \subseteq withdrawn',
         withdrawn' \subseteq withdrawn \cup ((Queued(queue) \ Queued(queue')) \ Given),
         Queued(queue') \subseteq Queued(queue), AllFollow, PromptsShrink,
         Out(queue) => HeadStays(queue, queue') \/ HeadFreed,
         StopInv', AbandonInv'
  PROVE  Promise' /\ Promised
<1>. USE DEF Promise
<1>0. Given' = Given
  BY DEF Given
<1>1. \A d \in Dispatchers :
        /\ disp'[d].pc \in Holding => disp[d].pc \in Holding /\ disp'[d].cmd = disp[d].cmd
        /\ disp'[d].pc \in Unwritten => disp[d].pc \in Unwritten /\ disp'[d].cmd = disp[d].cmd
  BY PCSets DEF AllFollow, Follows
<1>2. \A c : NobodyHolds(disp, c) => NobodyHolds(disp', c)
  BY <1>1 DEF NobodyHolds
<1>3. HeldInv'
  BY <1>1 DEF HeldInv, HeadStays, HeadFreed
<1>4. ASSUME NEW c, NEW ms, c # 0, ms # <<>>, HasPrompt(helper', c, ms)
      PROVE  /\ Out(queue') /\ queue'[1].cmd = c /\ NobodyHolds(disp', c)
             /\ MembersOf(queue'[1]) \cap Given = {}
  <2>1. /\ Out(queue) /\ queue[1].cmd = c /\ NobodyHolds(disp, c)
        /\ MembersOf(queue[1]) \cap Given = {}
    BY <1>4 DEF PromptsShrink, AwaitedInv
  <2>2. HeadStays(queue, queue')
    BY <1>4, <2>1 DEF HeadFreed
  <2>. QED  BY <1>2, <2>1, <2>2 DEF HeadStays, MembersOf
<1>5. AwaitedInv'
  BY <1>0, <1>4 DEF AwaitedInv
<1>6. GivenInv'
  <2>. SUFFICES ASSUME Queued(queue') \cap Given # {}
                PROVE  /\ Out(queue') /\ NobodyHolds(disp', queue'[1].cmd)
                       /\ Queued(queue') \cap Given \subseteq MembersOf(queue'[1])
    BY <1>0 DEF GivenInv
  <2>1. /\ Out(queue) /\ NobodyHolds(disp, queue[1].cmd)
        /\ Queued(queue) \cap Given \subseteq MembersOf(queue[1])
    BY DEF GivenInv
  <2>2. HeadStays(queue, queue')
    BY <2>1 DEF HeadFreed
  <2>. QED  BY <1>2, <2>1, <2>2 DEF HeadStays, MembersOf
<1>7. Queued(queue) \subseteq 1..sent
  <2>. SUFFICES ASSUME NEW m \in Queued(queue) PROVE m \in 1..sent
    OBVIOUS
  <2>1. PICK i \in DOMAIN queue : m \in MembersOf(queue[i])
    BY DEF Queued
  <2>2. queue \in Seq(Batch(Nat))
    BY DEF Inv, QueueInv, QueueOK
  <2>3. queue[i] \in Batch(Nat)
    BY <2>2, ElementOfSeq, LenProperties
  <2>4. MembersOf(queue[i]) = ToSet(queue[i].msgs) /\ queue[i].msgs \in Seq(Msgs)
    BY <2>3 DEF MembersOf, ToSet, Batch
  <2>5. m \in Msgs
    BY <2>1, <2>4, Members
  <2>. QED  BY <2>5, MsgsAssumption DEF Inv, QueueInv, Basics
<1>8. PastInv'
  BY <1>0, <1>7 DEF PastInv
<1>9. Promised
  <2>1. CASE withdrawn' = withdrawn
    BY <2>1 DEF Promised, Delivery!vars
  <2>2. CASE withdrawn' # withdrawn
    <3>. DEFINE taken == withdrawn' \ withdrawn
    <3>1. taken \in SUBSET Delivery!Waiting
      BY <1>7, StillWaiting DEF PastInv
    <3>2. Delivery!Withdraw(taken)
      BY DEF Delivery!Withdraw
    <3>. HIDE DEF taken
    <3>. QED  BY <3>1, <3>2 DEF Promised, Delivery!Next
  <2>. QED  BY <2>1, <2>2
<1>. QED  BY <1>3, <1>5, <1>6, <1>8, <1>9

\* Only the thread d moves, and it takes nothing up.
Moves(d) ==
  /\ OnlyMoves(d) /\ Follows(disp[d], disp'[d])
  /\ Early(disp'[d]) => Early(disp[d])

HelperShrinks ==
  PromptsShrink /\ \A c : Owns(helper', c) => Owns(helper, c)

LEMMA StopKept ==
  ASSUME StopInv, AllFollow,
         \A d \in Dispatchers : Early(disp'[d]) => Early(disp[d]),
         stopper' = stopper \/ stopper'.pc = "idle",
         stopper'.pc = "remove" => coord'.active.cmd \in {0, coord.active.cmd}
  PROVE  StopInv'
<1>1. \A d \in Dispatchers : Early(disp'[d]) => disp'[d].cmd = disp[d].cmd
  BY PCSets DEF AllFollow, Follows, Early, Flying, Holding, Unwritten
<1>. QED  BY <1>1 DEF StopInv

LEMMA AbandonKept ==
  ASSUME AbandonInv, HelperShrinks, pump' = pump \/ pump'.pc # "line"
  PROVE  AbandonInv'
BY DEF AbandonInv, HelperShrinks

\* A thread moves on and the queue stays.
LEMMA ThreadPromise ==
  ASSUME Inv, Promise, NEW d \in Dispatchers, Moves(d), HelperShrinks,
         left'.unknown = 0,
         stopper'.pc = "remove" => coord'.active.cmd \in {0, coord.active.cmd},
         UNCHANGED <<queue, pump, stopper, sent, delivered, withdrawn>>
  PROVE  Promise' /\ Promised
<1>1. AllFollow
  BY MovesOn DEF Moves
<1>2. \A e \in Dispatchers : Early(disp'[e]) => Early(disp[e])
  BY DEF Moves, OnlyMoves
<1>3. StopInv' /\ AbandonInv'
  BY <1>1, <1>2, StopKept, AbandonKept DEF Promise
<1>4. Out(queue) => HeadStays(queue, queue')
  BY DEF HeadStays
<1>. QED  BY <1>1, <1>3, <1>4, PromiseKept DEF HelperShrinks

LEMMA HelperUnmoved ==
  ASSUME helper' = helper
  PROVE  HelperShrinks
BY DEF HelperShrinks, PromptsShrink

LEMMA LandsOn ==
  ASSUME NEW d \in Dispatchers, OnlyMoves(d),
         disp'[d].pc \in {"idle", "gate", "claim", "peek", "after", "recheck"},
         disp'[d].cmd \in {0, disp[d].cmd}
  PROVE  Moves(d)
BY Landed DEF Moves, Early

LEMMA CarriesOn ==
  ASSUME NEW d \in Dispatchers, OnlyMoves(d), disp'[d].cmd = disp[d].cmd,
         disp'[d].msgs = disp[d].msgs, disp'[d].attempt = disp[d].attempt,
         \/ disp[d].pc \in Unwritten /\ disp'[d].pc \in Holding
         \/ disp[d].pc \in Holding /\ disp'[d].pc \in Holding \ Unwritten
         \/ disp[d].pc \in Holding /\ disp'[d].pc = "park"
         \/ disp[d].pc = "write" /\ disp'[d].pc = "arm",
         Early(disp'[d]) => Early(disp[d])
  PROVE  Moves(d)
BY Carried DEF Moves

LEMMA Turns ==
  ASSUME Inv, NEW d \in Dispatchers
  PROVE  /\ Return(d) => Moves(d)
         /\ \A p \in {"idle", "gate", "claim", "peek", "after", "recheck"} :
              Go(d, p) => Moves(d)
         /\ At(d, "claimed") /\ Go(d, "locking") => Moves(d)
         /\ At(d, "admit") /\ Go(d, "write") => Moves(d)
         /\ At(d, "write") /\ (Go(d, "undo") \/ Go(d, "arm")) => Moves(d)
         /\ At(d, "judge") /\ (Go(d, "park") \/ Go(d, "release")) => Moves(d)
         /\ \A e \in Errors :
              disp[d].pc \in {"locking", "admit", "mark", "undo"} /\ Fail(d, e) => Moves(d)
<1>1. disp \in Threads /\ lastCmd \in Nat
  BY DEF Inv, DispInv, Basics
<1>2. Return(d) => Moves(d)
  BY <1>1, Returns, LandsOn
<1>3. ASSUME NEW p \in {"idle", "gate", "claim", "peek", "after", "recheck"}, Go(d, p)
      PROVE  Moves(d)
  <2>1. p \in PCs
    BY PCSets
  <2>2. OnlyMoves(d) /\ disp'[d].pc = p /\ disp'[d].cmd = disp[d].cmd
    BY <1>1, <1>3, <2>1, GoesTo
  <2>. QED  BY <2>2, LandsOn
<1>4. ASSUME NEW p, Go(d, p),
             \/ At(d, "claimed") /\ p = "locking"
             \/ At(d, "admit") /\ p = "write"
             \/ At(d, "write") /\ p \in {"undo", "arm"}
             \/ At(d, "judge") /\ p \in {"park", "release"}
      PROVE  Moves(d)
  <2>1. p \in PCs
    BY <1>4 DEF PCs, Flying, Holding, Unwritten
  <2>2. /\ OnlyMoves(d) /\ disp'[d].pc = p /\ disp'[d].cmd = disp[d].cmd
        /\ disp'[d].msgs = disp[d].msgs /\ disp'[d].attempt = disp[d].attempt
        /\ disp'[d].retry = disp[d].retry
    BY <1>1, <1>4, <2>1, GoesTo
  <2>3. Early(disp'[d]) => Early(disp[d])
    BY <1>4, <2>2 DEF Early, At
  <2>4. \/ disp[d].pc \in Unwritten /\ disp'[d].pc \in Holding
        \/ disp[d].pc \in Holding /\ disp'[d].pc \in Holding \ Unwritten
        \/ disp[d].pc \in Holding /\ disp'[d].pc = "park"
        \/ disp[d].pc = "write" /\ disp'[d].pc = "arm"
    BY <1>4, <2>2 DEF Holding, Unwritten, At
  <2>. QED  BY <2>2, <2>3, <2>4, CarriesOn
<1>5. ASSUME NEW e \in Errors, Fail(d, e), disp[d].pc \in {"locking", "admit", "mark", "undo"}
      PROVE  Moves(d)
  <2>1. /\ OnlyMoves(d) /\ disp'[d].pc = "judge" /\ disp'[d].cmd = disp[d].cmd
        /\ disp'[d].msgs = disp[d].msgs /\ disp'[d].attempt = disp[d].attempt
    BY <1>1, <1>5, Fails
  <2>2. disp[d].pc \in Holding /\ disp'[d].pc \in Holding \ Unwritten
    BY <1>5, <2>1 DEF Holding, Unwritten
  <2>3. ~Early(disp'[d])
    BY <2>1 DEF Early
  <2>. QED  BY <2>1, <2>2, <2>3, CarriesOn
<1>. QED  BY <1>2, <1>3, <1>4, <1>5

\* What a thread does by itself, apart from claiming, writing and giving back.
LEMMA ThreadPromises ==
  ASSUME Inv, Promise, NEW d \in Dispatchers,
         \/ \E t \in Trigger : StartDispatch(d, t)
         \/ Gate(d) \/ NothingToClaim(d) \/ Observe(d) \/ UseHandle(d) \/ AdmitPrompt(d)
         \/ NotStarted(d) \/ MarkDelivery(d) \/ Undo(d) \/ ArmDeadline(d) \/ Peek(d)
         \/ AfterWrite(d) \/ Judge(d) \/ Recheck(d) \/ ReconnectFails(d)
  PROVE  Promise' /\ Promised
<1>. USE DEF fifo, host, deadlines, history
<1>1. disp \in Threads /\ lastCmd \in Nat /\ CoordOK(coord) /\ left \in LeftType
  BY DEF Inv, DispInv, Basics
<1>2. UNCHANGED <<queue, pump, stopper, sent, delivered, withdrawn, helper>>
  BY DEF StartDispatch, Gate, NothingToClaim, Observe, UseHandle, AdmitPrompt, NotStarted,
         MarkDelivery, Undo, ArmDeadline, Peek, AfterWrite, Judge, Recheck, ReconnectFails
<1>3. left'.unknown = 0
  <2>1. CASE ReconnectFails(d)
    BY <1>1, <2>1 DEF ReconnectFails, Spend, LeftType, Promise
  <2>2. CASE left' = left
    BY <2>2 DEF Promise
  <2>. QED  BY <2>1, <2>2 DEF StartDispatch, Gate, NothingToClaim, Observe, UseHandle,
         AdmitPrompt, NotStarted, MarkDelivery, Undo, ArmDeadline, Peek, AfterWrite, Judge,
         Recheck
<1>4. HelperShrinks
  BY <1>2, HelperUnmoved
<1>5. Moves(d)
  <2>1. CASE \E t \in Trigger : StartDispatch(d, t)
    <3>1. PICK t \in Trigger : StartDispatch(d, t)
      BY <2>1
    <3>. DEFINE y == [IdleDispatcher EXCEPT !.pc = "claim", !.visible = (t = Visible)]
    <3>2. y \in DispType(Ids) /\ y.pc = "claim" /\ y.cmd = 0
      <4>1. <<>> \in Seq(Msgs) /\ 0 \in Ids
        BY <1>1, EmptySeq DEF Ids
      <4>. QED  BY <4>1 DEF IdleDispatcher, DispType, PCs, Errors
    <3>3. disp' = [disp EXCEPT ![d] = y] \/ disp' = disp
      BY <3>1 DEF StartDispatch
    <3>. HIDE DEF y
    <3>4. /\ OnlyMoves(d) /\ disp'[d].pc \in {"claim", "idle"}
          /\ disp'[d].cmd \in {0, disp[d].cmd}
      BY <1>1, <3>1, <3>2, <3>3 DEF OnlyMoves, Threads, StartDispatch, At
    <3>. QED  BY <3>4, LandsOn
  <2>2. CASE Gate(d) \/ NothingToClaim(d) \/ Peek(d) \/ AfterWrite(d) \/ Recheck(d)
             \/ ArmDeadline(d)
    <3>1. \/ Return(d)
          \/ \E p \in {"idle", "gate", "claim", "peek", "after", "recheck"} : Go(d, p)
      BY <2>2 DEF Gate, NothingToClaim, Peek, AfterWrite, Recheck, ArmDeadline
    <3>. QED  BY <3>1, Turns
  <2>3. CASE Observe(d) \/ NotStarted(d) \/ Judge(d)
    BY <2>3, Turns DEF Observe, NotStarted, Judge
  <2>4. CASE MarkDelivery(d) \/ ReconnectFails(d)
    <3>1. /\ \E e \in Errors : Fail(d, e)
          /\ disp[d].pc \in {"locking", "admit", "mark", "undo"}
      BY <2>4 DEF MarkDelivery, ReconnectFails, Errors, At
    <3>. QED  BY <3>1, Turns
  <2>5. CASE AdmitPrompt(d)
    <3>1. disp[d].pc = "admit" /\ (Go(d, "write") \/ \E e \in Errors : Fail(d, e))
      BY <2>5 DEF AdmitPrompt, AdmissionVerdict, Errors, At
    <3>. QED  BY <3>1, Turns DEF At
  <2>6. CASE UseHandle(d)
    <3>. DEFINE y == [disp[d] EXCEPT !.pc = "admit", !.inc = handle]
    <3>1. handle \in Nat
      BY DEF Inv, Basics
    <3>2. /\ y \in DispType(Ids) /\ y.pc = "admit" /\ y.cmd = disp[d].cmd
          /\ y.msgs = disp[d].msgs /\ y.attempt = disp[d].attempt
          /\ y.retry = disp[d].retry
      BY <1>1, <3>1 DEF Threads, DispType, PCs, Flying, Holding, Unwritten
    <3>3. disp' = [disp EXCEPT ![d] = y] /\ disp[d].pc = "locking"
      BY <2>6 DEF UseHandle, At
    <3>. HIDE DEF y
    <3>4. OnlyMoves(d) /\ disp'[d] = y
      BY <1>1, <3>2, <3>3 DEF OnlyMoves, Threads
    <3>5. disp[d].pc \in Unwritten /\ disp'[d].pc \in Holding
      BY <3>2, <3>3, <3>4 DEF Holding, Unwritten
    <3>6. Early(disp'[d]) => Early(disp[d])
      BY <3>2, <3>3, <3>4 DEF Early
    <3>. QED  BY <3>2, <3>4, <3>5, <3>6, CarriesOn
  <2>7. CASE Undo(d)
    <3>1. disp[d].pc = "undo"
      BY <2>7 DEF Undo, At
    <3>2. CASE \E e \in Errors : Fail(d, e)
      BY <3>1, <3>2, Turns
    <3>3. CASE disp' = [disp EXCEPT ![d].pc = "locking", ![d].retry = TRUE]
      <4>. DEFINE y == [disp[d] EXCEPT !.pc = "locking", !.retry = TRUE]
      <4>1. /\ y \in DispType(Ids) /\ y.pc = "locking" /\ y.cmd = disp[d].cmd
            /\ y.msgs = disp[d].msgs /\ y.attempt = disp[d].attempt /\ y.retry
        BY <1>1 DEF Threads, DispType, PCs, Flying, Holding, Unwritten
      <4>2. disp' = [disp EXCEPT ![d] = y]
        BY <3>3
      <4>. HIDE DEF y
      <4>3. OnlyMoves(d) /\ disp'[d] = y
        BY <1>1, <4>1, <4>2 DEF OnlyMoves, Threads
      <4>4. disp[d].pc \in Unwritten /\ disp'[d].pc \in Holding
        BY <3>1, <4>1, <4>3 DEF Holding, Unwritten
      <4>5. ~Early(disp'[d])
        BY <4>1, <4>3 DEF Early
      <4>. QED  BY <4>1, <4>3, <4>4, <4>5, CarriesOn
    <3>. QED  BY <2>7, <3>2, <3>3 DEF Undo, Errors
  <2>. QED  BY <2>1, <2>2, <2>3, <2>4, <2>5, <2>6, <2>7
<1>6. stopper.pc = "remove" => coord'.active.cmd \in {0, coord.active.cmd}
  <2>1. CASE AdmitPrompt(d)
    <3>1. termLock = d /\ d # "stop"
      BY <2>1, LockHolder, ThreadsAssumption DEF AdmitPrompt, At, NeedsLock
    <3>. QED  BY <3>1 DEF Inv, LockInv
  <2>2. CASE Undo(d)
    BY <1>1, <2>2, GivenUp DEF Undo, Frees
  <2>3. CASE Observe(d) \/ MarkDelivery(d)
    BY <1>1, <2>3, HostMethods DEF Observe, MarkDelivery, Keeps
  <2>4. CASE coord' \in {coord, Bump(coord)}
    BY <1>1, <2>4, Blocks DEF Keeps
  <2>. QED  BY <2>1, <2>2, <2>3, <2>4 DEF StartDispatch, Gate, NothingToClaim, UseHandle,
         NotStarted, ArmDeadline, Peek, AfterWrite, Judge, Recheck, ReconnectFails
<1>. QED  BY <1>2, <1>3, <1>4, <1>5, <1>6, ThreadPromise

LEMMA Shrinks ==
  ASSUME NEW T, Evolves(Ids, helper, helper', T)
  PROVE  HelperShrinks
BY DEF Evolves, HelperShrinks, PromptsShrink

\* The thread gets a new helper.
LEMMA ReconnectPromise ==
  ASSUME Inv, Promise, NEW d \in Dispatchers, Reconnect(d)
  PROVE  Promise' /\ Promised
<1>. USE DEF fifo, host, deadlines, history
<1>1. disp \in Threads /\ CoordOK(coord) /\ 0 \in Ids /\ lastInc \in Nat
  BY DEF Inv, DispInv, Basics, Ids
<1>. DEFINE n == NextGeneration
            y == [disp[d] EXCEPT !.pc = "admit", !.inc = n]
<1>2. n \in Nat
  BY <1>1 DEF NextGeneration
<1>3. /\ helper' = H!Launched(n, H!NoPrompt) /\ coord' = NoteIncarnation(coord, n)
      /\ disp' = [disp EXCEPT ![d] = y] /\ disp[d].pc = "locking" /\ left' = left
      /\ UNCHANGED <<queue, pump, stopper, sent, delivered, withdrawn>>
  BY DEF Reconnect, At
<1>. HIDE DEF n
<1>4. /\ y \in DispType(Ids) /\ y.pc = "admit" /\ y.cmd = disp[d].cmd
      /\ y.msgs = disp[d].msgs /\ y.attempt = disp[d].attempt /\ y.retry = disp[d].retry
  BY <1>1, <1>2 DEF Threads, DispType, PCs, Flying, Holding, Unwritten
<1>. HIDE DEF y
<1>5. OnlyMoves(d) /\ disp'[d] = y
  BY <1>1, <1>3, <1>4 DEF OnlyMoves, Threads
<1>6. disp[d].pc \in Unwritten /\ disp'[d].pc \in Holding
  BY <1>3, <1>4, <1>5 DEF Holding, Unwritten
<1>7. Early(disp'[d]) => Early(disp[d])
  BY <1>3, <1>4, <1>5 DEF Early
<1>8. Moves(d)
  BY <1>4, <1>5, <1>6, <1>7, CarriesOn
<1>9. HelperShrinks
  BY <1>1, <1>2, <1>3, BlankHelpers DEF Blank, HelperShrinks, PromptsShrink
<1>10. coord'.active.cmd = coord.active.cmd
  BY <1>1, <1>3, HostMethods DEF Keeps
<1>. QED  BY <1>3, <1>8, <1>9, <1>10, ThreadPromise DEF Promise

\* The threads and the queue stay.
LEMMA QuietPromise ==
  ASSUME Inv, Promise, HelperShrinks, left'.unknown = 0,
         UNCHANGED <<queue, disp, sent, delivered, withdrawn>>,
         StopInv', AbandonInv'
  PROVE  Promise' /\ Promised
<1>1. AllFollow
  BY NobodyMoves DEF Inv, DispInv
<1>2. Out(queue) => HeadStays(queue, queue')
  BY DEF HeadStays
<1>. QED  BY <1>1, <1>2, PromiseKept DEF HelperShrinks

\* And Stop too, but that it may give up.
LEMMA StillPromise ==
  ASSUME Inv, Promise, HelperShrinks, left'.unknown = 0,
         UNCHANGED <<queue, disp, sent, delivered, withdrawn>>,
         stopper' = stopper \/ stopper'.pc = "idle",
         stopper'.pc = "remove" => coord'.active.cmd \in {0, coord.active.cmd},
         AbandonInv'
  PROVE  Promise' /\ Promised
<1>1. AllFollow
  BY NobodyMoves DEF Inv, DispInv
<1>2. StopInv'
  BY <1>1, StopKept DEF Promise
<1>. QED  BY <1>2, QuietPromise

LEMMA SpendsKnown ==
  ASSUME left \in LeftType, NEW f \in {"crash", "stop", "timeout", "fail"}, Spend(f)
  PROVE  left'.unknown = left.unknown
<1>1. left' = [left EXCEPT ![f] = left[f] - 1]
  BY DEF Spend
<1>. DEFINE n == left[f] - 1
<1>. HIDE DEF n
<1>2. left' = [left EXCEPT ![f] = n]
  BY <1>1 DEF n
<1>. QED  BY <1>2 DEF LeftType

LEMMA HelperPromises ==
  ASSUME Inv, Promise,
         HelperInit \/ HelperReads \/ HelperNegotiates \/ HelperFinishes \/ HelperCrashes
  PROVE  Promise' /\ Promised
<1>. USE DEF fifo, host, deadlines, history
<1>1. /\ helper \in HelperType(Ids) /\ HelperInv(helper) /\ 0 \in Ids
      /\ left \in LeftType
  BY DEF Inv, FgInv, Basics, Ids
<1>2. UNCHANGED <<queue, disp, coord, pump, stopper, sent, delivered, withdrawn>>
  BY DEF HelperInit, HelperReads, HelperNegotiates, HelperFinishes, HelperTakes,
         HelperCrashes
<1>3. left'.unknown = 0
  BY <1>1, SpendsKnown DEF HelperInit, HelperReads, HelperNegotiates, HelperFinishes,
                           HelperTakes, HelperCrashes, Promise
<1>4. \E T : Evolves(Ids, helper, helper', T)
  <2>1. CASE HelperInit
    <3>1. PICK i : helper' = H!InitSettled(helper, i)
      BY <2>1 DEF HelperInit, HelperTakes
    <3>. QED  BY <1>1, <3>1, InitSettles
  <2>2. CASE HelperReads
    <3>. DEFINE c == Head(helper.inbox)
    <3>1. helper.inbox # <<>>
      BY <2>2 DEF HelperReads
    <3>2. CASE Prompt(c)
      <4>1. helper' = H!Reserve([helper EXCEPT !.inbox = Tail(@)],
                                [cmd |-> c.cmd, msgs |-> c.msgs])
        BY <2>2, <3>2 DEF HelperReads, HelperTakes, Prompt
      <4>. QED  BY <1>1, <3>1, <3>2, <4>1, Reserves
    <3>3. CASE ~Prompt(c)
      <4>1. helper' = H!Interrupt([helper EXCEPT !.inbox = Tail(@)], c.cmd)
        BY <2>2, <3>3 DEF HelperReads, HelperTakes, Prompt
      <4>. QED  BY <1>1, <3>1, <3>3, <4>1, Interrupts
    <3>. QED  BY <3>2, <3>3
  <2>3. CASE HelperNegotiates
    BY <1>1, <2>3, Negotiates DEF HelperNegotiates, HelperTakes
  <2>4. CASE HelperFinishes
    BY <1>1, <2>4, Finishes DEF HelperFinishes, HelperTakes
  <2>5. CASE HelperCrashes
    BY <1>1, <2>5, Dies DEF HelperCrashes
  <2>. QED  BY <2>1, <2>2, <2>3, <2>4, <2>5
<1>5. HelperShrinks
  BY <1>4, Shrinks
<1>6. AbandonInv'
  BY <1>2, <1>5, AbandonKept DEF Promise
<1>. QED  BY <1>2, <1>3, <1>5, <1>6, StillPromise

LEMMA PumpPromises ==
  ASSUME Inv, Promise, PumpTake \/ ExitBegin \/ ExitEnd
  PROVE  Promise' /\ Promised
<1>. USE DEF fifo, host, deadlines, history
<1>1. /\ helper \in HelperType(Ids) /\ HelperInv(helper) /\ 0 \in Ids /\ CoordOK(coord)
  BY DEF Inv, FgInv, Basics, Ids
<1>2. /\ UNCHANGED <<queue, disp, stopper, sent, delivered, withdrawn>>
      /\ left'.unknown = 0
  BY DEF PumpTake, ExitBegin, ExitEnd, Promise
<1>3. CASE PumpTake
  <2>. DEFINE l == Head(helper.outbox)
              effect == LineEffect(coord, l, helper.inc)
  <2>1. /\ helper.outbox # <<>> /\ helper' = [helper EXCEPT !.outbox = Tail(@)]
        /\ coord' = effect.c /\ pump'.line = l
    BY <1>3 DEF PumpTake
  <2>2. /\ Evolves(Ids, helper, helper', {}) /\ l \in LineType(Ids)
        /\ l \in ToSet(helper.outbox) /\ \A c : Owns(helper', c) <=> Owns(helper, c)
    BY <1>1, <2>1, LineTaken
  <2>3. /\ l.kind # "rejected" /\ l.kind \in LineKinds
        /\ l.kind \in {"abandoned", "terminal"} => ~Owns(helper, l.cmd)
    BY <1>1, <2>2 DEF HelperInv, SaysTrue, LineType
  <2>. HIDE DEF l
  <2>4. effect.c.active.cmd \in {0, coord.active.cmd}
    BY <1>1, <2>3, LineJudged
  <2>5. HelperShrinks
    BY <2>2, Shrinks
  <2>6. AbandonInv'
    BY <2>1, <2>2, <2>3 DEF AbandonInv
  <2>. QED  BY <1>2, <2>1, <2>4, <2>5, <2>6, StillPromise
<1>4. CASE ExitBegin
  <2>1. /\ helper' = helper /\ coord' = coord /\ pump'.pc = "exited"
    BY <1>4 DEF ExitBegin, IdlePump
  <2>2. HelperShrinks
    BY <2>1, HelperUnmoved
  <2>3. AbandonInv'
    BY <2>1, <2>2, AbandonKept DEF Promise
  <2>. QED  BY <1>2, <2>1, <2>2, <2>3, StillPromise
<1>5. CASE ExitEnd
  <2>1. /\ helper' = H!NoHelper /\ coord' = NoteRetired(coord, handle) /\ pump'.pc = "idle"
    BY <1>5 DEF ExitEnd, RetireTo, IdlePump
  <2>2. HelperShrinks
    BY <1>1, <2>1, BlankHelpers DEF Blank, HelperShrinks, PromptsShrink
  <2>3. coord'.active.cmd = coord.active.cmd
    BY <1>1, <2>1, HostMethods DEF Keeps
  <2>4. AbandonInv'
    BY <2>1, <2>2, AbandonKept DEF Promise
  <2>. QED  BY <1>2, <2>2, <2>3, <2>4, StillPromise
<1>. QED  BY <1>3, <1>4, <1>5

\* A Stop is begun, refused, or retires the helper, and a deadline passes.
LEMMA StopPromises ==
  ASSUME Inv, Promise,
         \/ StopClick \/ StopStale \/ StopAbandon \/ StopRefused \/ StopInterrupt
         \/ \E x \in armed : Expire(x)
  PROVE  Promise' /\ Promised
<1>. USE DEF fifo, host, deadlines, history
<1>1. /\ helper \in HelperType(Ids) /\ HelperInv(helper) /\ 0 \in Ids /\ CoordOK(coord)
      /\ left \in LeftType /\ stopper \in StopperType(Ids)
  BY DEF Inv, FgInv, Basics, Ids, StopperType
<1>2. UNCHANGED <<queue, disp, pump, sent, delivered, withdrawn>>
  BY DEF StopClick, StopStale, StopAbandon, StopRefused, StopInterrupt, Expire
<1>3. left'.unknown = 0
  BY <1>1, SpendsKnown DEF StopClick, StopStale, StopAbandon, StopRefused, StopInterrupt,
                           Expire, Promise
<1>4. HelperShrinks
  <2>1. CASE StopClick \/ StopStale \/ \E x \in armed : Expire(x)
    BY <2>1, HelperUnmoved DEF StopClick, StopStale, Expire
  <2>2. CASE StopAbandon \/ StopRefused
    BY <1>1, <2>2, BlankHelpers DEF StopAbandon, StopRefused, RetireTo, Blank,
                                    HelperShrinks, PromptsShrink
  <2>3. CASE StopInterrupt
    <3>. DEFINE x == [kind |-> "interrupt", cmd |-> stopper.cmd, msgs |-> <<>>]
    <3>1. x \in CommandType(Ids) /\ ~Prompt(x)
      BY <1>1, EmptySeq DEF CommandType, Prompt, StopperType
    <3>2. helper' = helper \/ helper' = H!Push(helper, x)
      BY <2>3 DEF StopInterrupt
    <3>. HIDE DEF x
    <3>3. CASE helper' = H!Push(helper, x)
      BY <1>1, <3>1, <3>3, Pushes DEF HelperShrinks, PromptsShrink
    <3>. QED  BY <3>2, <3>3, HelperUnmoved
  <2>. QED  BY <2>1, <2>2, <2>3
<1>5. AbandonInv'
  BY <1>2, <1>4, AbandonKept DEF Promise
<1>6. CASE StopClick
  <2>1. /\ stopper'.pc = "clicked" /\ stopper'.cmd = coord.active.cmd
    BY <1>6 DEF StopClick
  <2>2. StopInv'
    BY <1>2, <2>1 DEF StopInv, Early, Inv, PhaseInv, Phase
  <2>. QED  BY <1>2, <1>3, <1>4, <1>5, <2>2, QuietPromise
<1>7. CASE StopAbandon
  <2>. DEFINE k == AfterRetirement
  <2>1. CoordOK(k)
    BY <1>1, HostMethods, Blocks DEF AfterRetirement, Keeps
  <2>2. /\ CanAbandonRetired(k, stopper.cmd) /\ coord' = AbandonRetired(k, stopper.cmd).c
        /\ stopper.pc = "clicked" /\ stopper'.cmd = stopper.cmd /\ stopper'.pc = "remove"
    BY <1>1, <1>7 DEF StopAbandon, StopRuns, RetireTo, StopperType
  <2>3. coord'.active.cmd = 0
    <3>. HIDE DEF k
    <3>. QED  BY <2>1, <2>2, GivenUp DEF Frees
  <2>4. StopInv'
    BY <1>2, <2>2, <2>3 DEF StopInv, Promise
  <2>. QED  BY <1>2, <1>3, <1>4, <1>5, <2>4, QuietPromise
<1>8. CASE StopStale \/ StopRefused \/ StopInterrupt
  <2>1. stopper'.pc = "idle"
    BY <1>8 DEF StopStale, StopRefused, StopInterrupt, IdleStop
  <2>. QED  BY <1>2, <1>3, <1>4, <1>5, <2>1, StillPromise
<1>9. CASE \E x \in armed : Expire(x)
  <2>1. coord'.active.cmd = coord.active.cmd /\ stopper' = stopper
    BY <1>1, <1>9, HostMethods DEF Expire, Keeps
  <2>. QED  BY <1>2, <1>3, <1>4, <1>5, <2>1, StillPromise
<1>. QED  BY <1>6, <1>7, <1>8, <1>9

-----------------------------------------------------------------------------
(* The queue moves.                                                        *)

LEMMA HeadOnly ==
  ASSUME NEW q, QueueOK(q), q # <<>>
  PROVE  MembersOf(q[1]) \cap Queued(Tail(q)) = {}
<1>1. q \in Seq(Batch(Nat)) /\ 1 \in DOMAIN q
  BY QueueHead DEF QueueOK
<1>. SUFFICES ASSUME NEW m, m \in MembersOf(q[1]), m \in Queued(Tail(q))
              PROVE  FALSE
  OBVIOUS
<1>2. PICK i \in DOMAIN Tail(q) : m \in MembersOf(Tail(q)[i])
  BY DEF Queued
<1>3. i + 1 \in DOMAIN q /\ i \in Nat \ {0} /\ Tail(q)[i] = q[i + 1]
  BY <1>1, HeadDropped
<1>4. PICK x \in DOMAIN q[1].msgs : m = q[1].msgs[x]
  BY DEF MembersOf
<1>5. PICK y \in DOMAIN q[i + 1].msgs : m = q[i + 1].msgs[y]
  BY <1>2, <1>3 DEF MembersOf
<1>6. 1 = i + 1
  <2>. DEFINE j == i + 1
  <2>1. j \in DOMAIN q /\ y \in DOMAIN q[j].msgs /\ q[1].msgs[x] = q[j].msgs[y]
    BY <1>3, <1>4, <1>5
  <2>. HIDE DEF j
  <2>2. 1 = j
    BY <1>1, <2>1, OnePlace DEF QueueOK
  <2>. QED  BY <2>2 DEF j
<1>. QED  BY <1>3, <1>6

LEMMA PromptOwned ==
  ASSUME NEW h, NEW c, c # 0, NEW ms, HasPrompt(h, c, ms)
  PROVE  Owns(h, c)
BY DEF HasPrompt, Owns

\* The head is taken out.
LEMMA RemovedPromise ==
  ASSUME Inv, Promise, NEW c,
         queue' = RemoveDispatch(queue, c) \/ queue' = ConfirmAdmitted(queue, c),
         withdrawn' \in {withdrawn, Withdrawn(queue')},
         UNCHANGED <<disp, helper, sent, delivered, left>>,
         Out(queue) /\ c # 0 /\ queue[1].cmd = c =>
           /\ \A d \in Dispatchers : disp[d].pc \in Unwritten => disp[d].cmd # c
           /\ \A ms : ms # <<>> => ~HasPrompt(helper, c, ms),
         StopInv', AbandonInv'
  PROVE  Promise' /\ Promised
<1>1. AllFollow /\ PromptsShrink
  BY NobodyMoves DEF Inv, DispInv, PromptsShrink
<1>2. Queued(queue') \subseteq Queued(queue)
  BY RemoveMoves DEF QueueMoves, QueueStep
<1>3. /\ withdrawn \subseteq withdrawn'
      /\ withdrawn' \subseteq withdrawn \cup ((Queued(queue) \ Queued(queue')) \ Given)
  BY DEF Withdrawn, Given
<1>4. Out(queue) => HeadStays(queue, queue') \/ HeadFreed
  <2>1. CASE queue' = queue
    BY <2>1 DEF HeadStays
  <2>2. CASE queue' # queue
    <3>1. queue # <<>> /\ queue[1].cmd = c /\ c # 0 /\ queue' = Tail(queue)
      BY <2>2 DEF RemoveDispatch, ConfirmAdmitted, HeadOwnedBy, NoCmd
    <3>2. MembersOf(queue[1]) \cap Queued(queue') = {}
      BY <3>1, HeadOnly DEF Inv, QueueInv
    <3>. QED  BY <3>1, <3>2 DEF HeadFreed
  <2>. QED  BY <2>1, <2>2
<1>5. left'.unknown = 0
  BY DEF Promise
<1>. QED  BY <1>1, <1>2, <1>3, <1>4, <1>5, PromiseKept

LEMMA PumpFinishPromise ==
  ASSUME Inv, Promise, PumpFinish
  PROVE  Promise' /\ Promised
<1>. USE DEF fifo, host, deadlines, history
<1>. DEFINE c == pump.line.cmd
<1>1. CoordOK(coord) /\ pump.line.kind # "rejected"
  BY DEF Inv, Basics
<1>2. /\ pump.pc = "line" /\ pump'.pc = "idle"
      /\ UNCHANGED <<disp, stopper, helper, sent, delivered, left>>
  BY DEF PumpFinish, IdlePump
<1>3. \/ queue' = queue
      \/ pump.line.kind \in {"admitted", "terminal"} /\ queue' = ConfirmAdmitted(queue, c)
      \/ pump.line.kind = "abandoned" /\ queue' = RemoveDispatch(queue, c)
  BY <1>1 DEF PumpFinish, QueueEffect
<1>4. withdrawn' \in {withdrawn, Withdrawn(queue')}
  BY DEF PumpFinish
<1>5. StopInv' /\ AbandonInv'
  <2>1. coord'.active.cmd = coord.active.cmd
    BY <1>1, Blocks DEF PumpFinish, Keeps
  <2>2. StopInv'
    BY <1>2, <2>1 DEF Promise, StopInv
  <2>. QED  BY <1>2, <2>2 DEF AbandonInv
<1>6. \A d \in Dispatchers : disp[d].pc \in Unwritten => disp[d].cmd # c
  BY DEF Inv, FreshInv
<1>7. CASE queue' = queue
  <2>1. withdrawn' = withdrawn
    BY <1>4, <1>7 DEF Withdrawn
  <2>2. HelperShrinks /\ left'.unknown = 0
    BY <1>2, HelperUnmoved DEF Promise
  <2>. QED  BY <1>2, <1>5, <1>7, <2>1, <2>2, QuietPromise
<1>8. CASE pump.line.kind \in {"admitted", "terminal"} /\ queue' = ConfirmAdmitted(queue, c)
  <2>1. ASSUME Out(queue), c # 0, queue[1].cmd = c, NEW ms, ms # <<>>,
               HasPrompt(helper, c, ms)
        PROVE  FALSE
    <3>1. MembersOf(queue[1]) \subseteq Given
      BY <1>2, <1>8, <2>1 DEF Inv, TakenInv, SaidTaken, Said, Given
    <3>2. MembersOf(queue[1]) \cap Given = {}
      BY <2>1 DEF Promise, AwaitedInv
    <3>3. MembersOf(queue[1]) # {}
      <4>1. queue[1].msgs \in Seq(Msgs) /\ queue[1].msgs # <<>>
        BY <2>1, QueueHead DEF Inv, QueueInv, QueueOK, Out
      <4>2. Head(queue[1].msgs) \in ToSet(queue[1].msgs)
        BY <4>1, Members
      <4>. QED  BY <4>2 DEF ToSet, MembersOf
    <3>. QED  BY <3>1, <3>2, <3>3
  <2>. QED  BY <1>2, <1>4, <1>5, <1>6, <1>8, <2>1, RemovedPromise
<1>9. CASE pump.line.kind = "abandoned" /\ queue' = RemoveDispatch(queue, c)
  <2>1. \A ms : c # 0 => ~HasPrompt(helper, c, ms)
    BY <1>2, <1>9, PromptOwned DEF Promise, AbandonInv
  <2>. QED  BY <1>2, <1>4, <1>5, <1>6, <1>9, <2>1, RemovedPromise
<1>. QED  BY <1>3, <1>7, <1>8, <1>9

\* A Stop takes out what nobody owns.
LEMMA StopTakesOut ==
  ASSUME Inv, Promise, StopQueued \/ StopRemove
  PROVE  Promise' /\ Promised
<1>. USE DEF fifo, host, deadlines, history
<1>. DEFINE c == stopper.cmd
<1>1. CoordOK(coord)
  BY DEF Inv, Basics
<1>2. /\ queue' = RemoveDispatch(queue, c) /\ withdrawn' = Withdrawn(queue')
      /\ stopper'.pc = "idle" /\ stopper.pc # "idle"
      /\ UNCHANGED <<disp, pump, helper, sent, delivered, left>>
  BY DEF StopQueued, StopRemove, StopRuns, IdleStop
<1>3. coord.active.cmd = 0 /\ termLock \in {Free, "stop"}
  BY DEF StopQueued, StopRemove, StopRuns, HasActive, Promise, StopInv, Inv, LockInv
<1>4. \A d \in Dispatchers : disp[d].pc \in Unwritten => disp[d].cmd # c
  <2>. TAKE d \in Dispatchers
  <2>. HAVE disp[d].pc \in Unwritten
  <2>1. ~NeedsLock(disp[d])
    BY <1>3, NobodyWrites
  <2>2. Early(disp[d])
    BY <2>1 DEF Early, NeedsLock, Unwritten
  <2>. QED  BY <1>2, <2>2 DEF Promise, StopInv
<1>5. \A ms : c # 0 => ~HasPrompt(helper, c, ms)
  BY <1>3, PromptOwned DEF Inv, FgInv
<1>6. StopInv' /\ AbandonInv'
  BY <1>2 DEF StopInv, AbandonInv, Promise
<1>. QED  BY <1>2, <1>4, <1>5, <1>6, RemovedPromise

\* The claim goes back with its thread: the prompt is not on its way.
LEMMA GivenBackPromise ==
  ASSUME Inv, Promise, NEW d \in Dispatchers, GiveBack(d) \/ Release(d)
  PROVE  Promise' /\ Promised
<1>. USE DEF fifo, host, deadlines, history
<1>. DEFINE c == disp[d].cmd
            m == disp[d].msgs[1]
            a == disp[d].attempt
<1>1. disp \in Threads /\ lastCmd \in Nat /\ CoordOK(coord) /\ QueueOK(queue)
  BY DEF Inv, DispInv, Basics, QueueInv
<1>2. /\ disp[d].pc \in Holding
      /\ UNCHANGED <<pump, stopper, helper, sent, delivered, withdrawn, left>>
  BY DEF GiveBack, Release, At, Holding
<1>3. Return(d) \/ Go(d, "recheck")
  BY DEF GiveBack, Release
<1>4. Moves(d) /\ disp'[d].pc \notin Unwritten
  <2>1. disp'[d].pc \in {"idle", "recheck"}
    BY <1>1, <1>3, Returns, GoesTo, PCSets
  <2>. QED  BY <1>3, <2>1, Turns, PCSets
<1>5. AllFollow /\ \A e \in Dispatchers \ {d} : disp'[e] = disp[e]
  BY <1>4, MovesOn DEF Moves, OnlyMoves
<1>6. \/ queue' = ReleaseDispatch(queue, m, a)
      \/ queue' = ReleaseNotStarted(queue, m, c, a)
  BY DEF GiveBack, Release
<1>7. Queued(queue') = Queued(queue)
  BY <1>1, <1>6, ReleaseStep
<1>8. PromptsShrink /\ left'.unknown = 0
  BY <1>2 DEF PromptsShrink, Promise
<1>9. StopInv' /\ AbandonInv'
  <2>1. \A e \in Dispatchers : Early(disp'[e]) => Early(disp[e])
    BY <1>4, <1>5 DEF Moves
  <2>2. coord'.active.cmd = coord.active.cmd
    BY <1>1, Blocks DEF GiveBack, Release, Keeps
  <2>3. StopInv'
    BY <1>2, <1>5, <2>1, <2>2, StopKept DEF Promise
  <2>. QED  BY <1>2, <2>3 DEF Promise, AbandonInv
<1>10. Out(queue) => HeadStays(queue, queue') \/ HeadFreed
  <2>1. CASE queue' = queue
    BY <2>1 DEF HeadStays
  <2>2. CASE queue' # queue
    <3>1. HeadClaimedAs(queue, m, a)
      BY <1>6, <2>2 DEF ReleaseDispatch, ReleaseNotStarted
    <3>2. 1 \in DOMAIN queue
      BY <1>1, <3>1, QueueHead DEF HeadClaimedAs, QueueOK
    <3>3. queue[1].cmd = c /\ Out(queue)
      BY <1>2, <3>1, <3>2 DEF Inv, AttemptInv, Recognises, HeadClaimedAs, Claimed, Out
    <3>4. c # 0
      BY <1>2, PCSets, FlyingIds DEF Inv
    <3>5. ~NobodyHolds(disp, c)
      BY <1>2 DEF NobodyHolds
    <3>6. \A ms : ms # <<>> => ~HasPrompt(helper, c, ms)
      BY <3>4, <3>5 DEF Promise, AwaitedInv
    <3>7. Queued(queue) \cap Given = {}
      BY <3>3, <3>5 DEF Promise, GivenInv
    <3>8. \A e \in Dispatchers : disp'[e].pc \in Unwritten => disp'[e].cmd # c
      BY <1>4, <1>5, <3>4 DEF Inv, DispInv
    <3>. QED  BY <1>2, <1>7, <3>3, <3>6, <3>7, <3>8 DEF HeadFreed
  <2>. QED  BY <2>1, <2>2
<1>. QED  BY <1>2, <1>5, <1>7, <1>8, <1>9, <1>10, PromiseKept

\* A head that is marked uncertain is the same head.
LEMMA MarkedPromise ==
  ASSUME Inv, Promise,
         \/ \E d \in Dispatchers : Park(d)
         \/ \E x \in expiring : ExpireQueued(x)
  PROVE  Promise' /\ Promised
<1>. USE DEF fifo, host, deadlines, history
<1>1. disp \in Threads /\ lastCmd \in Nat /\ CoordOK(coord) /\ QueueOK(queue)
  BY DEF Inv, DispInv, Basics, QueueInv
<1>2. UNCHANGED <<pump, stopper, helper, sent, delivered, withdrawn, left>>
  BY DEF Park, ExpireQueued
<1>3. AllFollow /\ \A e \in Dispatchers : Early(disp'[e]) => Early(disp[e])
  <2>1. ASSUME NEW d \in Dispatchers, Park(d)
        PROVE  AllFollow /\ \A e \in Dispatchers : Early(disp'[e]) => Early(disp[e])
    <3>1. Moves(d)
      BY <2>1, Turns DEF Park
    <3>. QED  BY <3>1, MovesOn DEF Moves, OnlyMoves
  <2>2. CASE disp' = disp
    BY <1>1, <2>2, NobodyMoves
  <2>. QED  BY <2>1, <2>2 DEF ExpireQueued
<1>4. StopInv' /\ AbandonInv'
  <2>1. coord'.active.cmd = coord.active.cmd
    BY <1>1, Blocks DEF Park, ExpireQueued, Keeps
  <2>2. StopInv'
    BY <1>2, <1>3, <2>1, StopKept DEF Promise
  <2>. QED  BY <1>2, <2>2 DEF Promise, AbandonInv
<1>5. Queued(queue') = Queued(queue)
  BY <1>1, ParkStep, MarkStep DEF Park, ExpireQueued
<1>6. Out(queue) => HeadStays(queue, queue')
  <2>. SUFFICES ASSUME Out(queue) PROVE HeadStays(queue, queue')
    OBVIOUS
  <2>1. queue \in Seq(Batch(Nat)) /\ 1 \in DOMAIN queue /\ queue[1] \in Batch(Nat)
    BY <1>1, QueueHead DEF Out, QueueOK
  <2>2. 1 \in DOMAIN queue' /\ (queue'[1] = queue[1]
                                \/ queue'[1] = [queue[1] EXCEPT !.state = "DeliveryUncertain"])
    BY <2>1 DEF Park, ExpireQueued, MarkClaimUncertain, MarkDispatchUncertain
  <2>3. /\ queue'[1].cmd = queue[1].cmd /\ queue'[1].msgs = queue[1].msgs
        /\ queue'[1].state \in Claimed
    BY <2>1, <2>2 DEF Batch, Out, Claimed
  <2>. QED  BY <2>2, <2>3 DEF HeadStays, Out
<1>. QED  BY <1>2, <1>3, <1>4, <1>5, <1>6, PromiseKept DEF Promise, PromptsShrink

\* What is cancelled waits, so that it was not delivered.
LEMMA CancelPromise ==
  ASSUME Inv, Promise, NEW m, Cancel(m)
  PROVE  Promise' /\ Promised
<1>. USE DEF fifo, host, deadlines, history
<1>1. disp \in Threads /\ CoordOK(coord) /\ QueueOK(queue) /\ queue \in Seq(Batch(Nat))
  BY DEF Inv, DispInv, Basics, QueueInv, QueueOK
<1>2. /\ Cancellable(queue, m) /\ queue' = CancelPending(queue, m)
      /\ withdrawn' = withdrawn \cup {m} /\ coord' = Bump(coord)
      /\ UNCHANGED <<disp, pump, stopper, helper, sent, delivered, left>>
  BY DEF Cancel
<1>3. Queued(queue') = Queued(queue) \ {m} /\ m \in Queued(queue)
  BY <1>1, <1>2, CancelStep DEF Cancellable
<1>4. m \notin Given
  <2>. SUFFICES ASSUME m \in Given PROVE FALSE
    OBVIOUS
  <2>1. Out(queue) /\ m \in MembersOf(queue[1])
    BY <1>3 DEF Promise, GivenInv
  <2>. DEFINE n == HolderOf(queue, m)
  <2>2. n \in DOMAIN queue /\ m \in MembersOf(queue[n])
    <3>1. queue \in Seq(Batch(Nat))
      BY <1>1 DEF QueueOK
    <3>. QED  BY <1>3, <3>1, HolderFound
  <2>3. queue[n].state = "Pending"
    BY <1>2 DEF Cancellable
  <2>. HIDE DEF n
  <2>4. 1 \in DOMAIN queue
    BY <1>1, <2>1, QueueHead DEF Out
  <2>5. n = 1
    BY <1>1, <2>1, <2>2, <2>4, OnePlace DEF MembersOf, QueueOK
  <2>. QED  BY <2>1, <2>3, <2>5 DEF Out, Claimed
<1>5. Out(queue) => HeadStays(queue, queue')
  <2>1. Out(queue) => queue' # <<>> /\ queue'[1] = queue[1]
    BY <1>1, <1>2, MessageCancelled DEF Out
  <2>. QED  BY <2>1 DEF HeadStays, Out
<1>6. AllFollow /\ PromptsShrink /\ left'.unknown = 0
  BY <1>1, <1>2, NobodyMoves DEF PromptsShrink, Promise
<1>7. StopInv' /\ AbandonInv'
  <2>1. coord'.active.cmd = coord.active.cmd
    BY <1>1, <1>2, Blocks DEF Keeps
  <2>. QED  BY <1>2, <2>1 DEF Promise, StopInv, AbandonInv
<1>. QED  BY <1>2, <1>3, <1>4, <1>5, <1>6, <1>7, PromiseKept

LEMMA QueuedMsgs ==
  ASSUME QueueOK(queue)
  PROVE  Queued(queue) \subseteq Msgs
<1>. SUFFICES ASSUME NEW i \in DOMAIN queue PROVE MembersOf(queue[i]) \subseteq Msgs
  BY DEF Queued
<1>1. queue[i] \in Batch(Nat)
  BY LenProperties, ElementOfSeq DEF QueueOK
<1>2. queue[i].msgs \in Seq(Msgs) /\ MembersOf(queue[i]) = ToSet(queue[i].msgs)
  BY <1>1 DEF Batch, MembersOf, ToSet
<1>. QED  BY <1>2, Members

LEMMA StillHeldByNobody ==
  ASSUME AllFollow, NEW c, NobodyHolds(disp, c)
  PROVE  NobodyHolds(disp', c)
<1>1. \A e \in Dispatchers :
        disp'[e].pc \in Holding => disp[e].pc \in Holding /\ disp'[e].cmd = disp[e].cmd
  BY PCSets DEF AllFollow, Follows
<1>. QED  BY <1>1 DEF NobodyHolds

-----------------------------------------------------------------------------
(* A prompt goes its way.                                                  *)

\* It joins the queue.
LEMMA SendPromise ==
  ASSUME Inv, Promise, NEW d \in Dispatchers, Send(d)
  PROVE  Promise' /\ Promised
<1>. USE DEF fifo, host, deadlines, history
<1>. DEFINE m == sent + 1
<1>1. /\ disp \in Threads /\ CoordOK(coord) /\ left \in LeftType /\ QueueOK(queue)
      /\ sent \in Nat /\ coord.active.cmd \in Nat /\ lastCmd \in Nat
      /\ \A k \in Queued(queue) : k <= sent
  BY DEF Inv, DispInv, Basics, QueueInv, Ids
<1>2. /\ disp[d].pc = "idle" /\ sent < left.msgs /\ sent' = m
      /\ queue' = Enqueued(queue, m, coord.active.cmd) /\ coord' = Bump(coord)
      /\ UNCHANGED <<pump, stopper, helper, delivered, withdrawn, left>>
  BY DEF Send, At, MergeFence
<1>3. m \in Msgs /\ sent < MaxMsgs /\ m \notin 1..sent /\ 1..sent \subseteq 1..m
  <2>1. left.msgs \in 0..MaxMsgs /\ MaxMsgs \in Nat /\ Msgs = 1..MaxMsgs
    BY <1>1, MsgsAssumption DEF LeftType
  <2>. QED  BY <1>1, <1>2, <2>1
<1>4. \A k \in Queued(queue) : k < m
  <2>1. Queued(queue) \subseteq Msgs
    BY <1>1, QueuedMsgs
  <2>. QED  BY <1>1, <2>1, MsgsAssumption
<1>. HIDE DEF m
<1>5. /\ Queued(queue') = Queued(queue) \cup {m}
      /\ Out(queue) => Out(queue') /\ queue'[1] = queue[1]
      /\ Out(queue') => Out(queue)
  BY <1>1, <1>2, <1>3, <1>4, EnqueueStep
<1>6. /\ disp'[d].pc = "gate" /\ disp' \in Threads
      /\ \A e \in Dispatchers \ {d} : disp'[e] = disp[e]
  <2>. DEFINE y == [IdleDispatcher EXCEPT !.pc = "gate"]
  <2>1. <<>> \in Seq(Msgs) /\ 0 \in Ids
    BY <1>1, EmptySeq DEF Ids
  <2>2. y \in DispType(Ids) /\ y.pc = "gate"
    BY <2>1 DEF IdleDispatcher, DispType, PCs, Errors
  <2>3. disp' = [disp EXCEPT ![d] = y]
    BY DEF Send
  <2>. HIDE DEF y
  <2>. QED  BY <1>1, <2>2, <2>3 DEF Threads
<1>7. /\ disp'[d].pc \notin Holding /\ disp'[d].pc \notin Unwritten /\ ~Early(disp'[d])
  BY <1>6, PCSets DEF Early
<1>8. \A c : NobodyHolds(disp, c) => NobodyHolds(disp', c)
  BY <1>6, <1>7 DEF NobodyHolds
<1>9. HeldInv'
  BY <1>5, <1>6, <1>7 DEF HeldInv, Promise
<1>10. StopInv' /\ AbandonInv'
  <2>1. coord'.active.cmd = coord.active.cmd
    BY <1>1, <1>2, Blocks DEF Keeps
  <2>. QED  BY <1>2, <1>6, <1>7, <2>1 DEF Promise, StopInv, AbandonInv
<1>11. Given' = Given /\ Given \subseteq 1..sent /\ withdrawn \subseteq 1..sent
  BY <1>2 DEF Given, Promise, PastInv
<1>12. AwaitedInv'
  BY <1>2, <1>5, <1>8, <1>11 DEF Promise, AwaitedInv
<1>13. GivenInv'
  <2>1. Queued(queue') \cap Given = Queued(queue) \cap Given
    BY <1>3, <1>5, <1>11
  <2>. QED  BY <1>5, <1>8, <1>11, <2>1 DEF Promise, GivenInv
<1>14. PastInv'
  BY <1>2, <1>3, <1>5, <1>11 DEF Promise, PastInv
<1>15. Delivery!Submit
  BY <1>2, <1>3 DEF Delivery!Submit, m
<1>. QED  BY <1>2, <1>9, <1>10, <1>12, <1>13, <1>14, <1>15
          DEF Promise, Promised, Delivery!Next

\* It is claimed: the command is new, and the head was not delivered.
LEMMA ClaimNextPromise ==
  ASSUME Inv, Promise, NEW d \in Dispatchers, ClaimNext(d)
  PROVE  Promise' /\ Promised
<1>. USE DEF fifo, host, deadlines, history
<1>. DEFINE c == lastCmd + 1
<1>1. /\ disp \in Threads /\ lastCmd \in Nat /\ QueueOK(queue) /\ stopper.cmd \in Ids
      /\ \A e \in Dispatchers : disp[e].cmd \in Ids
  BY DEF Inv, DispInv, Basics, QueueInv, Threads, DispType
<1>2. /\ disp[d].pc = "claim" /\ Claimable(queue) /\ queue' = ClaimHead(queue, c)
      /\ UNCHANGED <<coord, pump, stopper, helper, sent, delivered, withdrawn, left>>
  BY DEF ClaimNext, At
<1>3. c \in Nat /\ c \notin Ids
  BY <1>1 DEF Ids
<1>4. /\ disp'[d].pc = "claimed" /\ disp'[d].cmd = c
      /\ \A e \in Dispatchers \ {d} : disp'[e] = disp[e]
  <2>. DEFINE y == [disp[d] EXCEPT !.pc = "claimed", !.cmd = c,
                       !.attempt = queue[1].attempt + 1, !.msgs = queue[1].msgs,
                       !.retry = FALSE, !.error = "none"]
  <2>1. disp' = [disp EXCEPT ![d] = y]
    BY DEF ClaimNext
  <2>2. y.pc = "claimed" /\ y.cmd = c
    BY <1>1 DEF Threads, DispType
  <2>. HIDE DEF y
  <2>. QED  BY <1>1, <2>1, <2>2 DEF Threads
<1>. HIDE DEF c
<1>5. ~Out(queue)
  BY <1>2 DEF Claimable, Out, Claimed
<1>6. Queued(queue') = Queued(queue) /\ Out(queue') /\ queue'[1].cmd = c
  BY <1>1, <1>2, <1>3, ClaimStep
<1>7. HeldInv'
  BY <1>4, <1>5, <1>6 DEF HeldInv, Promise
<1>8. StopInv' /\ AbandonInv'
  BY <1>1, <1>2, <1>3, <1>4 DEF StopInv, AbandonInv, Promise
<1>9. Given' = Given /\ Queued(queue) \cap Given = {}
  BY <1>2, <1>5 DEF Given, Promise, GivenInv
<1>10. AwaitedInv' /\ GivenInv' /\ PastInv'
  BY <1>2, <1>5, <1>6, <1>9 DEF AwaitedInv, GivenInv, PastInv, Promise
<1>11. Promised
  BY <1>2 DEF Promised, Delivery!vars
<1>. QED  BY <1>2, <1>7, <1>8, <1>10, <1>11 DEF Promise

\* It is written to a helper that works on nothing.
LEMMA WrittenPromise ==
  ASSUME Inv, Promise, NEW d \in Dispatchers, Written(d)
  PROVE  Promise' /\ Promised
<1>. USE DEF fifo, host, deadlines, history
<1>. DEFINE c == disp[d].cmd
            x == Command(d)
<1>1. /\ disp[d].pc = "write" /\ Go(d, "arm") /\ helper' = H!Push(helper, x)
      /\ UNCHANGED <<queue, coord, pump, stopper, sent, delivered, withdrawn, left>>
  BY DEF Written, At
<1>2. /\ helper \in HelperType(Ids) /\ HelperInv(helper) /\ 0 \in Ids
      /\ disp \in Threads /\ disp[d] \in DispType(Ids)
  BY DEF Inv, FgInv, Basics, Ids, DispInv, Threads
<1>3. disp[d].pc \in Unwritten /\ disp[d].pc \in Holding /\ disp[d].pc \in Flying
  BY <1>1 DEF Unwritten, Holding, Flying
<1>4. /\ c # 0 /\ c \in Ids /\ coord.active.cmd = c /\ ~Named(helper, c)
      /\ pump.line.cmd # c
  BY <1>1, <1>3, FlyingIds DEF Inv, PhaseInv, Phase, FreshInv
<1>5. \A e : ~Owns(helper, e)
  BY <1>4, OwnsNamed DEF Inv, FgInv
<1>6. x \in CommandType(Ids) /\ x.cmd = c /\ Prompt(x)
  BY <1>2, <1>4 DEF Command, CommandType, DispType, Prompt
<1>7. /\ \A e : Owns(helper', e) => e = c
      /\ \A e, ms : e # 0 /\ HasPrompt(helper', e, ms) => e = c
  <2>. HIDE DEF x
  <2>1. /\ \A e : Owns(helper', e) => e = c
    BY <1>1, <1>2, <1>4, <1>5, <1>6, Pushes
  <2>. QED  BY <2>1, PromptOwned
<1>. HIDE DEF x
<1>8. Moves(d) /\ disp'[d].pc = "arm"
  BY <1>1, <1>2, Turns, GoesTo, PCSets DEF At
<1>9. AllFollow /\ \A e \in Dispatchers \ {d} : disp'[e] = disp[e]
  BY <1>8, MovesOn DEF Moves, OnlyMoves
<1>10. disp'[d].pc \notin Unwritten /\ disp'[d].pc \notin Holding
  BY <1>8 DEF Unwritten, Holding
<1>11. HeldInv'
  BY <1>1, <1>9, <1>10 DEF Promise, HeldInv
<1>12. StopInv'
  <2>1. \A e \in Dispatchers : Early(disp'[e]) => Early(disp[e])
    BY <1>8, <1>9 DEF Moves
  <2>. QED  BY <1>1, <1>9, <2>1, StopKept DEF Promise
<1>13. AbandonInv'
  BY <1>1, <1>4, <1>7 DEF AbandonInv
<1>14. Out(queue) /\ queue[1].cmd = c
  BY <1>3 DEF Promise, HeldInv
<1>15. NobodyHolds(disp', c)
  BY <1>4, <1>9, <1>10 DEF NobodyHolds, Inv, DispInv
<1>16. Queued(queue) \cap Given = {}
  BY <1>3, <1>14 DEF Promise, GivenInv, NobodyHolds
<1>17. MembersOf(queue[1]) \subseteq Queued(queue)
  BY <1>14, QueueHead DEF Out, Inv, QueueInv, QueueOK
<1>18. Given' = Given
  BY <1>1 DEF Given
<1>19. AwaitedInv'
  BY <1>1, <1>7, <1>14, <1>15, <1>16, <1>17, <1>18 DEF AwaitedInv
<1>20. GivenInv' /\ PastInv'
  BY <1>1, <1>16, <1>18 DEF GivenInv, PastInv, Promise
<1>21. Promised
  BY <1>1 DEF Promised, Delivery!vars
<1>. QED  BY <1>1, <1>11, <1>12, <1>13, <1>19, <1>20, <1>21 DEF Promise

\* The prompts of the head are the oldest that wait.
LEMMA HeadIsOldest ==
  ASSUME Inv, Promise, queue # <<>>, NEW ms, ms = queue[1].msgs,
         ToSet(ms) \cap Given = {}
  PROVE  /\ ms \in [1..Len(ms) -> Delivery!Waiting] /\ Len(ms) \in 1..sent
         /\ Delivery!Oldest(ms)
<1>1. /\ QueueOK(queue) /\ queue \in Seq(Batch(Nat)) /\ sent \in Nat
      /\ \A m \in Queued(queue) : m <= sent
  BY DEF Inv, QueueInv, QueueOK, Basics
<1>2. /\ 1 \in DOMAIN queue /\ ms \in Seq(Msgs) /\ ms # <<>>
      /\ MembersOf(queue[1]) \subseteq Queued(queue) /\ MembersOf(queue[1]) = ToSet(ms)
  BY <1>1, QueueHead DEF QueueOK, MembersOf, ToSet
<1>3. DOMAIN queue = 1..Len(queue) /\ Len(queue) \in Nat
  BY <1>1, LenProperties
<1>4. /\ Len(ms) \in Nat \ {0} /\ DOMAIN ms = 1..Len(ms)
      /\ \A i \in DOMAIN ms : ms[i] \in ToSet(ms)
  BY <1>2, LenProperties, EmptySeq DEF ToSet
<1>5. Queued(queue) \subseteq 1..sent
  BY <1>1, QueuedMsgs, MsgsAssumption
<1>6. ToSet(ms) \subseteq Delivery!Waiting
  BY <1>2, <1>5, StillWaiting DEF Promise, PastInv
<1>7. ms = [i \in 1..Len(ms) |-> ms[i]]
  BY <1>2, LenProperties
<1>8. /\ ms \in [1..Len(ms) -> Delivery!Waiting] /\ ms \in [1..Len(ms) -> 1..sent]
  BY <1>2, <1>4, <1>5, <1>6, <1>7
<1>9. IsInjective(ms)
  BY <1>1, <1>2, OnePlace DEF IsInjective, QueueOK
<1>10. Len(ms) <= sent
  <2>1. ms \in Injection(1..Len(ms), 1..sent)
    BY <1>8, <1>9 DEF Injection
  <2>2. IsFiniteSet(1..sent) /\ Cardinality(1..sent) = sent
    BY <1>1, FS_Interval
  <2>3. Cardinality(1..Len(ms)) = Len(ms)
    BY <1>4, FS_Interval
  <2>4. Cardinality(1..Len(ms)) <= Cardinality(1..sent)
    BY <2>1, <2>2, FS_Injection
  <2>. QED  BY <2>2, <2>3, <2>4
<1>11. ASSUME NEW i \in DOMAIN ms, NEW j \in DOMAIN ms, i < j
       PROVE  ms[i] < ms[j]
  BY <1>1, <1>2, <1>11 DEF QueueOK, InOrder, Before
<1>12. ASSUME NEW i \in DOMAIN ms, NEW m \in Delivery!Waiting \ ToSet(ms)
       PROVE  ms[i] < m
  <2>1. m \in Queued(queue)
    <3>1. m \in 1..sent /\ m \notin ToSet(delivered) /\ m \notin withdrawn
      BY <1>12, StillWaiting DEF Given
    <3>. QED  BY <3>1 DEF Inv, NothingLost
  <2>2. PICK j \in DOMAIN queue : m \in MembersOf(queue[j])
    BY <2>1 DEF Queued
  <2>3. PICK y \in DOMAIN queue[j].msgs : m = queue[j].msgs[y]
    BY <2>2 DEF MembersOf
  <2>4. 1 < j
    BY <1>2, <1>3, <1>12, <2>2
  <2>5. Before(1, i, j, y)
    BY <2>4 DEF Before
  <2>. QED  BY <1>1, <1>2, <2>3, <2>5 DEF QueueOK, InOrder
<1>13. Delivery!Oldest(ms)
  <2>1. Delivery!ToSet(ms) = ToSet(ms)
    BY DEF Delivery!ToSet, ToSet
  <2>. QED  BY <1>11, <1>12, <2>1 DEF Delivery!Oldest
<1>. QED  BY <1>1, <1>4, <1>8, <1>10, <1>13

LEMMA OneAfterTheOther ==
  ASSUME NEW S, NEW s \in Seq(S), NEW t \in Seq(S), IsInjective(s), IsInjective(t),
         ToSet(s) \cap ToSet(t) = {}
  PROVE  IsInjective(s \o t)
<1>1. /\ Len(s) \in Nat /\ DOMAIN s = 1..Len(s) /\ Len(t) \in Nat /\ DOMAIN t = 1..Len(t)
  BY LenProperties
<1>. DEFINE u == s \o t
<1>2. /\ u \in Seq(S) /\ Len(u) = Len(s) + Len(t)
      /\ \A i \in 1..(Len(s) + Len(t)) : u[i] = IF i <= Len(s) THEN s[i] ELSE t[i - Len(s)]
  BY ConcatProperties
<1>. HIDE DEF u
<1>3. DOMAIN u = 1..(Len(s) + Len(t))
  BY <1>2, LenProperties
<1>4. \A i \in DOMAIN u :
        \/ i \in DOMAIN s /\ i <= Len(s) /\ u[i] = s[i] /\ u[i] \in ToSet(s)
        \/ /\ i - Len(s) \in DOMAIN t /\ ~(i <= Len(s)) /\ u[i] = t[i - Len(s)]
           /\ u[i] \in ToSet(t)
  <2>. TAKE i \in DOMAIN u
  <2>1. CASE i <= Len(s)
    <3>1. i \in DOMAIN s /\ u[i] = s[i]
      BY <1>1, <1>2, <1>3, <2>1
    <3>. QED  BY <2>1, <3>1 DEF ToSet
  <2>2. CASE ~(i <= Len(s))
    <3>1. i - Len(s) \in DOMAIN t /\ u[i] = t[i - Len(s)]
      BY <1>1, <1>2, <1>3, <2>2
    <3>. QED  BY <2>2, <3>1 DEF ToSet
  <2>. QED  BY <2>1, <2>2
<1>5. ASSUME NEW i \in DOMAIN u, NEW j \in DOMAIN u, u[i] = u[j]
      PROVE  i = j
  <2>1. CASE i <= Len(s)
    BY <1>4, <1>5, <2>1 DEF IsInjective
  <2>2. CASE ~(i <= Len(s))
    <3>1. i - Len(s) = j - Len(s)
      <4>1. /\ i - Len(s) \in DOMAIN t /\ u[i] = t[i - Len(s)] /\ u[i] \in ToSet(t)
        BY <1>4, <2>2
      <4>2. /\ j - Len(s) \in DOMAIN t /\ u[j] = t[j - Len(s)]
        BY <1>4, <1>5, <4>1
      <4>. DEFINE a == i - Len(s)
                  b == j - Len(s)
      <4>3. a \in DOMAIN t /\ b \in DOMAIN t /\ t[a] = t[b]
        BY <1>5, <4>1, <4>2
      <4>. HIDE DEF a, b
      <4>4. a = b
        BY <4>3 DEF IsInjective
      <4>. QED  BY <4>4 DEF a, b
    <3>. QED  BY <1>1, <1>3, <3>1
  <2>. QED  BY <2>1, <2>2
<1>. QED  BY <1>5 DEF IsInjective, u

\* It is delivered: whole, after all that was sent before it, and only now.
LEMMA AdmitsPromise ==
  ASSUME Inv, Promise, HelperAdmits
  PROVE  Promise' /\ Promised
<1>. USE DEF fifo, host, deadlines, history
<1>. DEFINE c == helper.pend.cmd
            ms == helper.pend.msgs
<1>1. /\ H!CanConsume(helper) /\ helper' = H!Consume(helper) /\ delivered' = delivered \o ms
      /\ UNCHANGED <<queue, coord, disp, pump, stopper, sent, withdrawn, left>>
  BY DEF HelperAdmits, HelperTakes
<1>2. /\ helper \in HelperType(Ids) /\ HelperInv(helper) /\ 0 \in Ids
      /\ delivered \in Seq(Msgs) /\ ms \in Seq(Msgs) /\ c # 0 /\ c \in Ids
  BY <1>1 DEF Inv, FgInv, Basics, Ids, HelperType, H!CanConsume
<1>3. Evolves(Ids, helper, helper', {c})
  BY <1>1, <1>2, Consumes
<1>4. HelperShrinks
  BY <1>3, Shrinks
<1>5. StopInv' /\ AbandonInv'
  BY <1>1, <1>4, AbandonKept DEF StopInv, Promise
<1>6. CASE ms = <<>>
  <2>1. delivered' = delivered
    BY <1>1, <1>2, <1>6, ConcatEmptySeq
  <2>. QED  BY <1>1, <1>4, <1>5, <2>1, QuietPromise DEF Promise
<1>7. CASE ms # <<>>
  <2>1. HasPrompt(helper, c, ms)
    BY DEF HasPrompt
  <2>2. /\ Out(queue) /\ queue[1].cmd = c /\ NobodyHolds(disp, c)
        /\ MembersOf(queue[1]) \cap Given = {}
    BY <1>2, <1>7, <2>1 DEF Promise, AwaitedInv
  <2>3. ms = queue[1].msgs
    BY <2>1, <2>2 DEF Inv, PromptInv
  <2>4. /\ QueueOK(queue) /\ queue \in Seq(Batch(Nat)) /\ 1 \in DOMAIN queue
        /\ MembersOf(queue[1]) \subseteq Queued(queue)
    BY <2>2, QueueHead DEF Inv, QueueInv, QueueOK, Out
  <2>5. ToSet(ms) = MembersOf(queue[1]) /\ Given' = Given \cup ToSet(ms)
    <3>1. ToSet(delivered \o ms) = ToSet(delivered) \cup ToSet(ms)
      BY <1>2, Members
    <3>2. ToSet(ms) = MembersOf(queue[1])
      BY <2>3 DEF ToSet, MembersOf
    <3>. QED  BY <1>1, <3>1, <3>2 DEF Given
  <2>. HIDE DEF c, ms
  <2>6. HeldInv'
    BY <1>1 DEF Promise, HeldInv
  <2>7. ASSUME NEW e, NEW es, e # 0, HasPrompt(helper', e, es)
        PROVE  FALSE
    <3>1. HasPrompt(helper, e, es)
      BY <1>4, <2>7 DEF HelperShrinks, PromptsShrink
    <3>2. e = c
      <4>1. Owns(helper, e) /\ Owns(helper, c)
        BY <1>2, <2>1, <2>7, <3>1, PromptOwned
      <4>. QED  BY <4>1 DEF Inv, FgInv
    <3>3. c \in ToSet(helper'.sdk) /\ SdkInv(helper')
      <4>1. helper'.sdk = Append(helper.sdk, c)
        BY <1>1, <1>2 DEF H!Consume, H!Enqueue, H!Emit, HelperType, c
      <4>2. helper.sdk \in Seq(Ids)
        BY <1>2 DEF HelperType
      <4>. QED  BY <1>2, <1>3, <4>1, <4>2, Members DEF Evolves, HelperInv
    <3>. QED  BY <2>7, <3>2, <3>3 DEF SdkInv, HasPrompt
  <2>8. AwaitedInv'
    BY <2>7 DEF AwaitedInv
  <2>9. GivenInv'
    BY <1>1, <2>2, <2>5 DEF GivenInv, Promise
  <2>10. Queued(queue) \subseteq 1..sent
    BY <2>4, QueuedMsgs, MsgsAssumption DEF Inv, QueueInv
  <2>11. IsInjective(delivered')
    <3>1. IsInjective(ms)
      BY <2>3, <2>4, OnePlace DEF IsInjective, QueueOK
    <3>2. IsInjective(delivered) /\ ToSet(delivered) \cap ToSet(ms) = {}
      BY <2>2, <2>5 DEF Promise, PastInv, Given
    <3>. QED  BY <1>1, <1>2, <3>1, <3>2, OneAfterTheOther
  <2>12. PastInv'
    BY <1>1, <2>4, <2>5, <2>10, <2>11 DEF PastInv, Promise
  <2>13. /\ ms \in [1..Len(ms) -> Delivery!Waiting] /\ Len(ms) \in 1..sent
         /\ Delivery!Oldest(ms)
    BY <2>2, <2>3, <2>5, HeadIsOldest DEF Out
  <2>14. Delivery!Deliver(ms)
    BY <1>1, <2>13 DEF Delivery!Deliver
  <2>15. Promised
    BY <2>13, <2>14 DEF Promised, Delivery!Next
  <2>. QED  BY <1>1, <1>5, <2>6, <2>8, <2>9, <2>12, <2>15 DEF Promise
<1>. QED  BY <1>6, <1>7

-----------------------------------------------------------------------------
(* The theorems about the promise.                                         *)

LEMMA PromiseStarts ==
  ASSUME Init, \A s \in Scenarios : s.unknown = 0
  PROVE  Promise /\ Delivery!Init
<1>1. left.unknown = 0
  BY DEF Init
<1>2. queue = <<>> /\ ~Out(queue) /\ Queued(queue) = {}
  <2>1. queue = <<>> /\ DOMAIN queue = {}
    BY DEF Init
  <2>. QED  BY <2>1 DEF Out, Queued
<1>3. \A d \in Dispatchers : disp[d].pc = "idle" /\ disp[d].pc \notin Unwritten
  BY PCSets DEF Init, IdleDispatcher
<1>4. HeldInv /\ StopInv /\ AbandonInv
  BY <1>3 DEF HeldInv, StopInv, AbandonInv, Init, IdleStop, IdlePump
<1>5. AwaitedInv
  <2>1. helper.pend.msgs = <<>> /\ ToSet(helper.inbox) = {}
    BY NoMembers DEF Init, H!Launched, H!NoHelper, InitialPrompt
  <2>. QED  BY <2>1 DEF AwaitedInv, HasPrompt
<1>6. sent = 0 /\ delivered = <<>> /\ withdrawn = {} /\ Given = {}
  BY NoMembers DEF Init, Given
<1>7. GivenInv /\ PastInv
  BY <1>2, <1>6 DEF GivenInv, PastInv, IsInjective
<1>. QED  BY <1>1, <1>4, <1>5, <1>6, <1>7 DEF Promise, Delivery!Init

LEMMA PromiseStutters ==
  ASSUME Inv, Promise, UNCHANGED vars
  PROVE  Promise' /\ Promised
<1>1. UNCHANGED <<queue, disp, pump, stopper, helper, sent, delivered, withdrawn, left>>
  BY DEF vars
<1>2. StopInv' /\ AbandonInv'
  <2>1. coord' = coord
    BY DEF vars
  <2>. QED  BY <1>1, <2>1 DEF StopInv, AbandonInv, Promise
<1>. QED  BY <1>1, <1>2, HelperUnmoved, QuietPromise DEF Promise

LEMMA PromiseSteps ==
  ASSUME Inv, Promise, Next
  PROVE  Promise' /\ Promised
<1>1. ASSUME NEW d \in Dispatchers, DispatcherStep(d) PROVE Promise' /\ Promised
  <2>1. CASE \/ \E t \in Trigger : StartDispatch(d, t)
             \/ Gate(d) \/ NothingToClaim(d) \/ Observe(d) \/ UseHandle(d)
             \/ AdmitPrompt(d) \/ NotStarted(d) \/ MarkDelivery(d) \/ Undo(d)
             \/ ArmDeadline(d) \/ Peek(d) \/ AfterWrite(d) \/ Judge(d) \/ Recheck(d)
    BY <2>1, ThreadPromises
  <2>2. CASE ClaimNext(d) \/ Reconnect(d) \/ Written(d)
    BY <2>2, ClaimNextPromise, ReconnectPromise, WrittenPromise
  <2>3. CASE GiveBack(d) \/ Park(d) \/ Release(d)
    BY <2>3, GivenBackPromise, MarkedPromise
  <2>. QED  BY <1>1, <2>1, <2>2, <2>3 DEF DispatcherStep
<1>2. CASE PumpStep
  BY <1>2, PumpPromises, PumpFinishPromise DEF PumpStep
<1>3. CASE StopStep
  BY <1>3, StopPromises, StopTakesOut DEF StopStep
<1>4. CASE HelperStep
  BY <1>4, HelperPromises, AdmitsPromise DEF HelperStep
<1>5. CASE Deadline
  BY <1>5, StopPromises, MarkedPromise DEF Deadline
<1>6. CASE Fault
  <2>1. ~\E d \in Dispatchers : WriteUnknown(d)
    BY DEF WriteUnknown, Spend, Promise
  <2>. QED  BY <1>6, <2>1, ThreadPromises, HelperPromises DEF Fault
<1>7. CASE User
  BY <1>7, SendPromise, CancelPromise, StopPromises DEF User
<1>. QED  BY <1>1, <1>2, <1>3, <1>4, <1>5, <1>6, <1>7 DEF Next

\* As long as no write ends with an unknown outcome, the promise is kept: a prompt on
\* its way to the SDK is the head of the queue, whole and not delivered before.
THEOREM PromiseIsKept ==
  ASSUME \A s \in Scenarios : s.unknown = 0
  PROVE  Spec => []Promise
<1>1. Init => Promise
  BY PromiseStarts
<1>2. Inv /\ Promise /\ [Next]_vars => Promise'
  BY PromiseSteps, PromiseStutters
<1>. QED  BY <1>1, <1>2, Invariance, PTL DEF Spec

\* ImplementsDelivery: whatever threads, crashes, reconnections, stops and deadlines do
\* to a session whose writes end known, it delivers the prompts in the order they were
\* sent, each once, and gives one up only while it waits.
THEOREM DeliveryIsImplemented ==
  ASSUME \A s \in Scenarios : s.unknown = 0
  PROVE  Spec => ImplementsDelivery
<1>1. Init => Delivery!Init
  BY PromiseStarts
<1>2. Inv /\ Promise /\ [Next]_vars => [Delivery!Next]_(Delivery!vars)
  BY PromiseSteps, PromiseStutters DEF Promised
<1>. QED  BY <1>1, <1>2, Invariance, PromiseIsKept, PTL
          DEF Spec, ImplementsDelivery, Delivery!Spec

\* NeverReplayed, where no write ends unknown: no message is given to the SDK twice.
\* (Where one does, the run replay_race shows that one is.)
THEOREM NoReplay ==
  ASSUME \A s \in Scenarios : s.unknown = 0
  PROVE  Spec => []NeverReplayed
<1>1. Promise => NeverReplayed
  BY DEF Promise, PastInv, NeverReplayed
<1>. QED  BY <1>1, PromiseIsKept, PTL
=============================================================================
