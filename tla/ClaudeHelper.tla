----------------------------- MODULE ClaudeHelper -----------------------------
(***************************************************************************)
(* The Claude side of one helper process                                   *)
(* (packages/native-runtime-helper/src/index.ts) as far as the foreground  *)
(* is concerned, as functions from the helper record to the new record.    *)
(* JavaScript runs one turn at a time, so what happens between two awaits  *)
(* is one function here.                                                   *)
(*                                                                         *)
(* pend is the reserved admission (pendingClaudeCoordinatorAdmission), fg  *)
(* the foreground command (claudeForegroundPromptUuid), sdk the prompts    *)
(* the Claude SDK was given and has not finished; the SDK is outside the   *)
(* repository and may take any time.  inbox and outbox are the two pipes.  *)
(* A line that is always followed by a status line carries its text.       *)
(***************************************************************************)
EXTENDS Naturals, Sequences

NoPrompt == [cmd |-> 0, msgs |-> <<>>]

Line(kind, cmd, status) == [kind |-> kind, cmd |-> cmd, status |-> status]

NoHelper == [up |-> FALSE, inc |-> 0, init |-> FALSE, mode |-> "negotiating",
             pend |-> NoPrompt, fg |-> 0, sdk |-> <<>>,
             inbox |-> <<>>, outbox |-> <<>>]

\* A helper that was given its init command, with prompt p as initial prompt.
Launched(inc, p) == [NoHelper EXCEPT !.up = TRUE, !.inc = inc, !.pend = p]

Emit(h, lines) == [h EXCEPT !.outbox = @ \o lines]

Push(h, command) == IF h.up THEN [h EXCEPT !.inbox = Append(@, command)] ELSE h

\* enqueueClaudePrompt: the prompt goes to the SDK and owns the foreground.
Enqueue(h, p) ==
  Emit([h EXCEPT !.fg = p.cmd, !.sdk = Append(@, p.cmd)],
       <<Line("admitted", p.cmd, "processing")>>)

\* Initialization settles; an initial prompt that Stop did not cancel meanwhile
\* is admitted in the same JavaScript turn.
InitSettled(h, initialCmd) ==
  LET ready == Emit([h EXCEPT !.init = TRUE],
                    <<Line("meta", 0, "none"), Line("ready", 0, "ready"),
                      Line("settled", 0, "none")>>)
  IN  IF initialCmd # 0 /\ h.pend.cmd = initialCmd
      THEN Enqueue([ready EXCEPT !.pend = NoPrompt], h.pend)
      ELSE ready

\* reserveClaudeCoordinatorAdmission: one prompt at a time.
Busy(h) == h.fg # 0 \/ h.pend.cmd # 0

Reserve(h, p) ==
  IF Busy(h) THEN Emit(h, <<Line("rejected", p.cmd, "none")>>)
  ELSE [h EXCEPT !.pend = p]

\* The awaits are over: the reservation is consumed.
CanConsume(h) == h.init /\ h.pend.cmd # 0
Consume(h) == Enqueue([h EXCEPT !.pend = NoPrompt], h.pend)

\* interrupt_turn for command c: another owner, no owner, a reservation that can
\* be withdrawn, or the foreground.  A query that has not negotiated yet is let
\* go at once; otherwise the SDK's own terminal is awaited.
Interrupt(h, c) ==
  LET owner == IF h.fg # 0 THEN h.fg ELSE h.pend.cmd
      text  == IF h.init THEN "ready" ELSE "initializing"
  IN  CASE owner # c /\ owner # 0 ->
             Emit(h, <<Line("mismatch", c, "processing")>>)
        [] owner = 0 ->
             Emit(h, <<Line("abandoned", c, "ready")>>)
        [] owner = c /\ h.fg = 0 ->
             Emit([h EXCEPT !.pend = NoPrompt], <<Line("abandoned", c, text)>>)
        [] owner = c /\ h.fg = c /\ h.mode = "negotiating" ->
             Emit([h EXCEPT !.fg = 0], <<Line("ready", 0, "ready")>>)
        [] OTHER -> h

\* configureClaudeLifecycleFromInit: the SDK announced msg_lifecycle_v1.
CanNegotiate(h) == h.init /\ h.mode = "negotiating"
Negotiate(h) ==
  Emit([h EXCEPT !.mode = "full"], <<Line("metaFull", 0, "none")>>)

\* Mutant: the foreground outlives its terminal line.
FinishKeepingForeground(h) ==
  Emit([h EXCEPT !.sdk = Tail(@)],
       <<Line("terminal", Head(h.sdk), "ready")>>)

\* processNegotiatedClaudeSdkCommandLifecycle and finishClaudeFullLifecycleTurn:
\* the oldest prompt of the SDK reaches its terminal state.
CanFinish(h) == h.mode = "full" /\ h.sdk # <<>>
Finish(h) ==
  Emit([h EXCEPT !.sdk = Tail(@), !.fg = IF @ = Head(h.sdk) THEN 0 ELSE @],
       <<Line("terminal", Head(h.sdk),
              IF h.fg = Head(h.sdk) THEN "ready" ELSE "none")>>)

\* The process is gone; what it wrote is still in the pipe.
Died(h) == [h EXCEPT !.up = FALSE, !.inbox = <<>>, !.pend = NoPrompt,
                     !.fg = 0, !.sdk = <<>>]
=============================================================================
