---------------------------- MODULE PromptDelivery ----------------------------
(***************************************************************************)
(* What a managed session promises about prompts: they go to the model in  *)
(* the order they were submitted, each at most once, unless the user takes *)
(* one back while it still waits.  Messages are numbers in that order.     *)
(***************************************************************************)
EXTENDS Naturals, Sequences, SequencesExt

CONSTANT MaxMsgs

VARIABLES submitted, delivered, withdrawn
vars == <<submitted, delivered, withdrawn>>

Init ==
  /\ submitted = 0
  /\ delivered = <<>>
  /\ withdrawn = {}

\* The prompts that were neither delivered nor taken back.
Waiting == (1..submitted) \ (ToSet(delivered) \cup withdrawn)

Submit ==
  /\ submitted < MaxMsgs
  /\ submitted' = submitted + 1
  /\ UNCHANGED <<delivered, withdrawn>>

\* The oldest waiting prompts go out together, as one turn.
Oldest(batch) ==
  /\ \A i, j \in DOMAIN batch : i < j => batch[i] < batch[j]
  /\ \A i \in DOMAIN batch, m \in Waiting \ ToSet(batch) : batch[i] < m

Deliver(batch) ==
  /\ Oldest(batch)
  /\ delivered' = delivered \o batch
  /\ UNCHANGED <<submitted, withdrawn>>

Withdraw(taken) ==
  /\ withdrawn' = withdrawn \cup taken
  /\ UNCHANGED <<submitted, delivered>>

Next ==
  \/ Submit
  \/ \E n \in 1..submitted : \E batch \in [1..n -> Waiting] : Deliver(batch)
  \/ \E taken \in SUBSET Waiting : Withdraw(taken)

Spec == Init /\ [][Next]_vars
=============================================================================
