------------------------------ MODULE HermesOutbox ------------------------------
(***************************************************************************)
(* The outbox of the Hermes bridge (hermes_bridge/store.rs and poll.rs): a  *)
(* table of deliveries, keyed by an id computed from what is delivered, so  *)
(* that whatever is found twice is queued once.  A delivery is reserved in  *)
(* the table before the network sees it and never goes back to "pending":   *)
(* what may have been sent is not sent again.                               *)
(***************************************************************************)

\* enqueue_delivery: INSERT OR IGNORE.
QueuedDelivery(outbox, d) ==
  IF \E x \in outbox : x.id = d.id THEN outbox ELSE outbox \cup {d}

\* save_delivery.
Saved(outbox, d) == {x \in outbox : x.id # d.id} \cup {d}

\* reserve_delivery_with, for a pending delivery.
ReservedDelivery(d, authorized) ==
  [d EXCEPT !.status = IF authorized THEN "sending" ELSE "revoked"]

\* finish_delivery_with: what the receipt says counts only under the authority the
\* delivery was reserved with.
FinishedDelivery(d, receipt, authorized) ==
  IF d.status # "sending" THEN d
  ELSE [d EXCEPT !.status = IF authorized THEN receipt ELSE "unknown"]

\* The deliveries of `chosen' that nobody has reserved are withdrawn.
Withdrawn(outbox, chosen) ==
  {IF d \in chosen /\ d.status = "pending" THEN [d EXCEPT !.status = "revoked"] ELSE d :
     d \in outbox}

\* Mutant: a delivery that was being sent is sent again.
ReopenedToRetry(outbox) ==
  {IF d.status = "sending" THEN [d EXCEPT !.status = "pending"] ELSE d : d \in outbox}

\* Store::open after a crash: a reservation may have been used.
ReopenedOutbox(outbox) ==
  {IF d.status = "sending" THEN [d EXCEPT !.status = "unknown"] ELSE d : d \in outbox}
=============================================================================
