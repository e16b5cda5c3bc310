------------------------------ MODULE Delivery ------------------------------
(***************************************************************************)
(* What the metrics outbox and its service promise together: a submitted   *)
(* record is kept until the service has that very record; the service      *)
(* counts rows, in the order they came, one for an event however often it  *)
(* is sent, and of nothing that was not submitted.  Two records may claim  *)
(* the same event; the service keeps the first and the other one stays.    *)
(***************************************************************************)
EXTENDS Sequences

CONSTANT Record  \* each claims an event

VARIABLES
  pending,  \* submitted and not yet given up by the client
  stored    \* the rows the service counts, oldest first

Init == pending = {} /\ stored = <<>>

Submit(r) ==
  /\ r \notin pending
  /\ pending' = pending \cup {r} /\ UNCHANGED stored

Store(r) ==
  /\ r \in pending
  /\ \A k \in DOMAIN stored : stored[k].event # r.event
  /\ stored' = Append(stored, r) /\ UNCHANGED pending

Forget(r) ==
  /\ r \in pending /\ \E k \in DOMAIN stored : stored[k] = r
  /\ pending' = pending \ {r} /\ UNCHANGED stored

Next == \E r \in Record : Submit(r) \/ Store(r) \/ Forget(r)

Spec == Init /\ [][Next]_<<pending, stored>>

=============================================================================
