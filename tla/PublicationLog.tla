---- MODULE PublicationLog ----
(* What the publication of fixed-point aggregates promises, whoever publishes: *)
(* the current revision is replaced by one of the same or a later point, never *)
(* by one of an earlier point, and every revision that was ever current stays  *)
(* on record.                                                                  *)
EXTENDS Naturals

CONSTANT None         \* no revision is current yet

VARIABLES current,    \* the revision "latest" leads to, with its point .at
          generation, \* how many times it has been replaced
          record      \* every revision that was ever current

vars == <<current, generation, record>>

Init ==
  /\ current = None
  /\ generation = 0
  /\ record = {}

Publish ==
  /\ current' \notin {current, None}
  /\ current # None => current.at <= current'.at
  /\ generation' = IF current = None THEN 0 ELSE generation + 1
  /\ record' = record \union {current'}

Spec == Init /\ [][Publish]_vars
====
