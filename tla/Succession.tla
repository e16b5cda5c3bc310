---- MODULE Succession ----
(* What a delegation promises of its children, whoever runs it: they follow one   *)
(* another. A child is started when all before it are dead, but for retries that  *)
(* never got as far as being bound; only the last one is bound; and the end, which *)
(* is final, finds no bound child alive and returns the answer of the last.       *)
EXTENDS Naturals, Sequences

VARIABLES
  children, \* in the order they were started
  ending,   \* "open", "returned" or "cancelled"
  outcome   \* the child whose answer was returned, or 0

vars == <<children, ending, outcome>>

Init == children = <<>> /\ ending = "open" /\ outcome = 0

Last == Len(children)
Quiet == \A i \in DOMAIN children : children[i].bound => ~children[i].live

\* The start of a retry may overtake a cancellation; it is then never bound.
Start ==
  /\ ending # "returned"
  /\ \A i \in DOMAIN children : children[i].live => children[i].retry /\ ~children[i].bound
  /\ \E again \in BOOLEAN :
       children' = Append(children, [live |-> TRUE, bound |-> FALSE, retry |-> again,
                                     final |-> FALSE])
  /\ UNCHANGED <<ending, outcome>>

Bind ==
  /\ ending = "open" /\ Last # 0
  /\ children' = [children EXCEPT ![Last].bound = TRUE]
  /\ UNCHANGED <<ending, outcome>>

End ==
  /\ \E i \in DOMAIN children, answer \in BOOLEAN :
       /\ children[i].live
       /\ children' = [children EXCEPT ![i].live = FALSE, ![i].final = answer]
  /\ UNCHANGED <<ending, outcome>>

Return ==
  /\ ending = "open" /\ Last # 0 /\ Quiet
  /\ children[Last].bound /\ children[Last].final
  /\ ending' = "returned" /\ outcome' = Last
  /\ UNCHANGED children

Cancel ==
  /\ ending = "open" /\ Quiet
  /\ ending' = "cancelled"
  /\ UNCHANGED <<children, outcome>>

Next == Start \/ Bind \/ End \/ Return \/ Cancel

Spec == Init /\ [][Next]_vars
====
