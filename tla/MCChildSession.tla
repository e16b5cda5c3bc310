--------------------------- MODULE MCChildSession ---------------------------
(* Instances of ChildSession for TLC.                                      *)
EXTENDS ChildSession, TLC

CONSTANTS d1, d2, g1

TwoDispatchers == {d1, d2}
OneCollector == {g1}
MortalPair == {d1, g1}

=============================================================================
