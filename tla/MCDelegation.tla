---- MODULE MCDelegation ----
EXTENDS Delegation, TLC

Symmetry == Permutations(Procs)

====
