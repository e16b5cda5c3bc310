--------------------------- MODULE MCIdentityLock ---------------------------
EXTENDS IdentityLock, TLC
CONSTANTS p1, p2, p3
AllProcs == {p1, p2, p3}
TwoProcs == {p1, p2}
JustP3 == {p3}
=============================================================================
