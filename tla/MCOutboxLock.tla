---------------------------- MODULE MCOutboxLock ----------------------------
(* Three processes, one of them with two calls in flight.                  *)
EXTENDS OutboxLock, TLC
CONSTANTS c1, c2, c3, c4, p1, p2, p3
MCProcessOf == c1 :> p1 @@ c2 :> p2 @@ c3 :> p2 @@ c4 :> p3
=============================================================================
