------------------------------- MODULE Mutex -------------------------------
(***************************************************************************)
(* What a file lock promises its callers: at most one live process at a    *)
(* time is between taking the lock and giving it back, and it leaves either*)
(* by releasing the lock or by dying.  Nothing is said of how a dead       *)
(* holder's lock is broken, only that it is broken for one newcomer.       *)
(***************************************************************************)
CONSTANT Client

VARIABLE inside  \* the clients between taking the lock and giving it back

Init == inside = {}

Enter(c) == inside = {} /\ inside' = {c}

(* A release, or the death of the process, which may take several of its   *)
(* callers with it.                                                        *)
Leave == inside # {} /\ inside' = {}

Next == Leave \/ \E c \in Client : Enter(c)

Spec == Init /\ [][Next]_inside

=============================================================================
