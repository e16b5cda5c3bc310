----------------------------- MODULE OutboxLock -----------------------------
(***************************************************************************)
(* withLock of the project metrics outbox (packages/project-metrics/src/   *)
(* client.ts) for one directory.  The lock is a file .lock that appears    *)
(* complete, by link(), with the process id and a nonce of the call that   *)
(* made it.  The lock of a dead process is removed by whoever holds a      *)
(* second lock, .lock-reaper, which itself is never reclaimed.             *)
(*                                                                         *)
(* One client is one call of withLock; a process has several in flight, so *)
(* that the process id in a lock does not say which call made it: the      *)
(* client stands for inode and nonce.  A step is a system call, or several *)
(* that are compared with each other by the code.  A process may be killed *)
(* after any step, with all its calls.                                     *)
(***************************************************************************)
EXTENDS Naturals, FiniteSets

CONSTANTS
  Client,     \* calls of withLock
  Process,    \* Pi processes and CLI invocations
  ProcessOf,  \* the process of each call
  NoClient    \* no such file

ASSUME OutboxLockAssumption ==
  /\ ProcessOf \in [Client -> Process]
  /\ NoClient \notin Client

VARIABLES
  lock,   \* whose .lock there is
  guard,  \* whose .lock-reaper there is
  saw,    \* the lock a reclaiming call has read
  dead,   \* killed processes
  pc      \* where each call stands

vars == <<lock, guard, saw, dead, pc>>

Places ==
  {"idle", "publish", "guard", "read", "probe", "confirm", "unlink", "republish",
   "unguard", "verify", "inside", "release", "wait"}

TypeOK ==
  /\ lock \in Client \cup {NoClient}
  /\ guard \in Client \cup {NoClient}
  /\ saw \in [Client -> Client \cup {NoClient}]
  /\ dead \subseteq Process
  /\ pc \in [Client -> Places]

Init ==
  /\ lock = NoClient /\ guard = NoClient /\ dead = {}
  /\ saw = [c \in Client |-> NoClient]
  /\ pc = [c \in Client |-> "idle"]

Dead(c) == ProcessOf[c] \in dead
At(c, place) == ~Dead(c) /\ pc[c] = place
Goto(c, place) == pc' = [pc EXCEPT ![c] = place]

-----------------------------------------------------------------------------
Start(c) ==
  /\ At(c, "idle") /\ Goto(c, "publish")
  /\ UNCHANGED <<lock, guard, saw, dead>>

(* publishLock(.lock): link() makes the file with its content, or EEXIST.  *)
(* When the directory cannot be synced the file is removed and withLock    *)
(* throws, which is what a release does.                                   *)
Publish(c) ==
  /\ At(c, "publish")
  /\ IF lock = NoClient
     THEN lock' = c /\ \E next \in {"verify", "release"} : Goto(c, next)
     ELSE Goto(c, "guard") /\ UNCHANGED lock
  /\ UNCHANGED <<guard, saw, dead>>

TakeGuardShared(c) ==
  /\ At(c, "guard")
  /\ guard' = c /\ Goto(c, "read")
  /\ UNCHANGED <<lock, saw, dead>>

(* reclaimAndPublishLock: a busy guard is left alone, whoever holds it.    *)
TakeGuard(c) ==
  /\ At(c, "guard")
  /\ IF guard = NoClient THEN guard' = c /\ Goto(c, "read")
                         ELSE Goto(c, "wait") /\ UNCHANGED guard
  /\ UNCHANGED <<lock, saw, dead>>

(* reclaimStaleLock: the lock is read, its process is probed, the lock is  *)
(* read again and must be the same; only then is it unlinked.              *)
Read(c) ==
  /\ At(c, "read")
  /\ saw' = [saw EXCEPT ![c] = lock]
  /\ Goto(c, IF lock = NoClient THEN "unguard" ELSE "probe")
  /\ UNCHANGED <<lock, guard, dead>>

Probe(c) ==
  /\ At(c, "probe")
  /\ IF Dead(saw[c])
     THEN Goto(c, "confirm") /\ UNCHANGED saw
     ELSE Goto(c, "unguard") /\ saw' = [saw EXCEPT ![c] = NoClient]
  /\ UNCHANGED <<lock, guard, dead>>

(* Without the guard reclaimStaleLock throws outbox_reaper_lost, and       *)
(* withLock with it.                                                       *)
Confirm(c) ==
  /\ At(c, "confirm")
  /\ saw' = [saw EXCEPT ![c] = NoClient]
  /\ Goto(c, IF lock # saw[c] THEN "unguard"
             ELSE IF guard # c THEN "idle" ELSE "unlink")
  /\ UNCHANGED <<lock, guard, dead>>

Unlink(c) ==
  /\ At(c, "unlink")
  /\ lock' = NoClient /\ Goto(c, "republish")
  /\ UNCHANGED <<guard, saw, dead>>

(* Still under the guard, though any other call may publish in between.    *)
(* The guard is given back whether it was this call's lock that came up.   *)
Republish(c) ==
  /\ At(c, "republish")
  /\ lock' = IF lock = NoClient THEN c ELSE lock
  /\ Goto(c, "unguard")
  /\ UNCHANGED <<guard, saw, dead>>

UnguardForgotten(c) ==
  /\ At(c, "unguard")
  /\ Goto(c, IF lock = c THEN "verify" ELSE "wait")
  /\ UNCHANGED <<lock, guard, saw, dead>>

(* releaseOwnedLock(.lock-reaper).                                         *)
Unguard(c) ==
  /\ At(c, "unguard")
  /\ guard' = IF guard = c THEN NoClient ELSE guard
  /\ Goto(c, IF lock = c THEN "verify" ELSE "wait")
  /\ UNCHANGED <<lock, saw, dead>>

(* The lock must be the one that was published, else outbox_lock_lost.     *)
Verify(c) ==
  /\ At(c, "verify")
  /\ Goto(c, IF lock = c THEN "inside" ELSE "release")
  /\ UNCHANGED <<lock, guard, saw, dead>>

Finish(c) ==
  /\ At(c, "inside") /\ Goto(c, "release")
  /\ UNCHANGED <<lock, guard, saw, dead>>

(* releaseOwnedLock(.lock): never a lock with another inode or nonce.      *)
Release(c) ==
  /\ At(c, "release")
  /\ lock' = IF lock = c THEN NoClient ELSE lock
  /\ Goto(c, "idle")
  /\ UNCHANGED <<guard, saw, dead>>

(* 20 ms later the loop tries again, until its deadline: outbox_locked.    *)
TryAgain(c) ==
  /\ At(c, "wait")
  /\ \E next \in {"publish", "idle"} : Goto(c, next)
  /\ UNCHANGED <<lock, guard, saw, dead>>

(* What its calls knew dies with a process; the files stay.                *)
Kill(p) ==
  /\ p \notin dead /\ dead' = dead \cup {p}
  /\ pc' = [c \in Client |-> IF ProcessOf[c] = p THEN "idle" ELSE pc[c]]
  /\ saw' = [c \in Client |-> IF ProcessOf[c] = p THEN NoClient ELSE saw[c]]
  /\ UNCHANGED <<lock, guard>>

Step(c) ==
  \/ Start(c) \/ Publish(c) \/ TakeGuard(c) \/ Read(c) \/ Probe(c) \/ Confirm(c)
  \/ Unlink(c) \/ Republish(c) \/ Unguard(c) \/ Verify(c) \/ Finish(c) \/ Release(c)
  \/ TryAgain(c)

Next == (\E c \in Client : Step(c)) \/ (\E p \in Process : Kill(p))

Spec == Init /\ [][Next]_vars

(* Timers fire, system calls return, and calls are made again.             *)
FairSpec == Spec /\ \A c \in Client : WF_vars(Step(c))

-----------------------------------------------------------------------------
Inside == {c \in Client : At(c, "inside")}

Lock == INSTANCE Mutex WITH inside <- Inside

(* The lock protocol implements the abstract mutex: no operation on an     *)
(* outbox directory begins while another one, of the same or another       *)
(* process, is in progress, whatever dead locks are reclaimed meanwhile.   *)
IsMutex == Lock!Spec

(* A dead process's lock is replaced as long as a process is left that     *)
(* wants it, unless a second kill hit the call that was reclaiming it: its *)
(* guard is never taken from it.                                           *)
DeadLockIsReclaimed ==
  (lock # NoClient /\ Dead(lock)) ~>
    \/ lock = NoClient \/ ~Dead(lock)
    \/ guard # NoClient /\ Dead(guard)
    \/ dead = Process

=============================================================================
