---------------------------- MODULE IdentityLock ----------------------------
(***************************************************************************)
(* The per-identity lock file of @pi/subagent                              *)
(* (packages/subagent/src/session-lock.ts) with the dispatchers that take  *)
(* it, the Pi child processes they start under it, and the takeover of a   *)
(* lock whose owner died.                                                  *)
(*                                                                         *)
(* Definitions named for a slip (WithoutScan, ByAge, ...) precede the one  *)
(* they vary and are used nowhere: they are bugs the properties must see.  *)
(*                                                                         *)
(* One lock file (one key) is modelled.  Every await of the code is a step *)
(* of its own: the file is created, then written; it is read, then         *)
(* replaced or unlinked; the owner is probed, then its child.  A token is  *)
(* identified with the dispatcher that wrote it: a dispatcher makes one    *)
(* acquisition at a time and a restarted Pi is another member of Procs.    *)
(***************************************************************************)
CONSTANTS
  Procs,         \* dispatcher processes that compete for the key
  NoProc,        \* owner of an absent lock file
  Takers,        \* dispatchers whose options allow stale-owner recovery
  Mortal,        \* dispatchers that may be killed
  Stubborn,      \* dispatchers whose child may survive SIGTERM for 5 seconds
  RacyTakeover   \* FALSE: no dispatcher moves while another is mid-takeover

ASSUME LockAssumption ==
  /\ NoProc \notin Procs
  /\ Takers \subseteq Procs
  /\ Mortal \subseteq Procs
  /\ Stubborn \subseteq Procs
  /\ RacyTakeover \in BOOLEAN

VARIABLES
  lock,      \* the lock file: owner, payload written, recorded child state
  alive,     \* dispatchers whose process exists
  pc,        \* where each dispatcher stands
  seen,      \* the lock record a dispatcher read last
  children,  \* child processes: who started them, argv visible or not
  grace      \* owners whose starting window (startingGraceMs) has elapsed

vars == <<lock, alive, pc, seen, children, grace>>

ChildState == {"idle", "starting", "running"}
LockRecord == [owner : Procs \cup {NoProc}, written : BOOLEAN, child : ChildState]
NoLock == [owner |-> NoProc, written |-> FALSE, child |-> "idle"]

(* readLock returns undefined for a missing, empty or unparsable file.     *)
Readable(record) == record.owner # NoProc /\ record.written

TakeoverPcs == {"reading", "probing", "inspecting", "reclaiming", "recreating"}
HoldingPcs == {"writing", "held", "marking", "marked", "spawned", "registering",
               "running", "settled", "unlinking"}
Pcs == {"idle"} \cup TakeoverPcs \cup HoldingPcs

ChildProcess == [owner : Procs, phase : {"forked", "visible"}]
Forked(p) == [owner |-> p, phase |-> "forked"]
Visible(p) == [owner |-> p, phase |-> "visible"]
ChildOf(p) == {c \in children : c.owner = p}

TypeOK ==
  /\ lock \in LockRecord
  /\ alive \subseteq Procs
  /\ pc \in [Procs -> Pcs]
  /\ seen \in [Procs -> LockRecord]
  /\ children \subseteq ChildProcess
  /\ grace \subseteq Procs

Init ==
  /\ lock = NoLock
  /\ alive = Procs
  /\ pc = [p \in Procs |-> "idle"]
  /\ seen = [p \in Procs |-> NoLock]
  /\ children = {}
  /\ grace = {}

-----------------------------------------------------------------------------
(* A live dispatcher takes a step from one place to another.  Without      *)
(* RacyTakeover the step waits while some other dispatcher is between      *)
(* reading a stale lock and creating its own.  The record read is kept for *)
(* as long as the code still uses it.                                      *)
Quiet(p) == RacyTakeover \/ \A q \in Procs \ {p} : pc[q] \notin TakeoverPcs

Moves(p, from, to) ==
  /\ p \in alive
  /\ Quiet(p)
  /\ pc[p] = from
  /\ pc' = [pc EXCEPT ![p] = to]
  /\ seen' = [seen EXCEPT ![p] =
                 CASE to = "probing" -> lock [] to = "inspecting" -> @ [] OTHER -> NoLock]
  /\ UNCHANGED alive

(* acquireIdentityLock: open(lockPath, "wx") creates an empty file or      *)
(* fails with EEXIST; then either recovery is off and the key is busy, or  *)
(* the existing lock is examined.                                          *)
CreateExclusive(p) ==
  /\ lock = NoLock
  /\ Moves(p, "idle", "writing") \/ Moves(p, "recreating", "writing")
  /\ lock' = [NoLock EXCEPT !.owner = p]
  /\ UNCHANGED <<children, grace>>

Contended(p) ==
  /\ lock # NoLock
  /\ \/ p \in Takers /\ Moves(p, "idle", "reading")
     \/ Moves(p, "recreating", "idle")
  /\ UNCHANGED <<lock, children, grace>>

(* handle.writeFile goes to the inode that was opened: if the path has     *)
(* been unlinked and recreated meanwhile, the new file is not touched.     *)
WritePayload(p) ==
  /\ Moves(p, "writing", "held")
  /\ lock' = IF lock.owner = p THEN [lock EXCEPT !.written = TRUE] ELSE lock
  /\ UNCHANGED <<children, grace>>

-----------------------------------------------------------------------------
(* Takeover: read the record, probe its owner, inspect its child, unlink,  *)
(* create again.  Each step uses what an earlier one read.                 *)
ReadExisting(p) ==
  /\ \/ Readable(lock) /\ Moves(p, "reading", "probing")
     \/ ~Readable(lock) /\ Moves(p, "reading", "idle")
  /\ UNCHANGED <<lock, children, grace>>

ProbeOwner(p) ==
  /\ \/ seen[p].owner \notin alive /\ Moves(p, "probing", "inspecting")
     \/ seen[p].owner \in alive /\ Moves(p, "probing", "idle")
  /\ UNCHANGED <<lock, children, grace>>

ProvedGoneWithoutScan(record) ==
  record.child = "starting" => record.owner \in grace

ProvedGoneWithoutGrace(record) ==
  record.child = "idle" \/ \A c \in children : c.phase # "visible"

ProvedGoneNeverStarting(record) ==
  record.child = "idle" \/ (record.child = "running" /\ \A c \in children : c.phase # "visible")

(* childMayExist: an idle record has no child; a starting one is protected *)
(* by its grace window; otherwise only a complete process scan that finds  *)
(* no matching command line clears the record.  The scan matches the child *)
(* session id, which every dispatcher of this key shares.                  *)
ProvedGone(record) ==
  \/ record.child = "idle"
  \/ /\ record.child = "starting" => record.owner \in grace
     /\ \A c \in children : c.phase # "visible"

InspectClear(p) ==
  /\ ProvedGone(seen[p])
  /\ Moves(p, "inspecting", "reclaiming")
  /\ UNCHANGED <<lock, children, grace>>

(* The table shows a match, the grace window holds, or the scan failed.    *)
InspectBusy(p) ==
  /\ seen[p].child # "idle"
  /\ Moves(p, "inspecting", "idle")
  /\ UNCHANGED <<lock, children, grace>>

(* unlink removes whatever file is at the path now; ENOENT is ignored.     *)
Reclaim(p) ==
  /\ Moves(p, "reclaiming", "recreating")
  /\ lock' = NoLock
  /\ UNCHANGED <<children, grace>>

-----------------------------------------------------------------------------
(* The holder.  updateLock reads the record, does nothing when the token   *)
(* is not its own, and otherwise renames a new file over the path.         *)
OwnsFile(p) == lock.owner = p /\ lock.written

MarkRead(p) ==
  /\ \/ OwnsFile(p) /\ Moves(p, "held", "marking")
     \/ ~OwnsFile(p) /\ Moves(p, "held", "marked")
  /\ UNCHANGED <<lock, children, grace>>

MarkChildStarting(p) ==
  /\ Moves(p, "marking", "marked")
  /\ lock' = [owner |-> p, written |-> TRUE, child |-> "starting"]
  /\ grace' = grace \ {p}
  /\ UNCHANGED children

Spawn(p) ==
  /\ Moves(p, "marked", "spawned")
  /\ children' = children \cup {Forked(p)}
  /\ UNCHANGED <<lock, grace>>

(* spawn returns, with a pid, once the child has replaced its image.       *)
RegisterRead(p) ==
  /\ Forked(p) \notin children
  /\ \/ OwnsFile(p) /\ Moves(p, "spawned", "registering")
     \/ ~OwnsFile(p) /\ Moves(p, "spawned", "running")
  /\ UNCHANGED <<lock, children, grace>>

SetChildProcess(p) ==
  /\ Moves(p, "registering", "running")
  /\ lock' = [owner |-> p, written |-> TRUE, child |-> "running"]
  /\ UNCHANGED <<children, grace>>

(* The attempt ends when the child has closed; the dispatcher may retry.   *)
AttemptCloses(p) ==
  /\ ChildOf(p) = {}
  /\ Moves(p, "running", "held")
  /\ UNCHANGED <<lock, children, grace>>

(* terminate: SIGTERM, and after 5 seconds the attempt settles although    *)
(* close was never seen (proc.killed is already true, so no SIGKILL).      *)
ForceSettle(p) ==
  /\ p \in Stubborn
  /\ Moves(p, "running", "settled")
  /\ UNCHANGED <<lock, children, grace>>

ReleaseRead(p) ==
  /\ \E from \in {"held", "settled"} :
       \/ OwnsFile(p) /\ Moves(p, from, "unlinking")
       \/ ~OwnsFile(p) /\ Moves(p, from, "idle")
  /\ UNCHANGED <<lock, children, grace>>

Release(p) ==
  /\ Moves(p, "unlinking", "idle")
  /\ lock' = NoLock
  /\ UNCHANGED <<children, grace>>

-----------------------------------------------------------------------------
(* The environment: children become visible in the process table and exit, *)
(* grace windows elapse, dispatchers are killed and leave their children.  *)
Exec(p) ==
  /\ Forked(p) \in children
  /\ children' = (children \ {Forked(p)}) \cup {Visible(p)}
  /\ UNCHANGED <<lock, alive, pc, seen, grace>>

ChildExits(c) ==
  /\ c \in children
  /\ children' = children \ {c}
  /\ UNCHANGED <<lock, alive, pc, seen, grace>>

(* Assumed of the 5 second window: a live dispatcher forks, and the fork   *)
(* replaces its image, before the window that covers them is over.         *)
GraceElapses(p) ==
  /\ p \notin grace
  /\ \E record \in {lock} \cup {seen[q] : q \in Procs} :
       record.owner = p /\ record.child = "starting"
  /\ ~(p \in alive /\ pc[p] = "marked")
  /\ Forked(p) \notin children
  /\ grace' = grace \cup {p}
  /\ UNCHANGED <<lock, alive, pc, seen, children>>

Crash(p) ==
  /\ p \in alive \cap Mortal
  /\ Quiet(p)
  /\ alive' = alive \ {p}
  /\ pc' = [pc EXCEPT ![p] = "idle"]
  /\ seen' = [seen EXCEPT ![p] = NoLock]
  /\ UNCHANGED <<lock, children, grace>>

Acquire(p) == CreateExclusive(p) \/ Contended(p) \/ WritePayload(p)
Takeover(p) ==
  ReadExisting(p) \/ ProbeOwner(p) \/ InspectClear(p) \/ InspectBusy(p) \/ Reclaim(p)
Attempt(p) ==
  \/ MarkRead(p) \/ MarkChildStarting(p) \/ Spawn(p) \/ RegisterRead(p)
  \/ SetChildProcess(p) \/ AttemptCloses(p) \/ ForceSettle(p)
Finish(p) == ReleaseRead(p) \/ Release(p)

Next ==
  \/ \E p \in Procs :
       \/ Acquire(p) \/ Takeover(p) \/ Attempt(p) \/ Finish(p)
       \/ Exec(p) \/ GraceElapses(p) \/ Crash(p)
  \/ \E c \in children : ChildExits(c)

Spec == Init /\ [][Next]_vars

(* Dispatchers keep running while alive, children end, windows elapse, and *)
(* a process scan is not inconclusive for ever.                            *)
Fairness ==
  /\ \A p \in Procs :
       /\ WF_vars(Acquire(p)) /\ WF_vars(Takeover(p))
       /\ WF_vars(Attempt(p) \/ Finish(p)) /\ SF_vars(Finish(p))
       /\ SF_vars(InspectClear(p)) /\ WF_vars(Exec(p)) /\ WF_vars(GraceElapses(p))
  /\ WF_vars(\E c \in children : ChildExits(c))

FairSpec == Spec /\ Fairness

-----------------------------------------------------------------------------
(* At no time do two child processes write the same session history, the   *)
(* promise the lock exists for; unless one of them is the child of a       *)
(* dispatcher that settles five seconds after a SIGTERM its child ignores. *)
SingleWriter ==
  \A c, d \in children : c = d \/ c.owner \in Stubborn \/ d.owner \in Stubborn

(* The lock file of a live holder is neither removed nor replaced by       *)
(* another dispatcher: a live process's lock is never deleted.  It follows *)
(* that two live dispatchers never hold the key together.                  *)
HolderKeepsLock == \A p \in alive : pc[p] \in HoldingPcs => lock.owner = p

(* A lock file disappears only when its owner removes it, or when its      *)
(* owner is dead and no child it started is left: "a lock is never removed *)
(* merely because it is old. Its owner must be gone."                      *)
EvictsOnlyTheDead ==
  [][lock # NoLock /\ lock' = NoLock =>
       \/ pc[lock.owner] = "unlinking"
       \/ lock.owner \notin alive /\ ChildOf(lock.owner) = {}]_vars

(* A complete lock left by a dead dispatcher is eventually replaced while  *)
(* some immortal dispatcher with recovery keeps asking for the key.        *)
StaleLockReclaimed ==
  \A p \in Mortal :
    (Readable(lock) /\ lock.owner = p /\ p \notin alive) ~> (lock.owner # p)

=============================================================================
