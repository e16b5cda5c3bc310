--------------------------- MODULE OperationLock ---------------------------
(***************************************************************************)
(* withRunOperationLock (packages/workflow-runtime/src/run-control-wal.ts):*)
(* the short lock every writer and the garbage collector of one run take   *)
(* around each durable operation.  It is a directory, created by mkdir,    *)
(* that holds owner.json; a lock whose recorded owner is provably dead is  *)
(* taken apart and tried again.                                            *)
(*                                                                         *)
(* A step is one system call: within a process the function is synchronous,*)
(* other processes run between any two calls, and a process may be killed  *)
(* after any of them.  A restarted program is another process; process ids *)
(* are not reused.                                                         *)
(***************************************************************************)
EXTENDS Naturals, FiniteSets

CONSTANTS
  Procs,       \* Pi processes that use this run
  NoProc,      \* owner.json is absent or not readable as JSON
  RacyReclaim  \* FALSE: no lock changes hands while it is judged or taken apart

ASSUME OperationLockAssumption ==
  NoProc \notin Procs /\ RacyReclaim \in BOOLEAN /\ IsFiniteSet(Procs)

VARIABLES
  dir,    \* the lock directory exists
  owner,  \* the process named by owner.json
  dead,   \* processes that were killed
  pc,     \* where each process stands in withRunOperationLock
  seen    \* the process a contender read in owner.json and has not probed yet

vars == <<dir, owner, dead, pc, seen>>

Places == {"idle", "created", "inside", "leaving", "removing", "reading", "probing",
           "reclaiming", "emptied"}

TypeOK ==
  /\ dir \in BOOLEAN
  /\ owner \in Procs \cup {NoProc}
  /\ dead \subseteq Procs
  /\ pc \in [Procs -> Places]
  /\ seen \in [Procs -> Procs \cup {NoProc}]

Init ==
  /\ dir = FALSE /\ owner = NoProc /\ dead = {}
  /\ pc = [p \in Procs |-> "idle"]
  /\ seen = [p \in Procs |-> NoProc]

At(p, place) == p \notin dead /\ pc[p] = place
Goto(p, place) == pc' = [pc EXCEPT ![p] = place]

-----------------------------------------------------------------------------
(* mkdirSync(lockPath), or EEXIST.                                         *)
MakeDirectory(p) ==
  /\ At(p, "idle") /\ ~dir
  /\ dir' = TRUE /\ Goto(p, "created")
  /\ UNCHANGED <<owner, dead, seen>>

Exists(p) ==
  /\ At(p, "idle") /\ dir
  /\ Goto(p, "reading")
  /\ UNCHANGED <<dir, owner, dead, seen>>

(* writeJsonDurably(owner.json); without the directory it fails and the    *)
(* function leaves through finally.                                        *)
WriteOwner(p) ==
  /\ At(p, "created")
  /\ IF dir THEN owner' = p /\ Goto(p, "inside")
            ELSE Goto(p, "leaving") /\ UNCHANGED owner
  /\ UNCHANGED <<dir, dead, seen>>

(* finally: unlink owner.json, then rmdir, each whatever the other did.    *)
UnlinkOwner(p) ==
  /\ At(p, "inside") \/ At(p, "leaving")
  /\ owner' = NoProc /\ Goto(p, "removing")
  /\ UNCHANGED <<dir, dead, seen>>

RemoveDirectory(p) ==
  /\ At(p, "removing")
  /\ dir' = (dir /\ owner # NoProc)
  /\ Goto(p, "idle")
  /\ UNCHANGED <<owner, dead, seen>>

(* q's name is read, and q is not probed yet; a lock is being taken apart. *)
Judges(p, q) == At(p, "probing") /\ seen[p] = q
TakesApart(p) == At(p, "reclaiming") \/ At(p, "emptied")

(* What happens only with RacyReclaim: a second process reads the name of  *)
(* a dead one that somebody already judges, or whose lock somebody takes   *)
(* apart; ...                                                              *)
SecondJudge ==
  owner \in dead /\ \E q \in Procs : Judges(q, owner) \/ TakesApart(q)

(* ... and a process ends while two others judge it, or while one does but *)
(* it has given the lock back since its name was read.                     *)
DiesJudged(q) ==
  \E p \in Procs :
    /\ Judges(p, q)
    /\ \/ pc[q] \notin {"created", "inside", "removing"}
       \/ \E r \in Procs \ {p} : Judges(r, q)

(* Slip: an unreadable name counts as a dead owner's.                      *)
ReadUnreadableReclaims(p) ==
  /\ At(p, "reading")
  /\ RacyReclaim \/ ~SecondJudge
  /\ Goto(p, IF owner = NoProc THEN "reclaiming" ELSE "probing")
  /\ seen' = [seen EXCEPT ![p] = owner]
  /\ UNCHANGED <<dir, owner, dead>>

(* readFileSync(owner.json): a lock without a readable name is busy.       *)
ReadOwner(p) ==
  /\ At(p, "reading")
  /\ RacyReclaim \/ ~SecondJudge
  /\ Goto(p, IF owner = NoProc THEN "idle" ELSE "probing")
  /\ seen' = [seen EXCEPT ![p] = owner]
  /\ UNCHANGED <<dir, owner, dead>>

(* Slip: a dead owner counts as a live one.                                *)
ProbeDoubts(p) ==
  /\ At(p, "probing") /\ Goto(p, "idle")
  /\ seen' = [seen EXCEPT ![p] = NoProc]
  /\ UNCHANGED <<dir, owner, dead>>

(* process.kill(pid, 0) of the process read: OPERATION_LOCK_BUSY unless it *)
(* is dead.                                                                *)
Probe(p) ==
  /\ At(p, "probing")
  /\ Goto(p, IF seen[p] \in dead THEN "reclaiming" ELSE "idle")
  /\ seen' = [seen EXCEPT ![p] = NoProc]
  /\ UNCHANGED <<dir, owner, dead>>

(* unlinkSync(owner.json) and rmdirSync: whatever is at the paths by then; *)
(* either one failing is OPERATION_LOCK_BUSY.                              *)
ReclaimOwner(p) ==
  /\ At(p, "reclaiming")
  /\ IF owner # NoProc THEN owner' = NoProc /\ Goto(p, "emptied")
                       ELSE Goto(p, "idle") /\ UNCHANGED owner
  /\ UNCHANGED <<dir, dead, seen>>

ReclaimDirectory(p) ==
  /\ At(p, "emptied")
  /\ dir' = (dir /\ owner # NoProc)
  /\ Goto(p, "idle")
  /\ UNCHANGED <<owner, dead, seen>>

Kill(p) ==
  /\ p \notin dead
  /\ RacyReclaim \/ ~DiesJudged(p)
  /\ dead' = dead \cup {p}
  /\ UNCHANGED <<dir, owner, pc, seen>>

Step(p) ==
  \/ MakeDirectory(p) \/ Exists(p) \/ WriteOwner(p) \/ UnlinkOwner(p) \/ RemoveDirectory(p)
  \/ ReadOwner(p) \/ Probe(p) \/ ReclaimOwner(p) \/ ReclaimDirectory(p)

Next == \E p \in Procs : Step(p) \/ Kill(p)

Spec == Init /\ [][Next]_vars

(* The calls of a live process go on, and an operation that found the lock *)
(* busy is asked for again.                                                *)
FairSpec == Spec /\ \A p \in Procs : WF_vars(Step(p))

-----------------------------------------------------------------------------
(* Two operations on one run are never between taking the lock and giving  *)
(* it back at the same time: no other writer, takeover or collection runs  *)
(* between the lease check and the append of withRunOperationLock's fn.    *)
MutualExclusion == \A p, q \in Procs : At(p, "inside") /\ At(q, "inside") => p = q

Lock == INSTANCE Mutex WITH Client <- Procs, inside <- {p \in Procs : At(p, "inside")}

(* The same as an implementation: what the writers and collections of a    *)
(* run take and give back is the abstract mutex, whatever locks of dead    *)
(* processes are taken apart in between.                                   *)
IsMutex == Lock!Spec

(* owner.json always names the process that is inside, so that its death   *)
(* can be proved: a live holder's record is neither removed nor replaced.  *)
HolderIsNamed == \A p \in Procs : At(p, "inside") => dir /\ owner = p

(* A process killed between creating the directory and naming itself, or   *)
(* between removing its name and the directory, leaves a lock nobody may   *)
(* take apart.                                                             *)
KilledUnnamed == \E p \in dead : pc[p] \in {"created", "leaving", "removing", "emptied"}

(* The lock of a process killed inside the operation is removed by the     *)
(* next process that wants it, as long as one is left and no second kill   *)
(* left the directory without a name.                                      *)
DeadHolderIsReplaced ==
  \A p \in Procs : (p \in dead /\ owner = p) ~> (~dir \/ dead = Procs \/ KilledUnnamed)

=============================================================================
