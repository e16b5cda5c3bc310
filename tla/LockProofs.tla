----------------------------- MODULE LockProofs -----------------------------
(***************************************************************************)
(* Safety of the three locks.  The identity lock is proved about under the *)
(* name of its module.  The operation lock and the outbox lock stand under *)
(* Op and Out, with variables of their own, and implement Mutex.           *)
(***************************************************************************)
EXTENDS IdentityLock, TLAPS

CONSTANTS RacyReclaim, Client, Process, ProcessOf, NoClient

VARIABLES dir, owner, opDead, opPc, opSeen,  \* of the operation lock
          file, guard, saw, outDead, outPc   \* of the outbox lock

Op  == INSTANCE OperationLock WITH dead <- opDead, pc <- opPc, seen <- opSeen
Out == INSTANCE OutboxLock WITH lock <- file, dead <- outDead, pc <- outPc

-----------------------------------------------------------------------------
(* The identity lock.  Its safety needs one hypothesis: takeovers do not   *)
(* race (or stale-owner recovery is off, as for the actor-scope secret).   *)
NoRace == RacyTakeover => Takers = {}

(* A child that may have outlived its attempt, and so its lock.            *)
Outlives(c) == c.owner \in Stubborn /\ c.phase = "visible"

(* The parts of the inductive invariant.  What a live dispatcher holds ... *)
HolderWrote ==
  \A p \in alive : pc[p] \in HoldingPcs \ {"writing"} => lock.written

(* ... who may be in a takeover, and what it still knows about the lock    *)
(* it read: between the read and the unlink nothing may have changed.      *)
TakeoverAlone ==
  /\ \A p \in Procs : pc[p] \in TakeoverPcs => p \in Takers
  /\ \A p \in Procs : p \notin alive => pc[p] = "idle"
  /\ \A p, q \in Procs : pc[p] \in TakeoverPcs /\ pc[q] \in TakeoverPcs => p = q

TakeoverKnows ==
  \A p \in Procs :
    /\ pc[p] \in {"probing", "inspecting"} => seen[p] = lock
    /\ pc[p] \in {"inspecting", "reclaiming"} => lock.owner \notin alive
    /\ pc[p] = "reclaiming" => \A c \in children : Outlives(c)
    /\ pc[p] = "recreating" => lock = NoLock

(* ... and any other child lives only under the complete lock of its       *)
(* dispatcher, which records that there may be one.                        *)
ChildrenUnderLock ==
  \A c \in children : ~Outlives(c) =>
    /\ lock.owner = c.owner
    /\ lock.written
    /\ lock.child # "idle"
    /\ c.owner \in alive => pc[c.owner] \in {"spawned", "registering", "running"}

ForkIsProtected ==
  /\ \A c \in children : c.phase = "forked" =>
       /\ c.owner \notin grace /\ lock.child = "starting"
       /\ c.owner \in alive => pc[c.owner] = "spawned"
  /\ \A p \in alive : pc[p] = "marked" => lock.child = "starting" /\ p \notin grace
  /\ \A p \in alive : pc[p] = "registering" => \A c \in children : c.phase = "visible"

IInv ==
  /\ TypeOK
  /\ HolderKeepsLock
  /\ HolderWrote
  /\ TakeoverAlone
  /\ TakeoverKnows
  /\ ChildrenUnderLock
  /\ ForkIsProtected
  /\ SingleWriter
  /\ Procs \ alive \subseteq Mortal

-----------------------------------------------------------------------------
(* The initial state: no lock, no child, every dispatcher idle.            *)
LEMMA InitIInv == Init => IInv
  BY LockAssumption
     DEF Init, IInv, TypeOK, HolderKeepsLock, HolderWrote, TakeoverAlone, TakeoverKnows,
         ChildrenUnderLock, ForkIsProtected, SingleWriter, NoLock, LockRecord, ChildState,
         Pcs, TakeoverPcs, HoldingPcs, ChildProcess

(* What every step of a live dispatcher says: only its own place and its   *)
(* own record change, and no other dispatcher is in a takeover.            *)
LEMMA MoveFacts ==
  ASSUME NoRace, IInv, NEW p \in Procs, NEW from, NEW to \in Pcs, Moves(p, from, to)
  PROVE  /\ p \in alive /\ pc[p] = from /\ alive' = alive
         /\ pc' \in [Procs -> Pcs] /\ seen' \in [Procs -> LockRecord]
         /\ pc'[p] = to
         /\ \A q \in Procs \ {p} : pc'[q] = pc[q] /\ seen'[q] = seen[q]
         /\ to = "probing" => seen'[p] = lock
         /\ to = "inspecting" => seen'[p] = seen[p]
         /\ \A q \in Procs \ {p} : pc[q] \notin TakeoverPcs
  <1>1. p \in alive /\ pc[p] = from /\ alive' = alive
    BY DEF Moves
  <1>2. pc' \in [Procs -> Pcs] /\ pc'[p] = to /\ \A q \in Procs \ {p} : pc'[q] = pc[q]
    BY DEF Moves, IInv, TypeOK
  <1>3. NoLock \in LockRecord
    BY DEF NoLock, LockRecord, ChildState
  <1>4. /\ seen' \in [Procs -> LockRecord]
        /\ \A q \in Procs \ {p} : seen'[q] = seen[q]
        /\ to = "probing" => seen'[p] = lock
        /\ to = "inspecting" => seen'[p] = seen[p]
    <2>1. PICK r \in LockRecord :
            /\ seen' = [seen EXCEPT ![p] = r]
            /\ to = "probing" => r = lock
            /\ to = "inspecting" => r = seen[p]
      <3>1. CASE to = "probing"
        BY <3>1 DEF Moves, IInv, TypeOK
      <3>2. CASE to = "inspecting"
        BY <3>2 DEF Moves, IInv, TypeOK
      <3>3. CASE to \notin {"probing", "inspecting"}
        BY <1>3, <3>3 DEF Moves, IInv, TypeOK
      <3> QED
        BY <3>1, <3>2, <3>3
    <2> QED
      BY <2>1 DEF IInv, TypeOK
  <1>5. \A q \in Procs \ {p} : pc[q] \notin TakeoverPcs
    <2>1. CASE RacyTakeover
      BY <2>1 DEF NoRace, IInv, TakeoverAlone
    <2>2. CASE ~RacyTakeover
      BY <2>2 DEF Moves, Quiet
    <2> QED
      BY <2>1, <2>2
  <1> QED
    BY <1>1, <1>2, <1>4, <1>5

(* Every step of a dispatcher or of the environment preserves the          *)
(* invariant: one step of the proof per action.                            *)
LEMMA NextIInv ==
  ASSUME NoRace, IInv, [Next]_vars
  PROVE  IInv'
  <1> USE LockAssumption
  <1> USE DEF IInv, NoRace, TypeOK, HolderKeepsLock, HolderWrote, TakeoverAlone,
              TakeoverKnows, ChildrenUnderLock, ForkIsProtected, SingleWriter, Outlives, NoLock,
              LockRecord, ChildState, Pcs, TakeoverPcs, HoldingPcs, ChildProcess
  <1>1. ASSUME NEW p \in Procs, CreateExclusive(p)
         PROVE  IInv'
    <2>1. lock' \in LockRecord /\ lock'.owner = p /\ lock'.child = "idle"
      BY <1>1 DEF CreateExclusive
    <2>2. children' = children /\ grace' = grace /\ \A c \in children : Outlives(c)
      BY <1>1 DEF CreateExclusive
    <2>3. \A q \in alive : pc[q] \notin HoldingPcs
      BY <1>1 DEF CreateExclusive
    <2>4. PICK from \in {"idle", "recreating"} : Moves(p, from, "writing")
      BY <1>1 DEF CreateExclusive
    <2> QED
      BY <2>1, <2>2, <2>3, <2>4, MoveFacts, SMTT(60)
  <1>2. ASSUME NEW p \in Procs, Contended(p)
         PROVE  IInv'
    <2>1. CASE Moves(p, "idle", "reading")
      BY <1>2, <2>1, MoveFacts, SMTT(60) DEF Contended
    <2>2. CASE Moves(p, "recreating", "idle")
      BY <1>2, <2>2, MoveFacts, SMTT(60) DEF Contended
    <2> QED
      BY <1>2, <2>1, <2>2 DEF Contended
  <1>3. ASSUME NEW p \in Procs, WritePayload(p)
         PROVE  IInv'
    <2>1. Moves(p, "writing", "held") /\ children' = children /\ grace' = grace
      BY <1>3 DEF WritePayload
    <2>2. p \in alive /\ pc[p] = "writing" /\ lock.owner = p
      BY <2>1, MoveFacts
    <2>3. lock' \in LockRecord /\ lock'.owner = p /\ lock'.written /\ lock'.child = lock.child
      BY <1>3, <2>2 DEF WritePayload
    <2> QED
      BY <2>1, <2>2, <2>3, MoveFacts, SMTT(60)
  <1>4. ASSUME NEW p \in Procs, ReadExisting(p)
         PROVE  IInv'
    <2>1. CASE Moves(p, "reading", "probing")
      BY <1>4, <2>1, MoveFacts, SMTT(60) DEF ReadExisting, Readable
    <2>2. CASE Moves(p, "reading", "idle")
      BY <1>4, <2>2, MoveFacts, SMTT(60) DEF ReadExisting, Readable
    <2> QED
      BY <1>4, <2>1, <2>2 DEF ReadExisting
  <1>5. ASSUME NEW p \in Procs, ProbeOwner(p)
         PROVE  IInv'
    <2>1. CASE Moves(p, "probing", "inspecting")
      BY <1>5, <2>1, MoveFacts, SMTT(60) DEF ProbeOwner
    <2>2. CASE Moves(p, "probing", "idle")
      BY <1>5, <2>2, MoveFacts, SMTT(60) DEF ProbeOwner
    <2> QED
      BY <1>5, <2>1, <2>2 DEF ProbeOwner
  <1>6. ASSUME NEW p \in Procs, InspectClear(p)
         PROVE  IInv'
    <2>1. Moves(p, "inspecting", "reclaiming")
      BY <1>6 DEF InspectClear
    <2> QED
      BY <1>6, <2>1, MoveFacts, SMTT(60) DEF InspectClear, ProvedGone
  <1>7. ASSUME NEW p \in Procs, InspectBusy(p)
         PROVE  IInv'
    <2>1. Moves(p, "inspecting", "idle")
      BY <1>7 DEF InspectBusy
    <2> QED
      BY <1>7, <2>1, MoveFacts, SMTT(60) DEF InspectBusy
  <1>8. ASSUME NEW p \in Procs, Reclaim(p)
         PROVE  IInv'
    <2>1. Moves(p, "reclaiming", "recreating")
      BY <1>8 DEF Reclaim
    <2> QED
      BY <1>8, <2>1, MoveFacts, SMTT(60) DEF Reclaim
  <1>9. ASSUME NEW p \in Procs, MarkRead(p)
         PROVE  IInv'
    <2>1. CASE Moves(p, "held", "marking")
      BY <1>9, <2>1, MoveFacts, SMTT(60) DEF MarkRead, OwnsFile
    <2>2. CASE Moves(p, "held", "marked")
      BY <1>9, <2>2, MoveFacts, SMTT(60) DEF MarkRead, OwnsFile
    <2> QED
      BY <1>9, <2>1, <2>2 DEF MarkRead
  <1>10. ASSUME NEW p \in Procs, MarkChildStarting(p)
         PROVE  IInv'
    <2>1. Moves(p, "marking", "marked")
      BY <1>10 DEF MarkChildStarting
    <2> QED
      BY <1>10, <2>1, MoveFacts, SMTT(60) DEF MarkChildStarting
  <1>11. ASSUME NEW p \in Procs, Spawn(p)
         PROVE  IInv'
    <2>1. Moves(p, "marked", "spawned")
      BY <1>11 DEF Spawn
    <2> QED
      BY <1>11, <2>1, MoveFacts, SMTT(60) DEF Spawn, Forked, Visible, ChildOf
  <1>12. ASSUME NEW p \in Procs, RegisterRead(p)
         PROVE  IInv'
    <2>1. CASE Moves(p, "spawned", "registering")
      BY <1>12, <2>1, MoveFacts, SMTT(60) DEF RegisterRead, OwnsFile, Forked, Visible,
                                              ChildOf
    <2>2. CASE Moves(p, "spawned", "running")
      BY <1>12, <2>2, MoveFacts, SMTT(60) DEF RegisterRead, OwnsFile, Forked, Visible,
                                              ChildOf
    <2> QED
      BY <1>12, <2>1, <2>2 DEF RegisterRead
  <1>13. ASSUME NEW p \in Procs, SetChildProcess(p)
         PROVE  IInv'
    <2>1. Moves(p, "registering", "running")
      BY <1>13 DEF SetChildProcess
    <2> QED
      BY <1>13, <2>1, MoveFacts, SMTT(60) DEF SetChildProcess, Forked, Visible, ChildOf
  <1>14. ASSUME NEW p \in Procs, AttemptCloses(p)
         PROVE  IInv'
    <2>1. Moves(p, "running", "held")
      BY <1>14 DEF AttemptCloses
    <2> QED
      BY <1>14, <2>1, MoveFacts, SMTT(60) DEF AttemptCloses, Forked, Visible, ChildOf
  <1>15. ASSUME NEW p \in Procs, ForceSettle(p)
         PROVE  IInv'
    <2>1. Moves(p, "running", "settled")
      BY <1>15 DEF ForceSettle
    <2> QED
      BY <1>15, <2>1, MoveFacts, SMTT(60) DEF ForceSettle
  <1>16. ASSUME NEW p \in Procs, ReleaseRead(p)
         PROVE  IInv'
    <2>1. CASE Moves(p, "held", "unlinking")
      BY <1>16, <2>1, MoveFacts, SMTT(60) DEF ReleaseRead, OwnsFile
    <2>2. CASE Moves(p, "settled", "unlinking")
      BY <1>16, <2>2, MoveFacts, SMTT(60) DEF ReleaseRead, OwnsFile
    <2>3. CASE Moves(p, "held", "idle")
      BY <1>16, <2>3, MoveFacts, SMTT(60) DEF ReleaseRead, OwnsFile
    <2>4. CASE Moves(p, "settled", "idle")
      BY <1>16, <2>4, MoveFacts, SMTT(60) DEF ReleaseRead, OwnsFile
    <2> QED
      BY <1>16, <2>1, <2>2, <2>3, <2>4 DEF ReleaseRead
  <1>17. ASSUME NEW p \in Procs, Release(p)
         PROVE  IInv'
    <2>1. Moves(p, "unlinking", "idle")
      BY <1>17 DEF Release
    <2> QED
      BY <1>17, <2>1, MoveFacts, SMTT(60) DEF Release
  <1>18. ASSUME NEW p \in Procs, Exec(p)
         PROVE  IInv'
    BY <1>18, SMTT(60) DEF Exec, Forked, Visible
  <1>19. ASSUME NEW p \in Procs, GraceElapses(p)
         PROVE  IInv'
    BY <1>19, SMTT(60) DEF GraceElapses, Forked
  <1>20. ASSUME NEW p \in Procs, Crash(p)
         PROVE  IInv'
    BY <1>20, SMTT(60) DEF Crash
  <1>21. ASSUME NEW c \in children, ChildExits(c)
         PROVE  IInv'
    BY <1>21 DEF ChildExits
  <1>22. CASE UNCHANGED vars
    BY <1>22 DEF vars
  <1> QED
    BY <1>1, <1>2, <1>3, <1>4, <1>5, <1>6, <1>7, <1>8, <1>9, <1>10, <1>11, <1>12,
       <1>13, <1>14, <1>15, <1>16, <1>17, <1>18, <1>19, <1>20, <1>21, <1>22
       DEF Next, Acquire, Takeover, Attempt, Finish

-----------------------------------------------------------------------------
(* The invariant holds in every reachable state.                           *)
THEOREM Invariance ==
  ASSUME NoRace
  PROVE  Spec => []IInv
  <1>1. Init => IInv
    BY InitIInv
  <1>2. IInv /\ [Next]_vars => IInv'
    BY NextIInv
  <1> QED
    BY <1>1, <1>2, PTL DEF Spec

(* No two child processes ever write one session history, however many     *)
(* dispatchers compete and die: the promise of withIdentityLock.           *)
THEOREM MutualExclusion ==
  ASSUME NoRace
  PROVE  Spec => []SingleWriter
  <1>1. IInv => SingleWriter
    BY DEF IInv
  <1> QED
    BY <1>1, Invariance, PTL

(* A live holder's lock file is its own until it removes it.               *)
THEOREM LiveLockIsKept ==
  ASSUME NoRace
  PROVE  Spec => []HolderKeepsLock
  <1>1. IInv => HolderKeepsLock
    BY DEF IInv
  <1> QED
    BY <1>1, Invariance, PTL

(* Every variable keeps its type.                                          *)
THEOREM TypeCorrect ==
  ASSUME NoRace
  PROVE  Spec => []TypeOK
  <1>1. IInv => TypeOK
    BY DEF IInv
  <1> QED
    BY <1>1, Invariance, PTL

(* A lock file is removed by its owner, or after its owner and every child *)
(* of that owner are gone (acquireIdentityLock, handle.release), if those  *)
(* whose child may outlive its attempt do not die: taken again, their lock *)
(* records nothing of such a child.                                        *)
THEOREM EvictionIsSafe ==
  ASSUME NoRace, Stubborn \cap Mortal = {}
  PROVE  Spec => EvictsOnlyTheDead
  <1> DEFINE Safe == lock # NoLock /\ lock' = NoLock =>
                       \/ pc[lock.owner] = "unlinking"
                       \/ lock.owner \notin alive /\ ChildOf(lock.owner) = {}
  <1>1. IInv /\ [Next]_vars => [Safe]_vars
    <2> SUFFICES ASSUME IInv, Next, lock # NoLock, lock' = NoLock
                 PROVE  \/ pc[lock.owner] = "unlinking"
                        \/ lock.owner \notin alive /\ ChildOf(lock.owner) = {}
      BY DEF vars
    <2>1. PICK p \in Procs : Reclaim(p) \/ Release(p)
      <3>1. ASSUME NEW p \in Procs,
                   \/ MarkChildStarting(p) \/ SetChildProcess(p)
                   \/ CreateExclusive(p) \/ WritePayload(p)
            PROVE  FALSE
        BY <3>1, LockAssumption
           DEF MarkChildStarting, SetChildProcess, CreateExclusive, WritePayload, NoLock,
               IInv, TypeOK, LockRecord
      <3> QED
        BY <3>1
           DEF Next, Acquire, Takeover, Attempt, Finish, Contended, ReadExisting,
               ProbeOwner,
               InspectClear, InspectBusy, MarkRead, Spawn, RegisterRead, AttemptCloses,
               ForceSettle, ReleaseRead, Exec, ChildExits, GraceElapses, Crash
    <2>2. CASE Reclaim(p)
      <3>1. pc[p] = "reclaiming"  BY <2>2 DEF Reclaim, Moves
      <3>2. lock.owner \notin alive /\ \A c \in children : Outlives(c)
        BY <3>1 DEF IInv, TakeoverKnows
      <3>3. lock.owner \notin Stubborn
        <4>1. lock.owner \in Procs => lock.owner \in Mortal
          BY <3>2 DEF IInv
        <4> QED  BY <4>1, LockAssumption
      <3> QED  BY <3>2, <3>3 DEF ChildOf, Outlives
    <2>3. CASE Release(p)
      BY <2>3 DEF Release, Moves, IInv, HolderKeepsLock, HoldingPcs
    <2> QED
      BY <2>1, <2>2, <2>3
  <1> QED
    BY <1>1, Invariance, PTL DEF Spec, EvictsOnlyTheDead

-----------------------------------------------------------------------------
(* The operation lock.  Its safety needs that a lock does not change hands *)
(* between the read of its name and its removal: what SecondJudge and      *)
(* DiesJudged describe does not happen.                                    *)

(* The hypothesis.                                                         *)
JudgedInTime == RacyReclaim = FALSE

(* A live process in the critical section has the directory; it is named   *)
(* there exactly between WriteOwner and UnlinkOwner ...                    *)
Holding == {"created", "inside", "removing"}

HoldersHaveDirectory ==
  /\ \A p \in Procs : Op!At(p, "created") \/ Op!At(p, "removing") => dir /\ owner = NoProc
  /\ \A p \in Procs : ~Op!At(p, "leaving")
  /\ owner # NoProc => dir

(* ... and nobody else is between mkdir and rmdir, ...                     *)
OneHolder ==
  \A p, q \in Procs \ opDead : opPc[p] \in Holding /\ opPc[q] \in Holding => p = q

(* ... in particular no holder lives while a lock is taken apart, or about *)
(* to be because the process read in it is dead, which is what makes the   *)
(* blind unlink and rmdir of the reclaimer harmless.                       *)
Condemns(p) == opPc[p] = "probing" /\ opSeen[p] \in opDead
Reclaims(p) == Condemns(p) \/ opPc[p] \in {"reclaiming", "emptied"}

ReclaimIsSafe ==
  \A p \in Procs \ opDead : Reclaims(p) =>
    /\ dir
    /\ Condemns(p) => owner \in {opSeen[p], NoProc}
    /\ opPc[p] = "reclaiming" => owner \in opDead \cup {NoProc}
    /\ opPc[p] = "emptied" => owner = NoProc
    /\ \A q \in Procs \ opDead : opPc[q] \notin Holding
    /\ \A q \in Procs \ opDead : Reclaims(q) => p = q

OpIInv ==
  /\ Op!TypeOK
  /\ Op!HolderIsNamed
  /\ HoldersHaveDirectory
  /\ OneHolder
  /\ ReclaimIsSafe

-----------------------------------------------------------------------------
(* The initial state: no directory, everybody idle.                        *)
LEMMA OpInitIInv == Op!Init => OpIInv
  BY LockAssumption
     DEF Op!Init, OpIInv, Op!TypeOK, Op!HolderIsNamed, HoldersHaveDirectory, OneHolder,
         ReclaimIsSafe, Condemns, Reclaims, Op!At,
         Op!Places, Holding

(* Every system call of a process, and every kill, preserves the invariant.*)
LEMMA OpNextIInv ==
  ASSUME JudgedInTime, OpIInv, [Op!Next]_(Op!vars)
  PROVE  OpIInv'
  <1> USE LockAssumption
      DEF OpIInv, Op!TypeOK, Op!HolderIsNamed, HoldersHaveDirectory, OneHolder,
          ReclaimIsSafe, Condemns, Reclaims, Op!At,
          Op!Places, Holding, Op!Goto
  <1>1. ASSUME NEW p \in Procs, Op!MakeDirectory(p)  PROVE OpIInv'
    BY <1>1 DEF Op!MakeDirectory
  <1>2. ASSUME NEW p \in Procs, Op!Exists(p)  PROVE OpIInv'
    BY <1>2 DEF Op!Exists
  <1>3. ASSUME NEW p \in Procs, Op!WriteOwner(p)  PROVE OpIInv'
    BY <1>3 DEF Op!WriteOwner
  <1>4. ASSUME NEW p \in Procs, Op!UnlinkOwner(p)  PROVE OpIInv'
    BY <1>4 DEF Op!UnlinkOwner
  <1>5. ASSUME NEW p \in Procs, Op!RemoveDirectory(p)  PROVE OpIInv'
    BY <1>5 DEF Op!RemoveDirectory
  <1>6. ASSUME NEW p \in Procs, Op!Probe(p)  PROVE OpIInv'
    BY <1>6 DEF Op!Probe
  <1>7. ASSUME NEW p \in Procs, Op!ReclaimOwner(p)  PROVE OpIInv'
    BY <1>7 DEF Op!ReclaimOwner
  <1>8. ASSUME NEW p \in Procs, Op!ReclaimDirectory(p)  PROVE OpIInv'
    BY <1>8 DEF Op!ReclaimDirectory
  <1>9. ASSUME NEW p \in Procs, Op!Kill(p)  PROVE OpIInv'
    BY <1>9 DEF Op!Kill, Op!DiesJudged, Op!Judges, JudgedInTime
  <1>10. ASSUME UNCHANGED Op!vars  PROVE OpIInv'
    BY <1>10 DEF Op!vars
  <1>11. ASSUME NEW p \in Procs, Op!ReadOwner(p)  PROVE OpIInv'
    BY <1>11 DEF Op!ReadOwner, Op!SecondJudge, Op!Judges, Op!TakesApart, JudgedInTime
  <1> QED
    BY <1>1, <1>2, <1>3, <1>4, <1>5, <1>6, <1>7, <1>8, <1>9, <1>10, <1>11 DEF Op!Next, Op!Step

(* The invariant holds in every reachable state.                           *)
THEOREM OperationLockInvariance == ASSUME JudgedInTime PROVE Op!Spec => []OpIInv
  <1>1. Op!Init => OpIInv
    BY OpInitIInv
  <1>2. OpIInv /\ [Op!Next]_(Op!vars) => OpIInv'
    BY OpNextIInv
  <1> QED
    BY <1>1, <1>2, PTL DEF Op!Spec

(* No two live processes are ever inside withRunOperationLock's fn at the  *)
(* same time: every append, takeover and collection of a run is exclusive. *)
THEOREM OperationLockExcludes == ASSUME JudgedInTime PROVE Op!Spec => []Op!MutualExclusion
  <1>1. OpIInv => Op!MutualExclusion
    BY DEF OpIInv, OneHolder, Op!MutualExclusion, Op!At, Holding
  <1> QED
    BY <1>1, OperationLockInvariance, PTL

(* owner.json names the live process that is inside, so a second process   *)
(* never judges it dead.                                                   *)
THEOREM OperationLockNamesHolder == ASSUME JudgedInTime PROVE Op!Spec => []Op!HolderIsNamed
  <1>1. OpIInv => Op!HolderIsNamed
    BY DEF OpIInv
  <1> QED
    BY <1>1, OperationLockInvariance, PTL

(* Every reachable state is well typed.                                    *)
THEOREM OperationLockTyped == ASSUME JudgedInTime PROVE Op!Spec => []Op!TypeOK
  <1>1. OpIInv => Op!TypeOK
    BY DEF OpIInv
  <1> QED
    BY <1>1, OperationLockInvariance, PTL

-----------------------------------------------------------------------------
(* A step enters the abstract critical section, leaves it or stutters.     *)
LEMMA OpNextRefines ==
  ASSUME OpIInv, [Op!Next]_(Op!vars)
  PROVE  [Op!Lock!Next]_{p \in Procs : Op!At(p, "inside")}
  <1> DEFINE OpInside == {p \in Procs : Op!At(p, "inside")}
  <1>1. ASSUME NEW p \in OpInside  PROVE OpInside = {p}
    BY <1>1 DEF OpIInv, OneHolder, Op!At, Holding
  <1>2. ASSUME NEW p \in Procs, Op!WriteOwner(p)  PROVE [Op!Lock!Next]_OpInside
    <2>1. OpInside = {} /\ OpInside' = {p}
      BY <1>2 DEF Op!WriteOwner, OpIInv, Op!TypeOK, OneHolder, HoldersHaveDirectory,
                  Op!At, Holding, Op!Goto
    <2> QED
      BY <2>1 DEF Op!Lock!Next, Op!Lock!Enter
  <1>3. ASSUME NEW p \in Procs, Op!UnlinkOwner(p) \/ Op!Kill(p)  PROVE [Op!Lock!Next]_OpInside
    <2>1. OpInside' \subseteq OpInside
      BY <1>3 DEF Op!UnlinkOwner, Op!Kill, Op!At, Op!Goto, OpIInv, Op!TypeOK
    <2>2. OpInside' = {} \/ OpInside' = OpInside
      BY <1>1, <2>1
    <2> QED
      BY <2>2 DEF Op!Lock!Next, Op!Lock!Leave
  <1>4. ASSUME NEW p \in Procs,
               \/ Op!MakeDirectory(p) \/ Op!Exists(p) \/ Op!RemoveDirectory(p)
               \/ Op!ReadOwner(p) \/ Op!Probe(p)
               \/ Op!ReclaimOwner(p) \/ Op!ReclaimDirectory(p)
        PROVE  OpInside' = OpInside
    BY <1>4 DEF Op!MakeDirectory, Op!Exists, Op!RemoveDirectory, Op!ReadOwner, Op!Probe,
                Op!ReclaimOwner, Op!ReclaimDirectory,
                Op!At, Op!Goto, OpIInv, Op!TypeOK
  <1>5. CASE UNCHANGED Op!vars
    BY <1>5 DEF Op!vars, Op!At
  <1> QED
    BY <1>2, <1>3, <1>4, <1>5 DEF Op!Next, Op!Step

(* The operation lock implements the abstract mutex.                       *)
THEOREM OperationLockIsMutex == ASSUME JudgedInTime PROVE Op!Spec => Op!IsMutex
  <1>1. Op!Init => Op!Lock!Init
    BY DEF Op!Init, Op!Lock!Init, Op!At
  <1>2. OpIInv /\ [Op!Next]_(Op!vars) => [Op!Lock!Next]_{p \in Procs : Op!At(p, "inside")}
    BY OpNextRefines
  <1> QED
    BY <1>1, <1>2, OperationLockInvariance, PTL DEF Op!Spec, Op!IsMutex, Op!Lock!Spec

-----------------------------------------------------------------------------
(* The outbox lock, with no hypothesis but the types of its constants: its *)
(* second lock is what the other two lack.                                 *)

(* What the module says of its constants.                                  *)
OutboxTypes == ProcessOf \in [Client -> Process] /\ NoClient \notin Client

(* Whoever has published its lock and not yet released it still has it.    *)
HolderHasLock ==
  \A c \in Client :
    Out!At(c, "verify") \/ Out!At(c, "inside") \/ Out!At(c, "release") => file = c

(* One call at a time is between taking and giving back the reaper's guard.*)
UnderGuard == {"read", "probe", "confirm", "unlink", "republish", "unguard"}

Guarded == \A c \in Client : ~Out!Dead(c) /\ outPc[c] \in UnderGuard => guard = c

(* It unlinks the lock of a dead call only: nobody else can have changed a *)
(* dead lock since it was confirmed.                                       *)
UnlinkIsSafe ==
  \A c \in Client :
    /\ Out!At(c, "probe") => saw[c] # NoClient
    /\ Out!At(c, "confirm") => saw[c] # NoClient /\ Out!Dead(saw[c])
    /\ Out!At(c, "unlink") => file # NoClient /\ Out!Dead(file)

OutIInv == Out!TypeOK /\ HolderHasLock /\ Guarded /\ UnlinkIsSafe

-----------------------------------------------------------------------------
(* No file, every call idle.                                               *)
LEMMA OutInitIInv ==
  ASSUME OutboxTypes, Out!Init
  PROVE  OutIInv
  BY DEF OutboxTypes, Out!Init, OutIInv, Out!TypeOK, HolderHasLock, Guarded,
         UnlinkIsSafe, Out!At, Out!Dead, Out!Places, UnderGuard

(* Every system call of a call, and every kill, preserves the invariant.   *)
LEMMA OutNextIInv ==
  ASSUME OutboxTypes, OutIInv, [Out!Next]_(Out!vars)
  PROVE  OutIInv'
  <1> USE DEF OutboxTypes, OutIInv, Out!TypeOK, HolderHasLock, Guarded, UnlinkIsSafe,
              Out!At, Out!Dead, Out!Places, UnderGuard, Out!Goto
  <1>1. ASSUME NEW c \in Client, Out!Start(c)  PROVE OutIInv'
    BY <1>1 DEF Out!Start
  <1>2. ASSUME NEW c \in Client, Out!Publish(c)  PROVE OutIInv'
    BY <1>2 DEF Out!Publish
  <1>3. ASSUME NEW c \in Client, Out!TakeGuard(c)  PROVE OutIInv'
    BY <1>3 DEF Out!TakeGuard
  <1>4. ASSUME NEW c \in Client, Out!Read(c)  PROVE OutIInv'
    BY <1>4 DEF Out!Read
  <1>5. ASSUME NEW c \in Client, Out!Probe(c)  PROVE OutIInv'
    BY <1>5 DEF Out!Probe
  <1>6. ASSUME NEW c \in Client, Out!Confirm(c)  PROVE OutIInv'
    BY <1>6 DEF Out!Confirm
  <1>7. ASSUME NEW c \in Client, Out!Unlink(c)  PROVE OutIInv'
    BY <1>7 DEF Out!Unlink
  <1>8. ASSUME NEW c \in Client, Out!Republish(c)  PROVE OutIInv'
    BY <1>8 DEF Out!Republish
  <1>9. ASSUME NEW c \in Client, Out!Unguard(c)  PROVE OutIInv'
    BY <1>9 DEF Out!Unguard
  <1>10. ASSUME NEW c \in Client, Out!Verify(c)  PROVE OutIInv'
    BY <1>10 DEF Out!Verify
  <1>11. ASSUME NEW c \in Client, Out!Finish(c)  PROVE OutIInv'
    BY <1>11 DEF Out!Finish
  <1>12. ASSUME NEW c \in Client, Out!Release(c)  PROVE OutIInv'
    BY <1>12 DEF Out!Release
  <1>13. ASSUME NEW c \in Client, Out!TryAgain(c)  PROVE OutIInv'
    BY <1>13 DEF Out!TryAgain
  <1>14. ASSUME NEW p \in Process, Out!Kill(p)  PROVE OutIInv'
    BY <1>14 DEF Out!Kill
  <1>15. CASE UNCHANGED Out!vars
    BY <1>15 DEF Out!vars
  <1> QED
    BY <1>1, <1>2, <1>3, <1>4, <1>5, <1>6, <1>7, <1>8, <1>9, <1>10, <1>11, <1>12, <1>13, <1>14,
       <1>15 DEF Out!Next, Out!Step

(* Every reachable state satisfies the inductive invariant.                *)
THEOREM OutboxLockInvariance == ASSUME OutboxTypes PROVE Out!Spec => []OutIInv
  <1>1. OutIInv /\ [Out!Next]_(Out!vars) => OutIInv'
    BY OutNextIInv
  <1> QED
    BY OutInitIInv, <1>1, PTL DEF Out!Spec

(* Every reachable state is well typed.                                    *)
THEOREM OutboxLockTyped == ASSUME OutboxTypes PROVE Out!Spec => []Out!TypeOK
  <1>1. OutIInv => Out!TypeOK
    BY DEF OutIInv
  <1> QED
    BY OutboxLockInvariance, <1>1, PTL

-----------------------------------------------------------------------------
(* Two calls inside would both have the one lock.                          *)
LEMMA OneInside ==
  ASSUME OutboxTypes, OutIInv, NEW c \in Out!Inside
  PROVE  Out!Inside = {c} /\ file = c
  BY DEF OutIInv, HolderHasLock, Out!Inside

(* A step enters the abstract critical section, leaves it or stutters.     *)
LEMMA OutNextRefines ==
  ASSUME OutboxTypes, OutIInv, [Out!Next]_(Out!vars)
  PROVE  [Out!Lock!Next]_(Out!Inside)
  <1>1. ASSUME NEW c \in Client, Out!Verify(c)  PROVE [Out!Lock!Next]_(Out!Inside)
    <2>1. CASE file = c
      <3>1. Out!Inside = {}
        BY <1>1, <2>1, OneInside DEF Out!Verify, Out!At, Out!Inside
      <3>2. Out!Inside' = {c}
        BY <1>1, <2>1, <3>1 DEF Out!Verify, Out!At, Out!Inside, Out!Goto, Out!Dead,
                                OutIInv, Out!TypeOK
      <3> QED
        BY <3>1, <3>2 DEF Out!Lock!Next, Out!Lock!Enter
    <2>2. CASE file # c
      BY <1>1, <2>2 DEF Out!Verify, Out!At, OutIInv, HolderHasLock
    <2> QED
      BY <2>1, <2>2
  <1>2. ASSUME NEW c \in Client, Out!Finish(c)  PROVE [Out!Lock!Next]_(Out!Inside)
    <2>1. c \in Out!Inside
      BY <1>2 DEF Out!Finish, Out!Inside
    <2>2. Out!Inside = {c}
      BY <2>1, OneInside
    <2>3. Out!Inside' = {}
      BY <1>2, <2>2 DEF Out!Finish, Out!Inside, Out!At, Out!Goto, Out!Dead, OutIInv,
                        Out!TypeOK
    <2> QED
      BY <2>2, <2>3 DEF Out!Lock!Next, Out!Lock!Leave
  <1>3. ASSUME NEW p \in Process, Out!Kill(p)  PROVE [Out!Lock!Next]_(Out!Inside)
    <2>1. Out!Inside' \subseteq Out!Inside
      BY <1>3 DEF Out!Kill, Out!Inside, Out!At, Out!Dead
    <2>2. ASSUME NEW c \in Out!Inside  PROVE Out!Inside' = {} \/ Out!Inside' = Out!Inside
      BY <2>1, <2>2, OneInside
    <2> QED
      BY <2>1, <2>2 DEF Out!Lock!Next, Out!Lock!Leave
  <1>4. ASSUME NEW c \in Client,
               \/ Out!Start(c) \/ Out!Publish(c) \/ Out!TakeGuard(c) \/ Out!Read(c)
               \/ Out!Probe(c) \/ Out!Confirm(c) \/ Out!Unlink(c) \/ Out!Republish(c)
               \/ Out!Unguard(c) \/ Out!Release(c) \/ Out!TryAgain(c)
        PROVE  Out!Inside' = Out!Inside
    BY <1>4 DEF Out!Start, Out!Publish, Out!TakeGuard, Out!Read, Out!Probe, Out!Confirm,
                Out!Unlink, Out!Republish, Out!Unguard,
                Out!Release, Out!TryAgain, Out!Inside, Out!At, Out!Goto, Out!Dead,
                OutIInv, Out!TypeOK
  <1>5. CASE UNCHANGED Out!vars
    BY <1>5 DEF Out!vars, Out!Inside, Out!At, Out!Dead
  <1> QED
    BY <1>1, <1>2, <1>3, <1>4, <1>5 DEF Out!Next, Out!Step

(* The lock protocol implements the abstract mutex.                        *)
THEOREM OutboxLockIsMutex == ASSUME OutboxTypes PROVE Out!Spec => Out!IsMutex
  <1>1. Out!Init => Out!Lock!Init
    BY DEF Out!Init, Out!Lock!Init, Out!Inside, Out!At
  <1>2. OutIInv /\ [Out!Next]_(Out!vars) => [Out!Lock!Next]_(Out!Inside)
    BY OutNextRefines
  <1> QED
    BY <1>1, <1>2, OutboxLockInvariance, PTL DEF Out!Spec, Out!IsMutex, Out!Lock!Spec
=============================================================================
