---------------------------- MODULE ChildSession ----------------------------
(***************************************************************************)
(* One durable child session of @pi/subagent: the dispatches that create,  *)
(* resume, retry and quarantine it (packages/subagent/src/dispatcher.ts)   *)
(* and the garbage collections that delete it through a tombstone          *)
(* (packages/subagent/src/gc.ts).                                          *)
(*                                                                         *)
(* All of them work under the identity lock, so a step here is what a      *)
(* holder does between two durable writes; the lock itself, whose mutual   *)
(* exclusion is proved in LockProofs, is one variable.  A registry         *)
(* and a session file are named by the child session id they belong to.    *)
(* Definitions named for a slip precede the one they vary and are used     *)
(* nowhere: they are bugs the properties must see.                         *)
(***************************************************************************)
EXTENDS Naturals, FiniteSets

CONSTANTS
  Dispatchers,   \* Pi processes that dispatch to this logical handle
  Collectors,    \* garbage collections, one per session_start of a Pi process
  NoProc,        \* holder of a free lock
  Mortal,        \* processes that may be killed
  Candidates,    \* number of model candidates (executionCandidates)
  MaxRetries,    \* MAX_PROVIDER_RETRIES
  MaxIds         \* bound: child session ids ever generated

ASSUME ChildSessionAssumption ==
  /\ NoProc \notin Dispatchers \cup Collectors
  /\ Dispatchers \cap Collectors = {}
  /\ Mortal \subseteq Dispatchers \cup Collectors
  /\ Candidates \in Nat \ {0} /\ MaxRetries \in Nat /\ MaxIds \in Nat

VARIABLES
  holder,    \* who holds the identity lock
  stale,     \* the holder was killed and its lock file is still there
  registry,  \* registry/<key>.json: status and child session id
  tombs,     \* ids whose registry was renamed to a tombstone
  files,     \* what sessions/<key> holds of each child session id
  age,       \* last durable activity of each id against the retention
  pin,       \* the preservation pin of the key
  child,     \* child session ids a Pi child process is writing
  nextId,    \* randomUUID
  pc,        \* where each process stands
  run,       \* the local variables of execute, per dispatcher
  sweep      \* the directory listing and the tombstone of a collection

vars == <<holder, stale, registry, tombs, files, age, pin, child, nextId, pc, run, sweep>>
disk == <<registry, tombs, files, age, pin>>

Ids == 1..MaxIds
Procs == Dispatchers \cup Collectors
Statuses == {"absent", "creating", "running", "settled", "recoverable_failed", "failed",
             "cancelled", "quarantined"}
Kinds == {"none", "success", "transient", "other", "cancelled"}
Registry == [status : Statuses, id : 0..MaxIds]
NoRegistry == [status |-> "absent", id |-> 0]

Run == [id : 0..MaxIds,         \* childSessionId
        known : BOOLEAN,        \* sessionFile is defined
        first : BOOLEAN,        \* firstLogicalChildSpawn
        broken : BOOLEAN,       \* sessionIntegrityFailed
        candidate : Nat, retry : Nat,
        kind : Kinds]           \* failureKind of the last attempt
NoRun == [id |-> 0, known |-> FALSE, first |-> FALSE, broken |-> FALSE,
          candidate |-> 1, retry |-> 0, kind |-> "none"]

Sweep == [tombs : SUBSET Ids, listed : BOOLEAN, target : 0..MaxIds]
NoSweep == [tombs |-> {}, listed |-> FALSE, target |-> 0]

DispatchPcs == {"idle", "entered", "ready", "running", "recorded", "sleeping", "finishing",
                "releasing"}
CollectPcs == {"idle", "listed", "tombstone", "registry", "recover", "metadata", "erase", "unmark",
               "releasing"}

TypeOK ==
  /\ holder \in Procs \cup {NoProc} /\ stale \in BOOLEAN
  /\ registry \in Registry
  /\ tombs \subseteq Ids /\ child \subseteq Ids
  /\ files \in [Ids -> {"none", "partial", "valid"}]
  /\ age \in [Ids -> {"fresh", "expired"}]
  /\ pin \in {"absent", "valid", "expired"}
  /\ nextId \in 1..MaxIds + 1
  /\ pc \in [Procs -> DispatchPcs \cup CollectPcs]
  /\ run \in [Dispatchers -> Run]
  /\ sweep \in [Collectors -> Sweep]

Init ==
  /\ holder = NoProc /\ stale = FALSE
  /\ registry = NoRegistry
  /\ tombs = {} /\ child = {}
  /\ files = [i \in Ids |-> "none"]
  /\ age = [i \in Ids |-> "fresh"]
  /\ pin = "absent"
  /\ nextId = 1
  /\ pc = [p \in Procs |-> "idle"]
  /\ run = [d \in Dispatchers |-> NoRun]
  /\ sweep = [g \in Collectors |-> NoSweep]

-----------------------------------------------------------------------------
(* withIdentityLock.  A stale lock is taken over once its child is gone;   *)
(* a key whose lock is held is reported busy, which changes nothing.       *)
LockIsFree == holder = NoProc \/ (stale /\ child = {})
Acquire(p) == LockIsFree /\ holder' = p /\ stale' = FALSE
Release == holder' = NoProc /\ UNCHANGED stale
KeepLock == UNCHANGED <<holder, stale>>

At(p, place) == pc[p] = place
Goto(p, place) == pc' = [pc EXCEPT ![p] = place]

(* atomicWrite of a registry with lastActivityAt = now.                    *)
SaveRegistry(id, status) ==
  /\ registry' = [status |-> status, id |-> id]
  /\ age' = [age EXCEPT ![id] = "fresh"]

(* quarantineRegistry: a failure to persist the marker is swallowed.       *)
Quarantine(id) == SaveRegistry(id, "quarantined") \/ UNCHANGED <<registry, age>>

-----------------------------------------------------------------------------
(* dispatchAgent: take the lock, read tombstones and the registry, then    *)
(* refuse, resume the session file or create a first one.                  *)
Enter(d) ==
  /\ At(d, "idle") /\ Acquire(d) /\ Goto(d, "entered")
  /\ UNCHANGED <<disk, child, nextId, run, sweep>>

(* cleanup-pending, an unreadable directory or registry, or quarantine.    *)
Refuse(d) ==
  /\ At(d, "entered") /\ Goto(d, "releasing") /\ KeepLock
  /\ UNCHANGED <<disk, child, nextId, run, sweep>>

MayDispatchDespiteTombstone == registry.status # "quarantined"
MayDispatch == tombs = {} /\ registry.status # "quarantined"

ResumeUnvalidated(d) ==
  /\ At(d, "entered") /\ MayDispatch
  /\ registry.status # "absent"
  /\ SaveRegistry(registry.id, "running")
  /\ run' = [run EXCEPT ![d] = [NoRun EXCEPT !.id = registry.id, !.known = TRUE]]
  /\ Goto(d, "ready") /\ KeepLock
  /\ UNCHANGED <<tombs, files, pin, child, nextId, sweep>>

Resume(d) ==
  /\ At(d, "entered") /\ MayDispatch
  /\ registry.status # "absent"
  /\ files[registry.id] = "valid"
  /\ SaveRegistry(registry.id, "running")
  /\ run' = [run EXCEPT ![d] = [NoRun EXCEPT !.id = registry.id, !.known = TRUE]]
  /\ Goto(d, "ready") /\ KeepLock
  /\ UNCHANGED <<tombs, files, pin, child, nextId, sweep>>

RejectSession(d) ==
  /\ At(d, "entered") /\ MayDispatch
  /\ registry.status # "absent"
  /\ files[registry.id] # "valid"
  /\ Quarantine(registry.id)
  /\ Goto(d, "releasing") /\ KeepLock
  /\ UNCHANGED <<tombs, files, pin, child, nextId, run, sweep>>

Create(d) ==
  /\ At(d, "entered") /\ MayDispatch
  /\ registry.status = "absent"
  /\ nextId \in Ids
  /\ nextId' = nextId + 1
  /\ SaveRegistry(nextId, "creating")
  /\ run' = [run EXCEPT ![d] = [NoRun EXCEPT !.id = nextId, !.first = TRUE]]
  /\ Goto(d, "ready") /\ KeepLock
  /\ UNCHANGED <<tombs, files, pin, child, sweep>>

-----------------------------------------------------------------------------
(* The retry loop.  An abort is seen before an attempt or in the pause     *)
(* after one.                                                              *)
Cancel(d) ==
  /\ At(d, "ready") \/ At(d, "sleeping")
  /\ SaveRegistry(run[d].id, "cancelled")
  /\ Goto(d, "finishing") /\ KeepLock
  /\ UNCHANGED <<tombs, files, pin, child, nextId, run, sweep>>

StartAttempt(d) ==
  /\ At(d, "ready")
  /\ child' = child \cup {run[d].id}
  /\ Goto(d, "running") /\ KeepLock
  /\ UNCHANGED <<disk, nextId, run, sweep>>

(* The child has closed: the session file is looked for and validated.     *)
(* Without a valid one the attempt counts as an unknown transport failure  *)
(* and the registry is quarantined, whatever the child reported.           *)
AttemptEnds(d, kind) ==
  LET i == run[d].id
      valid == files[i] = "valid"
  IN  /\ At(d, "running")
      /\ child' = child \ {i}
      /\ run' = [run EXCEPT ![d].known = valid, ![d].broken = ~valid,
                            ![d].kind = IF valid THEN kind ELSE "other"]
      /\ IF valid THEN SaveRegistry(i, IF kind = "success" THEN "settled" ELSE "running")
                  ELSE Quarantine(i)
      /\ Goto(d, "recorded") /\ KeepLock
      /\ UNCHANGED <<tombs, files, pin, nextId, sweep>>

(* The write of a valid attempt is rejected: the registry stays as it was. *)
AttemptUnrecorded(d) ==
  LET i == run[d].id IN
  /\ At(d, "running") /\ files[i] = "valid"
  /\ child' = child \ {i}
  /\ run' = [run EXCEPT ![d].known = TRUE]
  /\ Goto(d, "finishing") /\ KeepLock
  /\ UNCHANGED <<disk, nextId, sweep>>

ConcludeIgnoringIntegrity(d) ==
  /\ At(d, "recorded") /\ run[d].kind # "transient"
  /\ IF run[d].kind = "success" THEN UNCHANGED <<registry, age>>
     ELSE SaveRegistry(run[d].id, IF run[d].kind = "cancelled" THEN "cancelled" ELSE "failed")
  /\ Goto(d, "finishing") /\ KeepLock
  /\ UNCHANGED <<tombs, files, pin, child, nextId, run, sweep>>

(* completed, or cancelled and failed attempts: no retry.                  *)
Conclude(d) ==
  /\ At(d, "recorded") /\ run[d].kind # "transient"
  /\ IF run[d].kind = "success" \/ run[d].broken THEN UNCHANGED <<registry, age>>
     ELSE SaveRegistry(run[d].id, IF run[d].kind = "cancelled" THEN "cancelled" ELSE "failed")
  /\ Goto(d, "finishing") /\ KeepLock
  /\ UNCHANGED <<tombs, files, pin, child, nextId, run, sweep>>

(* A transient provider failure is retried in the same session, then the   *)
(* next candidate gets a budget of its own, then the dispatch gives up.    *)
Pause(d) ==
  /\ At(d, "recorded") /\ run[d].kind = "transient" /\ run[d].retry < MaxRetries
  /\ Goto(d, "sleeping") /\ KeepLock
  /\ UNCHANGED <<disk, child, nextId, run, sweep>>

Retry(d) ==
  /\ At(d, "sleeping")
  /\ run' = [run EXCEPT ![d].retry = @ + 1]
  /\ Goto(d, "ready") /\ KeepLock
  /\ UNCHANGED <<disk, child, nextId, sweep>>

Fallback(d) ==
  /\ At(d, "recorded") /\ run[d].kind = "transient" /\ run[d].retry = MaxRetries
  /\ run[d].candidate < Candidates
  /\ run' = [run EXCEPT ![d].candidate = @ + 1, ![d].retry = 0]
  /\ Goto(d, "ready") /\ KeepLock
  /\ UNCHANGED <<disk, child, nextId, sweep>>

Exhaust(d) ==
  /\ At(d, "recorded") /\ run[d].kind = "transient" /\ run[d].retry = MaxRetries
  /\ run[d].candidate = Candidates
  /\ SaveRegistry(run[d].id, "recoverable_failed")
  /\ Goto(d, "finishing") /\ KeepLock
  /\ UNCHANGED <<tombs, files, pin, child, nextId, run, sweep>>

(* A rejected write or spawn leaves the loop through finally.              *)
Throw(d) ==
  /\ \/ At(d, "entered") /\ Goto(d, "releasing")
     \/ pc[d] \in {"ready", "recorded", "sleeping"} /\ Goto(d, "finishing")
  /\ KeepLock
  /\ UNCHANGED <<disk, child, nextId, run, sweep>>

(* finally: a first dispatch that never saw a session file quarantines.    *)
Finally(d) ==
  /\ At(d, "finishing")
  /\ IF ~run[d].known /\ run[d].first /\ ~run[d].broken THEN Quarantine(run[d].id)
     ELSE UNCHANGED <<registry, age>>
  /\ Goto(d, "releasing") /\ KeepLock
  /\ UNCHANGED <<tombs, files, pin, child, nextId, run, sweep>>

Leave(p) ==
  /\ At(p, "releasing") /\ Release
  /\ Goto(p, IF p \in Collectors THEN "listed" ELSE "idle")
  /\ run' = [d \in Dispatchers |-> IF d = p THEN NoRun ELSE run[d]]
  /\ sweep' = [g \in Collectors |-> IF g = p THEN [sweep[g] EXCEPT !.target = 0] ELSE sweep[g]]
  /\ UNCHANGED <<disk, child, nextId>>

-----------------------------------------------------------------------------
ListRegistriesOnly(g) ==
  /\ At(g, "idle") /\ Goto(g, "listed")
  /\ sweep' = [sweep EXCEPT ![g] = [NoSweep EXCEPT !.listed = registry.status # "absent"]]
  /\ UNCHANGED <<disk, child, nextId, run>> /\ KeepLock

(* garbageCollect: one directory listing, then every tombstone in it, then *)
(* every registry in it, each under the lock of its key.                   *)
List(g) ==
  /\ At(g, "idle") /\ Goto(g, "listed")
  /\ sweep' = [sweep EXCEPT ![g] = [NoSweep EXCEPT !.tombs = tombs,
                                                   !.listed = registry.status # "absent"]]
  /\ UNCHANGED <<disk, child, nextId, run>> /\ KeepLock

(* The entry is taken up, or its lock is busy and it is skipped.           *)
TakeTombstone(g) ==
  /\ At(g, "listed")
  /\ \E t \in sweep[g].tombs :
       \/ /\ Acquire(g) /\ Goto(g, "tombstone")
          /\ sweep' = [sweep EXCEPT ![g].tombs = @ \ {t}, ![g].target = t]
       \/ /\ ~LockIsFree /\ KeepLock /\ UNCHANGED pc
          /\ sweep' = [sweep EXCEPT ![g].tombs = @ \ {t}]
  /\ UNCHANGED <<disk, child, nextId, run>>

TakeRegistry(g) ==
  /\ At(g, "listed") /\ sweep[g].tombs = {} /\ sweep[g].listed
  /\ sweep' = [sweep EXCEPT ![g].listed = FALSE]
  /\ \/ Acquire(g) /\ Goto(g, "registry")
     \/ ~LockIsFree /\ KeepLock /\ UNCHANGED pc
  /\ UNCHANGED <<disk, child, nextId, run>>

Finish(g) ==
  /\ At(g, "listed") /\ sweep[g].tombs = {} /\ ~sweep[g].listed
  /\ Goto(g, "idle") /\ KeepLock
  /\ sweep' = [sweep EXCEPT ![g] = NoSweep]
  /\ UNCHANGED <<disk, child, nextId, run>>

(* classifyPinAtLock: an expired pin is removed first; a valid or          *)
(* unreadable one, or one that cannot be removed, keeps the session.       *)
Unpinned == pin # "valid" /\ pin' = "absent"

Pinned(g) ==
  /\ At(g, "tombstone") \/ At(g, "registry")
  /\ Goto(g, "releasing") /\ KeepLock
  /\ UNCHANGED <<disk, child, nextId, run, sweep>>

OpenTombstone(g) ==
  /\ At(g, "tombstone") /\ Unpinned
  /\ Goto(g, "recover") /\ KeepLock
  /\ UNCHANGED <<registry, tombs, files, age, child, nextId, run, sweep>>

(* The registry, read again under the lock, is past retention: rename it.  *)
PastRetention == registry.status # "absent" /\ age[registry.id] = "expired"

Bury(g) ==
  /\ At(g, "registry") /\ PastRetention /\ Unpinned
  /\ tombs' = tombs \cup {registry.id}
  /\ registry' = NoRegistry
  /\ sweep' = [sweep EXCEPT ![g].target = registry.id]
  /\ Goto(g, "erase") /\ KeepLock
  /\ UNCHANGED <<files, age, child, nextId, run>>

Fresh(g) ==
  /\ At(g, "registry") /\ ~PastRetention
  /\ Goto(g, "releasing") /\ KeepLock
  /\ UNCHANGED <<disk, child, nextId, run, sweep>>

(* rm -rf sessions/<key>, for whatever child session ids it holds, ...     *)
EraseSessions(g) ==
  /\ \/ At(g, "recover") /\ Goto(g, "metadata")
     \/ At(g, "erase") /\ Goto(g, "unmark")
  /\ files' = [i \in Ids |-> "none"]
  /\ KeepLock
  /\ UNCHANGED <<registry, tombs, age, pin, child, nextId, run, sweep>>

(* ... then, when recovering a tombstone, the current registry, ...        *)
EraseRegistry(g) ==
  /\ At(g, "metadata")
  /\ registry' = NoRegistry
  /\ Goto(g, "unmark") /\ KeepLock
  /\ UNCHANGED <<tombs, files, age, pin, child, nextId, run, sweep>>

(* ... and the tombstone last.  Any rm may fail and leave the rest to the  *)
(* next pass.                                                              *)
Unmark(g) ==
  /\ At(g, "unmark")
  /\ tombs' = tombs \ {sweep[g].target}
  /\ Goto(g, "releasing") /\ KeepLock
  /\ UNCHANGED <<registry, files, age, pin, child, nextId, run, sweep>>

RmFails(g) ==
  /\ pc[g] \in {"recover", "metadata", "erase", "unmark"}
  /\ Goto(g, "releasing") /\ KeepLock
  /\ UNCHANGED <<disk, child, nextId, run, sweep>>

-----------------------------------------------------------------------------
(* The environment.  A running child appends to its session file and may   *)
(* leave a truncated record at any moment; a child outlives its dispatcher *)
(* and then exits by itself.                                               *)
ChildWrites(i) ==
  /\ i \in child
  /\ \E content \in {"partial", "valid"} : files' = [files EXCEPT ![i] = content]
  /\ UNCHANGED <<holder, stale, registry, tombs, age, pin, child, nextId, pc, run, sweep>>

OrphanExits(i) ==
  /\ i \in child /\ stale
  /\ child' = child \ {i}
  /\ UNCHANGED <<holder, stale, disk, nextId, pc, run, sweep>>

(* Retention and pins are judged at the time a collection started, 30 days *)
(* are longer than a collection: they elapse between collections.          *)
Ages(i) ==
  /\ \A g \in Collectors : At(g, "idle")
  /\ age[i] = "fresh" /\ i < nextId
  /\ age' = [age EXCEPT ![i] = "expired"]
  /\ UNCHANGED <<holder, stale, registry, tombs, files, pin, child, nextId, pc, run, sweep>>

PinExpires ==
  /\ \A g \in Collectors : At(g, "idle")
  /\ pin = "valid" /\ pin' = "expired"
  /\ UNCHANGED <<holder, stale, registry, tombs, files, age, child, nextId, pc, run, sweep>>

(* bridge.ts creates and releases a preservation pin under the same lock.  *)
CreatePin ==
  /\ LockIsFree
  /\ pin # "valid" /\ pin' = "valid"
  /\ UNCHANGED <<holder, stale, registry, tombs, files, age, child, nextId, pc, run, sweep>>

ReleasePin ==
  /\ LockIsFree
  /\ pin # "absent" /\ pin' = "absent"
  /\ UNCHANGED <<holder, stale, registry, tombs, files, age, child, nextId, pc, run, sweep>>

(* A Pi process is killed: its locals are gone, its lock file stays.       *)
Crash(p) ==
  /\ p \in Mortal /\ ~At(p, "idle")
  /\ Goto(p, "idle")
  /\ stale' = (stale \/ holder = p)
  /\ run' = [d \in Dispatchers |-> IF d = p THEN NoRun ELSE run[d]]
  /\ sweep' = [g \in Collectors |-> IF g = p THEN NoSweep ELSE sweep[g]]
  /\ UNCHANGED <<holder, disk, child, nextId>>

Dispatch(d) ==
  \/ Refuse(d) \/ Resume(d) \/ RejectSession(d) \/ Create(d)
  \/ Cancel(d) \/ StartAttempt(d)
  \/ \E kind \in Kinds \ {"none"} : AttemptEnds(d, kind)
  \/ AttemptUnrecorded(d) \/ Conclude(d) \/ Pause(d) \/ Retry(d) \/ Fallback(d) \/ Exhaust(d)
  \/ Throw(d) \/ Finally(d)

Collect(g) ==
  \/ List(g) \/ TakeTombstone(g) \/ TakeRegistry(g) \/ Finish(g)
  \/ Pinned(g) \/ OpenTombstone(g) \/ Bury(g) \/ Fresh(g)
  \/ EraseSessions(g) \/ EraseRegistry(g) \/ Unmark(g) \/ RmFails(g)

Next ==
  \/ \E d \in Dispatchers : Enter(d) \/ Dispatch(d)
  \/ \E g \in Collectors : Collect(g)
  \/ \E p \in Procs : Leave(p) \/ Crash(p)
  \/ \E i \in Ids : ChildWrites(i) \/ OrphanExits(i) \/ Ages(i)
  \/ PinExpires \/ CreatePin \/ ReleasePin

Spec == Init /\ [][Next]_vars

(* A dispatch that runs ends, orphans exit, every Pi process start runs a  *)
(* collection, and rm does not fail, nor a kill intervene, every time.     *)
Fairness ==
  /\ \A d \in Dispatchers : WF_vars(Dispatch(d))
  /\ \A p \in Procs : WF_vars(Leave(p))
  /\ \A i \in Ids : WF_vars(OrphanExits(i))
  /\ \A g \in Collectors :
       /\ WF_vars(Collect(g)) /\ SF_vars(TakeTombstone(g))
       /\ SF_vars(OpenTombstone(g)) /\ SF_vars(EraseSessions(g))
       /\ SF_vars(EraseRegistry(g)) /\ SF_vars(Unmark(g))

FairSpec == Spec /\ Fairness

-----------------------------------------------------------------------------
(* A logical handle never has two histories: while any session file exists *)
(* no dispatch starts another session for the same identity.               *)
OneHistory == \A i, j \in Ids : files[i] # "none" /\ files[j] # "none" => i = j

(* A child is started on a valid session file, or as the very first child  *)
(* of its identity: never over a missing, empty or truncated history.      *)
NeverOverLostHistory ==
  [][\A i \in child' \ child :
       \/ files[i] = "valid"
       \/ registry = [status |-> "creating", id |-> i] /\ \A j \in Ids : files[j] = "none"]_vars

(* Quarantine is final: no later outcome overwrites it, no child runs, and *)
(* it goes away only with the session at the end of its retention.         *)
QuarantineIsFinal ==
  [][registry.status = "quarantined" =>
       /\ registry' = registry \/ (registry' = NoRegistry /\ age[registry.id] = "expired")
       /\ child' \subseteq child]_vars

(* An interrupted deletion is completed by a later collection, unless the  *)
(* session is pinned or a dispatch of that very handle keeps the lock: the *)
(* handle does not stay cleanup-pending for ever.                          *)
DeletionCompletes ==
  \A i \in Ids : i \in tombs ~> (i \notin tombs \/ pin = "valid" \/ holder \in Dispatchers)

=============================================================================
