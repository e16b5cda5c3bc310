------------------------- MODULE ChildSessionProofs -------------------------
(***************************************************************************)
(* Safety of a child session for any number of dispatchers, collections,   *)
(* candidates and retries, with kills anywhere.                            *)
(***************************************************************************)
EXTENDS ChildSession, TLAPS

(* Who is in the middle of something has the lock, which was not taken     *)
(* over from it.                                                           *)
Away == {"idle", "listed"}

Held ==
  /\ \A p \in Procs : pc[p] \notin Away => holder = p /\ ~stale
  /\ stale => holder # NoProc
  /\ \A d \in Dispatchers : pc[d] \in DispatchPcs
  /\ \A g \in Collectors : pc[g] \in CollectPcs

NoFiles == \A i \in Ids : files[i] = "none"

(* The disk: files are those of the registry, or of the tombstone; there   *)
(* is at most one of these two.                                            *)
Disk ==
  /\ registry.status # "absent" => registry.id \in Ids /\ tombs = {}
  /\ \A i, j \in tombs : i = j
  /\ \A i \in Ids : files[i] # "none" =>
       i \in tombs \/ (registry.status # "absent" /\ registry.id = i)

(* A child writes the session of the registry, and either its dispatcher   *)
(* waits for it or nobody gets the lock before it is gone.                 *)
Children ==
  child # {} =>
    /\ child \subseteq {registry.id} /\ registry.status # "absent"
    /\ stale \/ \E d \in Dispatchers : pc[d] = "running"

(* What a dispatch knows of the registry and of the session it works on.   *)
Works(d) ==
  pc[d] \in {"ready", "running", "recorded", "sleeping", "finishing"} =>
    registry.status # "absent" /\ run[d].id = registry.id

Unsettled == registry.status \in {"creating", "running"}

Stage(d) ==
  /\ pc[d] = "ready" =>
       Unsettled /\ (files[run[d].id] = "valid" \/ (registry.status = "creating" /\ NoFiles))
  /\ pc[d] = "running" => Unsettled
  /\ pc[d] = "sleeping" => Unsettled /\ files[run[d].id] = "valid"
  /\ pc[d] = "recorded" =>
       /\ run[d].kind = "transient" => registry.status = "running" /\ files[run[d].id] = "valid"
       /\ ~run[d].broken => registry.status # "quarantined"

(* What a collection has erased is gone.                                   *)
Erased(g) == pc[g] \in {"metadata", "unmark"} => NoFiles

IInv ==
  /\ TypeOK /\ Held /\ Disk /\ Children
  /\ \A d \in Dispatchers : Works(d) /\ Stage(d)
  /\ \A g \in Collectors : Erased(g)

-----------------------------------------------------------------------------
(* One field of a run or a sweep at a time keeps its type.                 *)
LEMMA RunFields ==
  ASSUME NEW q \in Run
  PROVE  /\ \A v \in 0..MaxIds : [q EXCEPT !.id = v] \in Run
         /\ \A v \in BOOLEAN : [q EXCEPT !.known = v] \in Run
         /\ \A v \in BOOLEAN : [q EXCEPT !.first = v] \in Run
         /\ \A v \in BOOLEAN : [q EXCEPT !.broken = v] \in Run
         /\ \A v \in Nat : [q EXCEPT !.candidate = v] \in Run
         /\ \A v \in Nat : [q EXCEPT !.retry = v] \in Run
         /\ \A v \in Kinds : [q EXCEPT !.kind = v] \in Run
  <1>1. \A v \in 0..MaxIds : [q EXCEPT !.id = v] \in Run  BY SMT DEF Run
  <1>2. \A v \in BOOLEAN : [q EXCEPT !.known = v] \in Run  BY SMT DEF Run
  <1>3. \A v \in BOOLEAN : [q EXCEPT !.first = v] \in Run  BY SMT DEF Run
  <1>4. \A v \in BOOLEAN : [q EXCEPT !.broken = v] \in Run  BY SMT DEF Run
  <1>5. \A v \in Nat : [q EXCEPT !.candidate = v] \in Run  BY SMT DEF Run
  <1>6. \A v \in Nat : [q EXCEPT !.retry = v] \in Run  BY SMT DEF Run
  <1>7. \A v \in Kinds : [q EXCEPT !.kind = v] \in Run  BY SMT DEF Run
  <1> QED  BY <1>1, <1>2, <1>3, <1>4, <1>5, <1>6, <1>7

LEMMA NoRunTyped == NoRun \in Run /\ NoRun.kind = "none" /\ ~NoRun.broken
  BY ChildSessionAssumption DEF NoRun, Run, Kinds

(* The runs after the steps that change one, for the dispatch and for all  *)
(* the others.                                                             *)
Resumed(f, d, v) == [f EXCEPT ![d] = [NoRun EXCEPT !.id = v, !.known = TRUE]]

LEMMA RunResumed ==
  ASSUME run \in [Dispatchers -> Run], NEW d \in Dispatchers, NEW v \in 0..MaxIds, NEW r,
         r = Resumed(run, d, v)
  PROVE  /\ r \in [Dispatchers -> Run] /\ r[d].id = v
         /\ \A e \in Dispatchers \ {d} : r[e] = run[e]
  <1> DEFINE a == [NoRun EXCEPT !.id = v]
             b == [NoRun EXCEPT !.id = v, !.known = TRUE]
  <1>1. a \in Run  BY NoRunTyped, RunFields
  <1>2. b = [a EXCEPT !.known = TRUE]  BY SMT DEF NoRun
  <1>3. [a EXCEPT !.known = TRUE] \in Run
    <2> HIDE DEF a
    <2> QED  BY <1>1, RunFields
  <1>4. b \in Run  BY <1>2, <1>3
  <1>5. b.id = v  BY SMT DEF NoRun
  <1>6. r = [run EXCEPT ![d] = b]  BY DEF Resumed
  <1> HIDE DEF a, b
  <1> QED  BY <1>4, <1>5, <1>6

Created(f, d, v) == [f EXCEPT ![d] = [NoRun EXCEPT !.id = v, !.first = TRUE]]

LEMMA RunCreated ==
  ASSUME run \in [Dispatchers -> Run], NEW d \in Dispatchers, NEW v \in 0..MaxIds, NEW r,
         r = Created(run, d, v)
  PROVE  /\ r \in [Dispatchers -> Run] /\ r[d].id = v
         /\ \A e \in Dispatchers \ {d} : r[e] = run[e]
  <1> DEFINE a == [NoRun EXCEPT !.id = v]
             b == [NoRun EXCEPT !.id = v, !.first = TRUE]
  <1>1. a \in Run  BY NoRunTyped, RunFields
  <1>2. b = [a EXCEPT !.first = TRUE]  BY SMT DEF NoRun
  <1>3. [a EXCEPT !.first = TRUE] \in Run
    <2> HIDE DEF a
    <2> QED  BY <1>1, RunFields
  <1>4. b \in Run  BY <1>2, <1>3
  <1>5. b.id = v  BY SMT DEF NoRun
  <1>6. r = [run EXCEPT ![d] = b]  BY DEF Created
  <1> HIDE DEF a, b
  <1> QED  BY <1>4, <1>5, <1>6

Ended(f, d, a, b, c) == [f EXCEPT ![d].known = a, ![d].broken = b, ![d].kind = c]

LEMMA RunEnded ==
  ASSUME run \in [Dispatchers -> Run], NEW d \in Dispatchers,
         NEW a \in BOOLEAN, NEW b \in BOOLEAN, NEW c \in Kinds, NEW r,
         r = Ended(run, d, a, b, c)
  PROVE  /\ r \in [Dispatchers -> Run]
         /\ r[d].id = run[d].id /\ r[d].broken = b /\ r[d].kind = c
         /\ \A e \in Dispatchers \ {d} : r[e] = run[e]
  <1> DEFINE q == run[d]
             s == [q EXCEPT !.known = a]
             t == [s EXCEPT !.broken = b]
             u == [t EXCEPT !.kind = c]
  <1>1. q \in Run  OBVIOUS
  <1>2. s \in Run
    <2> HIDE DEF q
    <2> QED  BY <1>1, RunFields
  <1>3. t \in Run
    <2> HIDE DEF s
    <2> QED  BY <1>2, RunFields
  <1>4. u \in Run
    <2> HIDE DEF t
    <2> QED  BY <1>3, RunFields
  <1>5. /\ r[d].id = run[d].id /\ r[d].broken = b /\ r[d].kind = c
        /\ \A e \in Dispatchers \ {d} : r[e] = run[e]
    BY SMT DEF Run, Ended
  <1>6. r = [run EXCEPT ![d] = u]
    BY DEF Ended
  <1> HIDE DEF u
  <1> QED  BY <1>4, <1>5, <1>6

LEMMA RunSeen ==
  ASSUME run \in [Dispatchers -> Run], NEW d \in Dispatchers, NEW r,
         r = [run EXCEPT ![d].known = TRUE]
  PROVE  /\ r \in [Dispatchers -> Run] /\ r[d].id = run[d].id
         /\ \A e \in Dispatchers \ {d} : r[e] = run[e]
  <1> DEFINE q == run[d]
             s == [q EXCEPT !.known = TRUE]
  <1>1. q \in Run  OBVIOUS
  <1>2. s \in Run
    <2> HIDE DEF q
    <2> QED  BY <1>1, RunFields
  <1>3. s.id = q.id
    <2> SUFFICES ASSUME NEW v  PROVE [q EXCEPT !.known = v].id = q.id  OBVIOUS
    <2> HIDE DEF q
    <2> QED  BY <1>1, SMT DEF Run
  <1>4. r = [run EXCEPT ![d] = s]
    OBVIOUS
  <1> HIDE DEF s
  <1> QED  BY <1>2, <1>3, <1>4

LEMMA RunRetried ==
  ASSUME run \in [Dispatchers -> Run], NEW d \in Dispatchers, NEW r,
         r = [run EXCEPT ![d].retry = @ + 1]
  PROVE  /\ r \in [Dispatchers -> Run] /\ r[d].id = run[d].id
         /\ \A e \in Dispatchers \ {d} : r[e] = run[e]
  <1> DEFINE q == run[d]
             s == [q EXCEPT !.retry = @ + 1]
  <1>1. q \in Run /\ q.retry + 1 \in Nat  BY SMT DEF Run
  <1>2. s \in Run
    <2> HIDE DEF q
    <2> QED  BY <1>1, RunFields
  <1>3. r[d].id = run[d].id /\ \A e \in Dispatchers \ {d} : r[e] = run[e]
    BY SMT DEF Run
  <1>4. r = [run EXCEPT ![d] = s]
    OBVIOUS
  <1> HIDE DEF s
  <1> QED  BY <1>2, <1>3, <1>4

LEMMA RunFellBack ==
  ASSUME run \in [Dispatchers -> Run], NEW d \in Dispatchers, NEW r,
         r = [run EXCEPT ![d].candidate = @ + 1, ![d].retry = 0]
  PROVE  /\ r \in [Dispatchers -> Run] /\ r[d].id = run[d].id
         /\ \A e \in Dispatchers \ {d} : r[e] = run[e]
  <1> DEFINE q == run[d]
             s == [q EXCEPT !.candidate = @ + 1]
             t == [s EXCEPT !.retry = 0]
  <1>1. q \in Run /\ q.candidate + 1 \in Nat  BY SMT DEF Run
  <1>2. s \in Run
    <2> HIDE DEF q
    <2> QED  BY <1>1, RunFields
  <1>3. t \in Run
    <2> HIDE DEF s
    <2> QED  BY <1>2, RunFields
  <1>4. r[d].id = run[d].id /\ \A e \in Dispatchers \ {d} : r[e] = run[e]
    BY SMT DEF Run
  <1>5. r = [run EXCEPT ![d] = t]
    OBVIOUS
  <1> HIDE DEF t
  <1> QED  BY <1>3, <1>4, <1>5
LEMMA SweepFields ==
  ASSUME NEW q \in Sweep
  PROVE  /\ \A v \in SUBSET Ids : [q EXCEPT !.tombs = v] \in Sweep
         /\ \A v \in BOOLEAN : [q EXCEPT !.listed = v] \in Sweep
         /\ \A v \in 0..MaxIds : [q EXCEPT !.target = v] \in Sweep
  <1>1. \A v \in SUBSET Ids : [q EXCEPT !.tombs = v] \in Sweep  BY SMT DEF Sweep
  <1>2. \A v \in BOOLEAN : [q EXCEPT !.listed = v] \in Sweep  BY SMT DEF Sweep
  <1>3. \A v \in 0..MaxIds : [q EXCEPT !.target = v] \in Sweep  BY SMT DEF Sweep
  <1> QED  BY <1>1, <1>2, <1>3

LEMMA NoSweepTyped == NoSweep \in Sweep /\ NoSweep.tombs = {} /\ NoSweep.target = 0
  BY ChildSessionAssumption DEF NoSweep, Sweep

Listed(f, g, v, b) == [f EXCEPT ![g] = [NoSweep EXCEPT !.tombs = v, !.listed = b]]

LEMMA SweepListed ==
  ASSUME sweep \in [Collectors -> Sweep], NEW g \in Collectors, NEW v \in SUBSET Ids,
         NEW b \in BOOLEAN, NEW s,
         s = Listed(sweep, g, v, b)
  PROVE  /\ s \in [Collectors -> Sweep] /\ s[g].tombs = v /\ s[g].target = 0
         /\ \A h \in Collectors \ {g} : s[h] = sweep[h]
  <1> DEFINE x == [NoSweep EXCEPT !.tombs = v]
             y == [NoSweep EXCEPT !.tombs = v, !.listed = b]
  <1>1. x \in Sweep  BY NoSweepTyped, SweepFields
  <1>2. y = [x EXCEPT !.listed = b]  BY SMT DEF NoSweep
  <1>3. [x EXCEPT !.listed = b] \in Sweep
    <2> HIDE DEF x
    <2> QED  BY <1>1, SweepFields
  <1>4. y.tombs = v /\ y.target = 0  BY SMT DEF NoSweep
  <1>5. y \in Sweep  BY <1>2, <1>3
  <1>6. s = [sweep EXCEPT ![g] = y]  BY DEF Listed
  <1> HIDE DEF x, y
  <1> QED  BY <1>4, <1>5, <1>6

LEMMA SweepTook ==
  ASSUME sweep \in [Collectors -> Sweep], NEW g \in Collectors, NEW t \in Ids, NEW s,
         s = [sweep EXCEPT ![g].tombs = @ \ {t}, ![g].target = t]
  PROVE  /\ s \in [Collectors -> Sweep]
         /\ s[g].tombs = sweep[g].tombs \ {t} /\ s[g].target = t
         /\ \A h \in Collectors \ {g} : s[h] = sweep[h]
  <1> DEFINE q == sweep[g]
             x == [q EXCEPT !.tombs = @ \ {t}]
             y == [x EXCEPT !.target = t]
  <1>1. q \in Sweep /\ q.tombs \ {t} \in SUBSET Ids  BY SMT DEF Sweep
  <1>2. x \in Sweep
    <2> HIDE DEF q
    <2> QED  BY <1>1, SweepFields
  <1>3. y \in Sweep
    <2>1. t \in 0..MaxIds  BY ChildSessionAssumption DEF Ids
    <2> HIDE DEF x
    <2> QED  BY <1>2, <2>1, SweepFields
  <1>4. /\ s[g].tombs = sweep[g].tombs \ {t} /\ s[g].target = t
        /\ \A h \in Collectors \ {g} : s[h] = sweep[h]
    BY SMT DEF Sweep
  <1>5. s = [sweep EXCEPT ![g] = y]  OBVIOUS
  <1> HIDE DEF y
  <1> QED  BY <1>3, <1>4, <1>5

LEMMA SweepSkipped ==
  ASSUME sweep \in [Collectors -> Sweep], NEW g \in Collectors, NEW t \in Ids, NEW s,
         s = [sweep EXCEPT ![g].tombs = @ \ {t}]
  PROVE  /\ s \in [Collectors -> Sweep]
         /\ s[g].tombs = sweep[g].tombs \ {t} /\ s[g].target = sweep[g].target
         /\ \A h \in Collectors \ {g} : s[h] = sweep[h]
  BY SMT DEF Sweep

LEMMA SweepTurned ==
  ASSUME sweep \in [Collectors -> Sweep], NEW g \in Collectors, NEW s,
         s = [sweep EXCEPT ![g].listed = FALSE]
  PROVE  /\ s \in [Collectors -> Sweep]
         /\ s[g].tombs = sweep[g].tombs /\ s[g].target = sweep[g].target
         /\ \A h \in Collectors \ {g} : s[h] = sweep[h]
  <1> DEFINE q == sweep[g]
             x == [q EXCEPT !.listed = FALSE]
  <1>1. q \in Sweep  OBVIOUS
  <1>2. x \in Sweep
    <2> HIDE DEF q
    <2> QED  BY <1>1, SweepFields
  <1>3. x.tombs = q.tombs /\ x.target = q.target
    <2> SUFFICES ASSUME NEW v
                 PROVE  /\ [q EXCEPT !.listed = v].tombs = q.tombs
                        /\ [q EXCEPT !.listed = v].target = q.target
      OBVIOUS
    <2> HIDE DEF q
    <2> QED  BY <1>1, SMT DEF Sweep
  <1>4. s = [sweep EXCEPT ![g] = x]  OBVIOUS
  <1> HIDE DEF x
  <1> QED  BY <1>2, <1>3, <1>4

LEMMA SweepBuried ==
  ASSUME sweep \in [Collectors -> Sweep], NEW g \in Collectors, NEW t \in 0..MaxIds, NEW s,
         s = [sweep EXCEPT ![g].target = t]
  PROVE  /\ s \in [Collectors -> Sweep]
         /\ s[g].tombs = sweep[g].tombs /\ s[g].target = t
         /\ \A h \in Collectors \ {g} : s[h] = sweep[h]
  BY SMT DEF Sweep

LEMMA SweepLeft ==
  ASSUME sweep \in [Collectors -> Sweep], NEW p, Leave(p)
  PROVE  /\ sweep' \in [Collectors -> Sweep]
         /\ \A g \in Collectors : /\ sweep'[g].tombs = sweep[g].tombs
                                  /\ sweep'[g].target \in {0, sweep[g].target}
  <1>1. \A g \in Collectors : [sweep[g] EXCEPT !.target = 0] \in Sweep
    BY ChildSessionAssumption, SweepFields
  <1>2. \A g \in Collectors : /\ [sweep[g] EXCEPT !.target = 0].tombs = sweep[g].tombs
                              /\ [sweep[g] EXCEPT !.target = 0].target = 0
    BY SMT DEF Sweep
  <1> DEFINE left(g) == [sweep[g] EXCEPT !.target = 0]
  <1>3. sweep' = [g \in Collectors |-> IF g = p THEN left(g) ELSE sweep[g]]
    BY DEF Leave
  <1> HIDE DEF left
  <1>4. \A g \in Collectors : sweep'[g] = left(g) \/ sweep'[g] = sweep[g]
    BY <1>3
  <1>5. sweep' = [g \in Collectors |-> sweep'[g]]
    BY <1>3
  <1>6. \A g \in Collectors : left(g) \in Sweep /\ left(g).tombs = sweep[g].tombs /\ left(g).target = 0
    BY <1>1, <1>2 DEF left
  <1> QED  BY <1>4, <1>5, <1>6
-----------------------------------------------------------------------------
(* Types.                                                                  *)
LEMMA RegistryFields ==
  ASSUME registry \in Registry
  PROVE  registry.id \in 0..MaxIds /\ registry.status \in Statuses
  BY SMT DEF Registry

LEMMA RunTypes ==
  ASSUME NEW q \in Run
  PROVE  /\ q.id \in 0..MaxIds /\ q.retry \in Nat /\ q.candidate \in Nat
         /\ q.kind \in Kinds /\ q.broken \in BOOLEAN /\ q.known \in BOOLEAN
  BY SMT DEF Run

LEMMA SweepTypes ==
  ASSUME NEW q \in Sweep
  PROVE  q.tombs \in SUBSET Ids /\ q.target \in 0..MaxIds /\ q.listed \in BOOLEAN
  BY SMT DEF Sweep

LEMMA Saved ==
  ASSUME TypeOK, NEW id \in 0..MaxIds, NEW status \in Statuses, SaveRegistry(id, status)
  PROVE  /\ registry' \in Registry /\ age' \in [Ids -> {"fresh", "expired"}]
         /\ registry'.id = id /\ registry'.status = status
  <1>1. registry' = [status |-> status, id |-> id]  BY DEF SaveRegistry
  <1>2. registry' \in Registry  BY <1>1 DEF Registry
  <1>3. age' = [age EXCEPT ![id] = "fresh"] /\ age \in [Ids -> {"fresh", "expired"}]
    BY DEF SaveRegistry, TypeOK
  <1> QED  BY <1>1, <1>2, <1>3

LEMMA Quarantined ==
  ASSUME TypeOK, NEW id \in 0..MaxIds, Quarantine(id)
  PROVE  /\ registry' \in Registry /\ age' \in [Ids -> {"fresh", "expired"}]
         /\ registry' = registry \/ (registry'.id = id /\ registry'.status = "quarantined")
  <1>1. CASE SaveRegistry(id, "quarantined")
    <2>1. "quarantined" \in Statuses  BY DEF Statuses
    <2> QED  BY <1>1, <2>1, Saved
  <1> QED  BY <1>1 DEF Quarantine, TypeOK

LEMMA NoRegistryTyped == NoRegistry \in Registry /\ NoRegistry.status = "absent"
  BY ChildSessionAssumption DEF NoRegistry, Registry, Statuses

LEMMA Went ==
  ASSUME pc \in [Procs -> DispatchPcs \cup CollectPcs], NEW p \in Procs,
         NEW place \in DispatchPcs \cup CollectPcs, Goto(p, place)
  PROVE  /\ pc' \in [Procs -> DispatchPcs \cup CollectPcs]
         /\ pc'[p] = place /\ \A q \in Procs \ {p} : pc'[q] = pc[q]
  BY DEF Goto

LEMMA TypeInit == Init => TypeOK
  <1> SUFFICES ASSUME Init  PROVE TypeOK
    OBVIOUS
  <1>1. run \in [Dispatchers -> Run]  BY NoRunTyped DEF Init
  <1>2. sweep \in [Collectors -> Sweep]  BY NoSweepTyped DEF Init
  <1>3. registry \in Registry  BY NoRegistryTyped DEF Init
  <1>4. pc \in [Procs -> DispatchPcs \cup CollectPcs]  BY DEF Init, DispatchPcs
  <1>5. nextId \in 1..MaxIds + 1  BY ChildSessionAssumption DEF Init
  <1>6. /\ files \in [Ids -> {"none", "partial", "valid"}]
        /\ age \in [Ids -> {"fresh", "expired"}]
    BY DEF Init
  <1>7. /\ holder \in Procs \cup {NoProc} /\ stale \in BOOLEAN
        /\ tombs \subseteq Ids /\ child \subseteq Ids /\ pin \in {"absent", "valid", "expired"}
    BY DEF Init
  <1> QED  BY <1>1, <1>2, <1>3, <1>4, <1>5, <1>6, <1>7 DEF TypeOK

LEMMA TypeDispatch ==
  ASSUME IInv, NEW d \in Dispatchers, Enter(d) \/ Dispatch(d)
  PROVE  TypeOK'
  <1>1. TypeOK /\ d \in Procs /\ run[d] \in Run  BY DEF IInv, TypeOK, Procs
  <1>2. run[d].id \in 0..MaxIds /\ registry.id \in 0..MaxIds
    BY <1>1, RunTypes, RegistryFields DEF TypeOK
  <1>3. {"creating", "running", "settled", "recoverable_failed", "failed", "cancelled"} \subseteq Statuses
    BY DEF Statuses
  <1>4. DispatchPcs = {"idle", "entered", "ready", "running", "recorded", "sleeping", "finishing",
                "releasing"}
    BY DEF DispatchPcs
  <1> USE <1>1, <1>2 DEF TypeOK, At, Goto, KeepLock, disk
  <1>5. CASE Enter(d)  BY <1>4, <1>5 DEF Enter, Acquire
  <1>6. CASE Refuse(d)  BY <1>4, <1>6 DEF Refuse
  <1>7. CASE Resume(d)
    <2>1. SaveRegistry(registry.id, "running")  BY <1>7 DEF Resume
    <2>2. registry' \in Registry /\ age' \in [Ids -> {"fresh", "expired"}]
      BY <1>3, <2>1, Saved
    <2>3. run' = Resumed(run, d, registry.id)  BY <1>7 DEF Resume, Resumed
    <2>4. run' \in [Dispatchers -> Run]  BY <2>3, RunResumed
    <2> QED  BY <1>4, <1>7, <2>2, <2>4 DEF Resume
  <1>8. CASE RejectSession(d)
    <2>1. Quarantine(registry.id)  BY <1>8 DEF RejectSession
    <2>2. registry' \in Registry /\ age' \in [Ids -> {"fresh", "expired"}]
      BY <2>1, Quarantined
    <2> QED  BY <1>4, <1>8, <2>2 DEF RejectSession
  <1>9. CASE Create(d)
    <2>1. SaveRegistry(nextId, "creating") /\ nextId \in 0..MaxIds /\ nextId' \in 1..MaxIds + 1
      BY <1>9, ChildSessionAssumption DEF Create, Ids
    <2>2. registry' \in Registry /\ age' \in [Ids -> {"fresh", "expired"}]
      BY <1>3, <2>1, Saved
    <2>3. run' = Created(run, d, nextId)  BY <1>9 DEF Create, Created
    <2>4. run' \in [Dispatchers -> Run]  BY <2>1, <2>3, RunCreated
    <2> QED  BY <1>4, <1>9, <2>1, <2>2, <2>4 DEF Create
  <1>10. CASE Cancel(d)
    <2>1. SaveRegistry(run[d].id, "cancelled")  BY <1>10 DEF Cancel
    <2>2. registry' \in Registry /\ age' \in [Ids -> {"fresh", "expired"}]
      BY <1>3, <2>1, Saved
    <2> QED  BY <1>4, <1>10, <2>2 DEF Cancel
  <1>11. CASE StartAttempt(d)
    <2>1. run[d].id \in Ids  BY <1>11 DEF StartAttempt, IInv, Works, Disk
    <2> QED  BY <1>4, <1>11, <2>1 DEF StartAttempt
  <1>12. ASSUME NEW kind \in Kinds \ {"none"}, AttemptEnds(d, kind)  PROVE TypeOK'
    <2> DEFINE i == run[d].id
               valid == files[i] = "valid"
               k == IF valid THEN kind ELSE "other"
               status == IF kind = "success" THEN "settled" ELSE "running"
    <2>1. valid \in BOOLEAN /\ (~valid) \in BOOLEAN /\ k \in Kinds
      <3>1. k \in Kinds  BY DEF Kinds
      <3>2. valid \in BOOLEAN  OBVIOUS
      <3>3. (~valid) \in BOOLEAN  OBVIOUS
      <3> QED  BY <3>1, <3>2, <3>3
    <2>2. run' = Ended(run, d, valid, ~valid, k)
      BY <1>12 DEF AttemptEnds, Ended
    <2>3. run' \in [Dispatchers -> Run]
      <3> HIDE DEF valid, k
      <3> QED  BY <2>1, <2>2, RunEnded
    <2>4. SaveRegistry(i, status) \/ Quarantine(i)  BY <1>12 DEF AttemptEnds
    <2>5. status \in Statuses  BY <1>3
    <2>6. registry' \in Registry /\ age' \in [Ids -> {"fresh", "expired"}]
      <3> HIDE DEF status
      <3> QED  BY <2>4, <2>5, Saved, Quarantined
    <2>7. child' \subseteq Ids  BY <1>12 DEF AttemptEnds
    <2> QED  BY <1>4, <1>12, <2>3, <2>6, <2>7 DEF AttemptEnds
  <1>13. CASE AttemptUnrecorded(d)
    <2>1. run' \in [Dispatchers -> Run]  BY <1>13, RunSeen DEF AttemptUnrecorded
    <2> QED  BY <1>4, <1>13, <2>1 DEF AttemptUnrecorded
  <1>14. CASE Conclude(d)
    <2> DEFINE status == IF run[d].kind = "cancelled" THEN "cancelled" ELSE "failed"
    <2>1. status \in Statuses  BY <1>3
    <2>2. SaveRegistry(run[d].id, status) \/ UNCHANGED <<registry, age>>  BY <1>14 DEF Conclude
    <2>3. registry' \in Registry /\ age' \in [Ids -> {"fresh", "expired"}]
      <3> HIDE DEF status
      <3> QED  BY <2>1, <2>2, Saved
    <2> QED  BY <1>4, <1>14, <2>3 DEF Conclude
  <1>15. CASE Pause(d)  BY <1>4, <1>15 DEF Pause
  <1>16. CASE Retry(d)
    <2>1. run' \in [Dispatchers -> Run]  BY <1>16, RunRetried DEF Retry
    <2> QED  BY <1>4, <1>16, <2>1 DEF Retry
  <1>17. CASE Fallback(d)
    <2>1. run' \in [Dispatchers -> Run]  BY <1>17, RunFellBack DEF Fallback
    <2> QED  BY <1>4, <1>17, <2>1 DEF Fallback
  <1>18. CASE Exhaust(d)
    <2>1. registry' \in Registry /\ age' \in [Ids -> {"fresh", "expired"}]
      BY <1>3, <1>18, Saved DEF Exhaust
    <2> QED  BY <1>4, <1>18, <2>1 DEF Exhaust
  <1>19. CASE Throw(d)  BY <1>4, <1>19 DEF Throw
  <1>20. CASE Finally(d)
    <2>1. registry' \in Registry /\ age' \in [Ids -> {"fresh", "expired"}]
      BY <1>20, Quarantined DEF Finally
    <2> QED  BY <1>4, <1>20, <2>1 DEF Finally
  <1> QED
    BY <1>5, <1>6, <1>7, <1>8, <1>9, <1>10, <1>11, <1>12, <1>13, <1>14, <1>15, <1>16, <1>17,
       <1>18, <1>19, <1>20 DEF Dispatch

LEMMA TypeCollect ==
  ASSUME IInv, NEW g \in Collectors, Collect(g)
  PROVE  TypeOK'
  <1>1. TypeOK /\ g \in Procs /\ sweep[g] \in Sweep  BY DEF IInv, TypeOK, Procs
  <1>2. sweep[g].tombs \subseteq Ids /\ registry.id \in 0..MaxIds
    BY <1>1, SweepTypes, RegistryFields DEF TypeOK
  <1>3. CollectPcs = {"idle", "listed", "tombstone", "registry", "recover", "metadata", "erase",
                      "unmark", "releasing"}
    BY DEF CollectPcs
  <1> USE <1>1, <1>2 DEF TypeOK, At, Goto, KeepLock, disk
  <1>4. CASE List(g)
    <2>1. PICK b \in BOOLEAN : sweep' = Listed(sweep, g, tombs, b)  BY <1>4 DEF List, Listed
    <2>2. sweep' \in [Collectors -> Sweep]  BY <2>1, SweepListed
    <2> QED  BY <1>3, <1>4, <2>2 DEF List
  <1>5. CASE TakeTombstone(g)
    <2>1. PICK t \in sweep[g].tombs :
            \/ /\ Acquire(g) /\ Goto(g, "tombstone")
               /\ sweep' = [sweep EXCEPT ![g].tombs = @ \ {t}, ![g].target = t]
            \/ /\ ~LockIsFree /\ KeepLock /\ UNCHANGED pc
               /\ sweep' = [sweep EXCEPT ![g].tombs = @ \ {t}]
      BY <1>5 DEF TakeTombstone
    <2>2. t \in Ids  OBVIOUS
    <2>3. sweep' \in [Collectors -> Sweep]  BY <2>1, <2>2, SweepTook, SweepSkipped
    <2> QED  BY <1>3, <1>5, <2>1, <2>3 DEF TakeTombstone, Acquire
  <1>6. CASE TakeRegistry(g)
    <2>1. sweep' \in [Collectors -> Sweep]  BY <1>6, SweepTurned DEF TakeRegistry
    <2> QED  BY <1>3, <1>6, <2>1 DEF TakeRegistry, Acquire
  <1>7. CASE Finish(g)
    <2>1. sweep' \in [Collectors -> Sweep]  BY <1>7, NoSweepTyped DEF Finish
    <2> QED  BY <1>3, <1>7, <2>1 DEF Finish
  <1>8. CASE Pinned(g)  BY <1>3, <1>8 DEF Pinned
  <1>9. CASE OpenTombstone(g)  BY <1>3, <1>9 DEF OpenTombstone, Unpinned
  <1>10. CASE Bury(g)
    <2>1. registry.id \in Ids  BY <1>10 DEF Bury, PastRetention, IInv, Disk
    <2>2. sweep' \in [Collectors -> Sweep]  BY <1>10, SweepBuried DEF Bury
    <2> QED  BY <1>3, <1>10, <2>1, <2>2, NoRegistryTyped DEF Bury, Unpinned
  <1>11. CASE Fresh(g)  BY <1>3, <1>11 DEF Fresh
  <1>12. CASE EraseSessions(g)  BY <1>3, <1>12 DEF EraseSessions
  <1>13. CASE EraseRegistry(g)  BY <1>3, <1>13, NoRegistryTyped DEF EraseRegistry
  <1>14. CASE Unmark(g)  BY <1>3, <1>14 DEF Unmark
  <1>15. CASE RmFails(g)  BY <1>3, <1>15 DEF RmFails
  <1> QED
    BY <1>4, <1>5, <1>6, <1>7, <1>8, <1>9, <1>10, <1>11, <1>12, <1>13, <1>14, <1>15 DEF Collect

LEMMA TypeRest ==
  ASSUME IInv,
         \/ \E p \in Procs : Leave(p) \/ Crash(p)
         \/ \E i \in Ids : ChildWrites(i) \/ OrphanExits(i) \/ Ages(i)
         \/ PinExpires \/ CreatePin \/ ReleasePin
         \/ UNCHANGED vars
  PROVE  TypeOK'
  <1>1. TypeOK  BY DEF IInv
  <1>2. {"idle", "listed"} \subseteq DispatchPcs \cup CollectPcs  BY DEF DispatchPcs, CollectPcs
  <1> USE <1>1 DEF TypeOK, At, Goto, KeepLock, disk
  <1>3. ASSUME NEW p \in Procs, Leave(p)  PROVE TypeOK'
    <2>1. run' \in [Dispatchers -> Run]  BY <1>3, NoRunTyped DEF Leave
    <2>2. sweep' \in [Collectors -> Sweep]  BY <1>3, SweepLeft
    <2> QED  BY <1>2, <1>3, <2>1, <2>2 DEF Leave, Release
  <1>4. ASSUME NEW p \in Procs, Crash(p)  PROVE TypeOK'
    <2>1. run' \in [Dispatchers -> Run]  BY <1>4, NoRunTyped DEF Crash
    <2>2. sweep' \in [Collectors -> Sweep]  BY <1>4, NoSweepTyped DEF Crash
    <2> QED  BY <1>2, <1>4, <2>1, <2>2 DEF Crash
  <1>5. ASSUME NEW i \in Ids, ChildWrites(i) \/ OrphanExits(i) \/ Ages(i)  PROVE TypeOK'
    BY <1>5 DEF ChildWrites, OrphanExits, Ages
  <1>6. CASE PinExpires \/ CreatePin \/ ReleasePin  BY <1>6 DEF PinExpires, CreatePin, ReleasePin
  <1>7. CASE UNCHANGED vars  BY <1>7 DEF vars
  <1> QED  BY <1>3, <1>4, <1>5, <1>6, <1>7
-----------------------------------------------------------------------------
(* Whoever is in the middle of something is alone.                         *)
LEMMA Alone ==
  ASSUME IInv, NEW p \in Procs, pc[p] \notin Away
  PROVE  /\ holder = p /\ ~stale
         /\ \A q \in Procs \ {p} : pc[q] \in Away
         /\ p \notin Dispatchers \/ pc[p] # "running" => child = {}
  <1>1. holder = p /\ ~stale  BY DEF IInv, Held
  <1>2. \A q \in Procs \ {p} : pc[q] \in Away  BY <1>1 DEF IInv, Held
  <1>3. ASSUME child # {}  PROVE p \in Dispatchers /\ pc[p] = "running"
    <2>1. PICK d \in Dispatchers : pc[d] = "running"  BY <1>1, <1>3 DEF IInv, Children
    <2>2. d \in Procs /\ pc[d] \notin Away  BY <2>1 DEF Procs, Away
    <2> QED  BY <1>2, <2>1, <2>2
  <1> QED  BY <1>1, <1>2, <1>3

(* Nobody is, and no child writes, when the lock can be had.               *)
LEMMA Nobody ==
  ASSUME IInv, LockIsFree
  PROVE  child = {} /\ \A p \in Procs : pc[p] \in Away
  <1>1. \A p \in Procs : pc[p] \in Away
    BY ChildSessionAssumption DEF LockIsFree, IInv, Held, Procs
  <1>2. ASSUME child # {}, holder = NoProc  PROVE FALSE
    <2>1. ~stale  BY <1>2 DEF IInv, Held
    <2>2. PICK d \in Dispatchers : pc[d] = "running"  BY <1>2, <2>1 DEF IInv, Children
    <2> QED  BY <1>1, <2>2 DEF Procs, Away
  <1> QED  BY <1>1, <1>2 DEF LockIsFree

(* What the step of one process has to keep when the others stand aside.   *)
LEMMA OneMoves ==
  ASSUME IInv, TypeOK', NEW p \in Procs,
         \A q \in Procs \ {p} : pc'[q] = pc[q] /\ pc[q] \in Away,
         pc'[p] \notin Away => holder' = p /\ ~stale',
         stale' => holder' # NoProc,
         p \in Dispatchers => pc'[p] \in DispatchPcs /\ Works(p)' /\ Stage(p)',
         p \in Collectors => pc'[p] \in CollectPcs /\ Erased(p)',
         Disk', Children'
  PROVE  IInv'
  <1>1. Held'  BY DEF IInv, Held, Procs
  <1>2. ASSUME NEW d \in Dispatchers, d # p  PROVE Works(d)' /\ Stage(d)'
    <2>1. pc'[d] \in Away  BY <1>2 DEF Procs
    <2> QED  BY <2>1 DEF Away, Works, Stage
  <1>3. ASSUME NEW g \in Collectors, g # p  PROVE Erased(g)'
    <2>1. pc'[g] \in Away  BY <1>3 DEF Procs
    <2> QED  BY <2>1 DEF Away, Erased
  <1> QED  BY <1>1, <1>2, <1>3 DEF IInv

LEMMA DispatchKeeps ==
  ASSUME IInv, NEW d \in Dispatchers, Enter(d) \/ Dispatch(d)
  PROVE  IInv'
  <1>1. TypeOK' /\ TypeOK  BY TypeDispatch DEF IInv
  <1>2. /\ d \in Procs /\ d \notin Collectors /\ d # NoProc
        /\ run \in [Dispatchers -> Run] /\ run[d] \in Run
        /\ run[d].id \in 0..MaxIds /\ registry.id \in 0..MaxIds
        /\ pc \in [Procs -> DispatchPcs \cup CollectPcs]
    BY <1>1, RunTypes, RegistryFields, ChildSessionAssumption DEF TypeOK, Procs
  <1>3. Disk /\ Children /\ Works(d) /\ Stage(d)  BY DEF IInv
  <1>4. {"creating", "running", "settled", "recoverable_failed", "failed", "cancelled"} \subseteq Statuses
    BY DEF Statuses
  <1>5. /\ DispatchPcs = {"idle", "entered", "ready", "running", "recorded", "sleeping",
                          "finishing", "releasing"}
        /\ Away = {"idle", "listed"}
    BY DEF DispatchPcs, Away
  <1>6. CASE Enter(d)
    <2>1. child = {} /\ \A p \in Procs : pc[p] \in Away  BY <1>6, Nobody DEF Enter, Acquire
    <2>2. pc'[d] = "entered" /\ \A q \in Procs \ {d} : pc'[q] = pc[q]
      BY <1>2, <1>5, <1>6, Went DEF Enter
    <2>3. Disk' /\ Children'  BY <1>3, <1>6, <2>1 DEF Enter, disk, Disk, Children
    <2>4. Works(d)' /\ Stage(d)'  BY <2>2 DEF Works, Stage
    <2> QED  BY <1>1, <1>2, <1>5, <1>6, <2>1, <2>2, <2>3, <2>4, OneMoves DEF Enter, Acquire
  <1> SUFFICES ASSUME Dispatch(d), pc[d] \in DispatchPcs \ {"idle"}  PROVE IInv'
    <2>1. ASSUME Dispatch(d)  PROVE pc[d] \in DispatchPcs \ {"idle"}
      BY <1>5, <2>1
      DEF Dispatch, Refuse, Resume, RejectSession, Create, Cancel, StartAttempt, AttemptEnds,
          AttemptUnrecorded, Conclude, Pause, Retry, Fallback, Exhaust, Throw, Finally, At
    <2> QED  BY <1>6, <2>1
  <1>7. /\ holder = d /\ ~stale
        /\ \A q \in Procs \ {d} : pc[q] \in Away
        /\ pc[d] # "running" => child = {}
    BY <1>2, <1>5, Alone
  (* What is left to show of each step.                                    *)
  <1>8. ASSUME KeepLock, NEW place \in DispatchPcs, Goto(d, place),
               Disk', Children', pc'[d] = place => Works(d)' /\ Stage(d)'
        PROVE  IInv'
    <2>1. pc'[d] = place /\ \A q \in Procs \ {d} : pc'[q] = pc[q]
      BY <1>2, <1>8, Went
    <2> QED  BY <1>1, <1>2, <1>7, <1>8, <2>1, OneMoves DEF KeepLock
  <1>9. CASE Refuse(d)
    <2>1. Disk' /\ Children'  BY <1>3, <1>7, <1>9 DEF Refuse, At, disk, Disk, Children
    <2>2. pc'[d] = "releasing" => Works(d)' /\ Stage(d)'  BY DEF Works, Stage
    <2> QED  BY <1>5, <1>8, <1>9, <2>1, <2>2 DEF Refuse
  <1>10. CASE Resume(d)
    <2>1. SaveRegistry(registry.id, "running")  BY <1>10 DEF Resume
    <2>2. registry'.id = registry.id /\ registry'.status = "running"  BY <1>1, <1>2, <1>4, <2>1, Saved
    <2>3. run'[d].id = registry.id
      <3>1. run' = Resumed(run, d, registry.id)
        BY <1>10 DEF Resume, Resumed
      <3> QED  BY <1>2, <3>1, RunResumed
    <2>4. Disk' /\ Children'
      BY <1>3, <1>7, <1>10, <2>2 DEF Resume, At, Disk, Children
    <2>5. pc'[d] = "ready" => Works(d)' /\ Stage(d)'
      BY <1>10, <2>2, <2>3 DEF Resume, Works, Stage, Unsettled
    <2> QED  BY <1>5, <1>8, <1>10, <2>4, <2>5 DEF Resume
  <1>11. CASE RejectSession(d)
    <2>1. Quarantine(registry.id)  BY <1>11 DEF RejectSession
    <2>2. registry' = registry \/ (registry'.id = registry.id /\ registry'.status = "quarantined")
      BY <1>1, <1>2, <2>1, Quarantined
    <2>3. Disk' /\ Children'
      BY <1>3, <1>7, <1>11, <2>2 DEF RejectSession, At, Disk, Children
    <2>4. pc'[d] = "releasing" => Works(d)' /\ Stage(d)'  BY DEF Works, Stage
    <2> QED  BY <1>5, <1>8, <1>11, <2>3, <2>4 DEF RejectSession
  <1>12. CASE Create(d)
    <2>1. SaveRegistry(nextId, "creating") /\ nextId \in Ids /\ nextId \in 0..MaxIds
      BY <1>12, ChildSessionAssumption DEF Create, Ids
    <2>2. registry'.id = nextId /\ registry'.status = "creating"  BY <1>1, <1>4, <2>1, Saved
    <2>3. run'[d].id = nextId
      <3>1. run' = Created(run, d, nextId)
        BY <1>12 DEF Create, Created
      <3> QED  BY <1>2, <2>1, <3>1, RunCreated
    <2>4. NoFiles  BY <1>3, <1>12 DEF Create, MayDispatch, Disk, NoFiles
    <2>5. Disk' /\ Children'
      BY <1>7, <1>12, <2>1, <2>2, <2>4 DEF Create, MayDispatch, At, Disk, Children, NoFiles
    <2>6. pc'[d] = "ready" => Works(d)' /\ Stage(d)'
      BY <1>12, <2>2, <2>3, <2>4 DEF Create, Works, Stage, Unsettled, NoFiles
    <2> QED  BY <1>5, <1>8, <1>12, <2>5, <2>6 DEF Create
  <1>13. CASE Cancel(d)
    <2>1. /\ registry.status # "absent" /\ run[d].id = registry.id
          /\ SaveRegistry(run[d].id, "cancelled")
      BY <1>3, <1>13 DEF Cancel, At, Works
    <2>2. registry'.id = registry.id /\ registry'.status = "cancelled"
      BY <1>1, <1>2, <1>4, <2>1, Saved
    <2>3. Disk' /\ Children'
      BY <1>3, <1>7, <1>13, <2>1, <2>2 DEF Cancel, At, Disk, Children
    <2>4. pc'[d] = "finishing" => Works(d)' /\ Stage(d)'
      BY <1>13, <2>1, <2>2 DEF Cancel, Works, Stage
    <2> QED  BY <1>5, <1>8, <1>13, <2>3, <2>4 DEF Cancel
  <1>14. CASE StartAttempt(d)
    <2>1. /\ registry.status # "absent" /\ run[d].id = registry.id /\ Unsettled
          /\ child' = {registry.id}
      BY <1>3, <1>7, <1>14 DEF StartAttempt, At, Works, Stage
    <2>2. Disk'  BY <1>3, <1>14 DEF StartAttempt, disk, Disk
    <2>3. pc'[d] = "running"  BY <1>2, <1>14, Went DEF StartAttempt, Goto
    <2>4. Children'  BY <1>14, <2>1, <2>3 DEF StartAttempt, disk, Children
    <2>5. pc'[d] = "running" => Works(d)' /\ Stage(d)'
      BY <1>14, <2>1 DEF StartAttempt, disk, Works, Stage, Unsettled
    <2> QED  BY <1>5, <1>8, <1>14, <2>2, <2>4, <2>5 DEF StartAttempt
  <1>15. ASSUME NEW kind \in Kinds \ {"none"}, AttemptEnds(d, kind)  PROVE IInv'
    <2> DEFINE i == run[d].id
               valid == files[i] = "valid"
               k == IF valid THEN kind ELSE "other"
    <2>1. /\ registry.status # "absent" /\ i = registry.id /\ child' = {}
          /\ files' = files /\ tombs' = tombs
      BY <1>3, <1>15 DEF AttemptEnds, At, Works, Children
    <2>2. /\ registry'.id = i /\ registry'.status # "absent"
          /\ valid => registry'.status = IF kind = "success" THEN "settled" ELSE "running"
      <3>1. CASE valid /\ kind = "success"
        <4>1. SaveRegistry(i, "settled")  BY <1>15, <3>1 DEF AttemptEnds
        <4> QED  BY <1>1, <1>2, <1>4, <3>1, <4>1, Saved
      <3>2. CASE valid /\ kind # "success"
        <4>1. SaveRegistry(i, "running")  BY <1>15, <3>2 DEF AttemptEnds
        <4> QED  BY <1>1, <1>2, <1>4, <3>2, <4>1, Saved
      <3>3. CASE ~valid
        <4>1. Quarantine(i)  BY <1>15, <3>3 DEF AttemptEnds
        <4> QED  BY <1>1, <1>2, <2>1, <3>3, <4>1, Quarantined
      <3> QED  BY <3>1, <3>2, <3>3
    <2>3. run'[d].id = i /\ run'[d].broken = ~valid /\ run'[d].kind = k
      <3> DEFINE w == ~valid
      <3>1. w \in BOOLEAN /\ valid \in BOOLEAN  OBVIOUS
      <3>2. k \in Kinds  BY DEF Kinds
      <3>3. run' = Ended(run, d, valid, w, k)  BY <1>15 DEF AttemptEnds, Ended
      <3>4. run'[d].id = i /\ run'[d].broken = w /\ run'[d].kind = k
        <4> HIDE DEF valid, k, w
        <4> QED  BY <1>2, <3>1, <3>2, <3>3, RunEnded
      <3> QED  BY <3>4
    <2>4. Disk' /\ Children'  BY <1>3, <2>1, <2>2 DEF Disk, Children
    <2>5. pc'[d] = "recorded" => Works(d)' /\ Stage(d)'
      BY <2>1, <2>2, <2>3 DEF Works, Stage
    <2> QED  BY <1>5, <1>8, <1>15, <2>4, <2>5 DEF AttemptEnds
  <1>16. CASE AttemptUnrecorded(d)
    <2>1. registry.status # "absent" /\ run[d].id = registry.id /\ child' = {}
      BY <1>3, <1>16 DEF AttemptUnrecorded, At, Works, Children
    <2>2. run'[d].id = run[d].id  BY <1>2, <1>16, RunSeen DEF AttemptUnrecorded
    <2>3. Disk' /\ Children'  BY <1>3, <1>16, <2>1 DEF AttemptUnrecorded, disk, Disk, Children
    <2>4. pc'[d] = "finishing" => Works(d)' /\ Stage(d)'
      BY <1>16, <2>1, <2>2 DEF AttemptUnrecorded, disk, Works, Stage
    <2> QED  BY <1>5, <1>8, <1>16, <2>3, <2>4 DEF AttemptUnrecorded
  <1>17. CASE Conclude(d)
    <2> DEFINE status == IF run[d].kind = "cancelled" THEN "cancelled" ELSE "failed"
    <2>1. registry.status # "absent" /\ run[d].id = registry.id
      BY <1>3, <1>17 DEF Conclude, At, Works
    <2>2. SaveRegistry(run[d].id, status) \/ registry' = registry  BY <1>17 DEF Conclude
    <2>3. status \in Statuses /\ status # "absent"  BY <1>4
    <2>4. registry'.id = registry.id /\ registry'.status # "absent"
      <3> HIDE DEF status
      <3> QED  BY <1>1, <1>2, <2>1, <2>2, <2>3, Saved
    <2>5. Disk' /\ Children'
      BY <1>3, <1>7, <1>17, <2>1, <2>4 DEF Conclude, At, Disk, Children
    <2>6. pc'[d] = "finishing" => Works(d)' /\ Stage(d)'
      BY <1>17, <2>1, <2>4 DEF Conclude, Works, Stage
    <2> QED  BY <1>5, <1>8, <1>17, <2>5, <2>6 DEF Conclude
  <1>18. CASE Pause(d)
    <2>1. /\ registry.status = "running" /\ run[d].id = registry.id
          /\ files[run[d].id] = "valid"
      BY <1>3, <1>18 DEF Pause, At, Works, Stage
    <2>2. Disk' /\ Children'  BY <1>3, <1>7, <1>18 DEF Pause, At, disk, Disk, Children
    <2>3. pc'[d] = "sleeping" => Works(d)' /\ Stage(d)'
      BY <1>18, <2>1 DEF Pause, disk, Works, Stage, Unsettled
    <2> QED  BY <1>5, <1>8, <1>18, <2>2, <2>3 DEF Pause
  <1>19. CASE Retry(d)
    <2>1. /\ Unsettled /\ registry.status # "absent" /\ run[d].id = registry.id
          /\ files[run[d].id] = "valid"
      BY <1>3, <1>19 DEF Retry, At, Works, Stage
    <2>2. run'[d].id = run[d].id  BY <1>2, <1>19, RunRetried DEF Retry
    <2>3. Disk' /\ Children'  BY <1>3, <1>7, <1>19 DEF Retry, At, disk, Disk, Children
    <2>4. pc'[d] = "ready" => Works(d)' /\ Stage(d)'
      BY <1>19, <2>1, <2>2 DEF Retry, disk, Works, Stage, Unsettled
    <2> QED  BY <1>5, <1>8, <1>19, <2>3, <2>4 DEF Retry
  <1>20. CASE Fallback(d)
    <2>1. /\ registry.status = "running" /\ run[d].id = registry.id
          /\ files[run[d].id] = "valid"
      BY <1>3, <1>20 DEF Fallback, At, Works, Stage
    <2>2. run'[d].id = run[d].id  BY <1>2, <1>20, RunFellBack DEF Fallback
    <2>3. Disk' /\ Children'  BY <1>3, <1>7, <1>20 DEF Fallback, At, disk, Disk, Children
    <2>4. pc'[d] = "ready" => Works(d)' /\ Stage(d)'
      BY <1>20, <2>1, <2>2 DEF Fallback, disk, Works, Stage, Unsettled
    <2> QED  BY <1>5, <1>8, <1>20, <2>3, <2>4 DEF Fallback
  <1>21. CASE Exhaust(d)
    <2>1. /\ registry.status # "absent" /\ run[d].id = registry.id
          /\ SaveRegistry(run[d].id, "recoverable_failed")
      BY <1>3, <1>21 DEF Exhaust, At, Works
    <2>2. registry'.id = registry.id /\ registry'.status = "recoverable_failed"
      BY <1>1, <1>2, <1>4, <2>1, Saved
    <2>3. Disk' /\ Children'
      BY <1>3, <1>7, <1>21, <2>1, <2>2 DEF Exhaust, At, Disk, Children
    <2>4. pc'[d] = "finishing" => Works(d)' /\ Stage(d)'
      BY <1>21, <2>1, <2>2 DEF Exhaust, Works, Stage
    <2> QED  BY <1>5, <1>8, <1>21, <2>3, <2>4 DEF Exhaust
  <1>22. CASE Throw(d)
    <2>1. Disk' /\ Children'
      BY <1>3, <1>7, <1>22 DEF Throw, At, disk, Disk, Children
    <2>2. CASE At(d, "entered") /\ Goto(d, "releasing")
      <3>1. pc'[d] = "releasing" => Works(d)' /\ Stage(d)'  BY DEF Works, Stage
      <3> QED  BY <1>5, <1>8, <1>22, <2>1, <2>2, <3>1 DEF Throw
    <2>3. CASE pc[d] \in {"ready", "recorded", "sleeping"} /\ Goto(d, "finishing")
      <3>1. registry.status # "absent" /\ run[d].id = registry.id  BY <1>3, <2>3 DEF Works
      <3>2. pc'[d] = "finishing" => Works(d)' /\ Stage(d)'
        BY <1>22, <3>1 DEF Throw, disk, Works, Stage
      <3> QED  BY <1>5, <1>8, <1>22, <2>1, <2>3, <3>2 DEF Throw
    <2> QED  BY <1>22, <2>2, <2>3 DEF Throw
  <1>23. CASE Finally(d)
    <2>1. /\ registry.status # "absent" /\ run[d].id = registry.id
          /\ Quarantine(run[d].id) \/ registry' = registry
      BY <1>3, <1>23 DEF Finally, At, Works
    <2>2. registry'.id = registry.id /\ registry'.status # "absent"
      BY <1>1, <1>2, <2>1, Quarantined
    <2>3. Disk' /\ Children'
      BY <1>3, <1>7, <1>23, <2>1, <2>2 DEF Finally, At, Disk, Children
    <2>4. pc'[d] = "releasing" => Works(d)' /\ Stage(d)'  BY DEF Works, Stage
    <2> QED  BY <1>5, <1>8, <1>23, <2>3, <2>4 DEF Finally
  <1> QED
    BY <1>9, <1>10, <1>11, <1>12, <1>13, <1>14, <1>15, <1>16, <1>17, <1>18, <1>19, <1>20,
       <1>21, <1>22, <1>23 DEF Dispatch

LEMMA CollectKeeps ==
  ASSUME IInv, NEW g \in Collectors, Collect(g)
  PROVE  IInv'
  <1>1. TypeOK' /\ TypeOK  BY TypeCollect DEF IInv
  <1>2. /\ g \in Procs /\ g \notin Dispatchers /\ g # NoProc
        /\ pc \in [Procs -> DispatchPcs \cup CollectPcs]
    BY <1>1, ChildSessionAssumption DEF TypeOK, Procs
  <1>3. Disk /\ Children /\ Held  BY DEF IInv
  <1>4. /\ CollectPcs = {"idle", "listed", "tombstone", "registry", "recover", "metadata", "erase",
                         "unmark", "releasing"}
        /\ Away = {"idle", "listed"}
    BY DEF CollectPcs, Away
  (* A collection without the lock changes nothing but its listing.        *)
  <1>5. ASSUME NEW place \in Away, KeepLock,
               Goto(g, place) \/ UNCHANGED pc, At(g, "idle") \/ At(g, "listed"),
               UNCHANGED <<disk, child, nextId, run>>
        PROVE  IInv'
    <2>1. /\ pc'[g] \in Away /\ pc'[g] \in CollectPcs
          /\ \A q \in Procs \ {g} : pc'[q] = pc[q]
      <3>1. CASE Goto(g, place)  BY <1>2, <1>4, <1>5, <3>1, Went
      <3>2. CASE UNCHANGED pc  BY <1>2, <1>3, <1>4, <1>5, <3>2 DEF At
      <3> QED  BY <1>5, <3>1, <3>2
    <2>2. Held'  BY <1>2, <1>3, <1>5, <2>1 DEF Held, KeepLock, Procs
    <2>3. Disk'  BY <1>3, <1>5 DEF disk, Disk
    <2>4. \A d \in Dispatchers : pc'[d] = pc[d]  BY <1>2, <2>1 DEF Procs
    <2>5. Children'  BY <1>3, <1>5, <2>4 DEF disk, Children, KeepLock
    <2>6. ASSUME NEW d \in Dispatchers  PROVE Works(d)' /\ Stage(d)'
      <3>1. Works(d) /\ Stage(d)  BY DEF IInv
      <3> QED  BY <1>5, <2>4, <3>1 DEF disk, Works, Stage, Unsettled, NoFiles
    <2>7. ASSUME NEW h \in Collectors  PROVE Erased(h)'
      <3>1. Erased(h)  BY DEF IInv
      <3>2. CASE h = g  BY <1>4, <2>1, <3>2 DEF Erased
      <3>3. CASE h # g
        <4>1. pc'[h] = pc[h]  BY <2>1, <3>3 DEF Procs
        <4> QED  BY <1>5, <3>1, <4>1 DEF disk, Erased, NoFiles
      <3> QED  BY <3>2, <3>3
    <2> QED  BY <1>1, <2>2, <2>3, <2>5, <2>6, <2>7 DEF IInv
  (* One that takes the lock finds nobody.                                 *)
  <1>6. ASSUME Acquire(g), NEW place \in CollectPcs \ {"metadata", "unmark"}, Goto(g, place),
               UNCHANGED <<disk, child, nextId, run>>
        PROVE  IInv'
    <2>1. child = {} /\ \A p \in Procs : pc[p] \in Away  BY <1>6, Nobody DEF Acquire
    <2>2. pc'[g] = place /\ \A q \in Procs \ {g} : pc'[q] = pc[q]  BY <1>2, <1>6, Went
    <2>3. Disk' /\ Children'  BY <1>3, <1>6, <2>1 DEF disk, Disk, Children
    <2>4. Erased(g)'  BY <1>6, <2>2 DEF Erased
    <2> QED  BY <1>1, <1>2, <1>6, <2>1, <2>2, <2>3, <2>4, OneMoves DEF Acquire
  (* One that has it is alone, and no child writes.                        *)
  <1>7. ASSUME KeepLock, pc[g] \notin Away, NEW place \in CollectPcs, Goto(g, place),
               child' = child, Disk', pc'[g] = place => Erased(g)'
        PROVE  IInv'
    <2>1. /\ holder = g /\ ~stale /\ child = {}
          /\ \A q \in Procs \ {g} : pc[q] \in Away
      BY <1>2, <1>7, Alone
    <2>2. pc'[g] = place /\ \A q \in Procs \ {g} : pc'[q] = pc[q]  BY <1>2, <1>7, Went
    <2>3. Children'  BY <1>7, <2>1 DEF Children
    <2> QED  BY <1>1, <1>2, <1>7, <2>1, <2>2, <2>3, OneMoves DEF KeepLock
  <1>8. CASE List(g)  BY <1>4, <1>5, <1>8 DEF List
  <1>9. CASE TakeTombstone(g)
    <2>1. \/ Acquire(g) /\ Goto(g, "tombstone")
          \/ KeepLock /\ UNCHANGED pc
      BY <1>9 DEF TakeTombstone
    <2>2. At(g, "listed") /\ UNCHANGED <<disk, child, nextId, run>>  BY <1>9 DEF TakeTombstone
    <2> QED  BY <1>4, <1>5, <1>6, <2>1, <2>2
  <1>10. CASE TakeRegistry(g)
    <2>1. \/ Acquire(g) /\ Goto(g, "registry")
          \/ KeepLock /\ UNCHANGED pc
      BY <1>10 DEF TakeRegistry
    <2>2. At(g, "listed") /\ UNCHANGED <<disk, child, nextId, run>>  BY <1>10 DEF TakeRegistry
    <2> QED  BY <1>4, <1>5, <1>6, <2>1, <2>2
  <1>11. CASE Finish(g)  BY <1>4, <1>5, <1>11 DEF Finish
  <1>12. CASE Pinned(g)
    <2>1. Disk'  BY <1>3, <1>12 DEF Pinned, disk, Disk
    <2>2. pc'[g] = "releasing" => Erased(g)'  BY DEF Erased
    <2> QED  BY <1>4, <1>7, <1>12, <2>1, <2>2 DEF Pinned, At
  <1>13. CASE OpenTombstone(g)
    <2>1. Disk'  BY <1>3, <1>13 DEF OpenTombstone, Disk
    <2>2. pc'[g] = "recover" => Erased(g)'  BY DEF Erased
    <2> QED  BY <1>4, <1>7, <1>13, <2>1, <2>2 DEF OpenTombstone, At
  <1>14. CASE Bury(g)
    <2>1. registry.id \in Ids /\ tombs = {}  BY <1>3, <1>14 DEF Bury, PastRetention, Disk
    <2>2. Disk'  BY <1>3, <1>14, <2>1, NoRegistryTyped DEF Bury, Disk
    <2>3. pc'[g] = "erase" => Erased(g)'  BY DEF Erased
    <2> QED  BY <1>4, <1>7, <1>14, <2>2, <2>3 DEF Bury, At
  <1>15. CASE Fresh(g)
    <2>1. Disk'  BY <1>3, <1>15 DEF Fresh, disk, Disk
    <2>2. pc'[g] = "releasing" => Erased(g)'  BY DEF Erased
    <2> QED  BY <1>4, <1>7, <1>15, <2>1, <2>2 DEF Fresh, At
  <1>16. CASE EraseSessions(g)
    <2>1. NoFiles'  BY <1>16 DEF EraseSessions, NoFiles
    <2>2. Disk'  BY <1>3, <1>16, <2>1 DEF EraseSessions, Disk, NoFiles
    <2>3. Erased(g)'  BY <2>1 DEF Erased
    <2> QED  BY <1>4, <1>7, <1>16, <2>2, <2>3 DEF EraseSessions, At
  <1>17. CASE EraseRegistry(g)
    <2>1. NoFiles  BY <1>17 DEF EraseRegistry, At, IInv, Erased
    <2>2. NoFiles'  BY <1>17, <2>1 DEF EraseRegistry, NoFiles
    <2>3. Disk'  BY <1>3, <1>17, <2>2, NoRegistryTyped DEF EraseRegistry, Disk, NoFiles
    <2>4. Erased(g)'  BY <2>2 DEF Erased
    <2> QED  BY <1>4, <1>7, <1>17, <2>3, <2>4 DEF EraseRegistry, At
  <1>18. CASE Unmark(g)
    <2>1. NoFiles  BY <1>18 DEF Unmark, At, IInv, Erased
    <2>2. Disk'  BY <1>3, <1>18, <2>1 DEF Unmark, Disk, NoFiles
    <2>3. pc'[g] = "releasing" => Erased(g)'  BY DEF Erased
    <2> QED  BY <1>4, <1>7, <1>18, <2>2, <2>3 DEF Unmark, At
  <1>19. CASE RmFails(g)
    <2>1. Disk'  BY <1>3, <1>19 DEF RmFails, disk, Disk
    <2>2. pc'[g] = "releasing" => Erased(g)'  BY DEF Erased
    <2> QED  BY <1>4, <1>7, <1>19, <2>1, <2>2 DEF RmFails
  <1> QED
    BY <1>8, <1>9, <1>10, <1>11, <1>12, <1>13, <1>14, <1>15, <1>16, <1>17, <1>18, <1>19
    DEF Collect

Rest ==
  \/ \E p \in Procs : Leave(p) \/ Crash(p)
  \/ \E i \in Ids : ChildWrites(i) \/ OrphanExits(i) \/ Ages(i)
  \/ PinExpires \/ CreatePin \/ ReleasePin
  \/ UNCHANGED vars

LEMMA RestKeeps ==
  ASSUME IInv, Rest
  PROVE  IInv'
  <1>1. TypeOK' /\ TypeOK  BY TypeRest DEF IInv, Rest
  <1>2. Disk /\ Children /\ Held  BY DEF IInv
  <1>3. pc \in [Procs -> DispatchPcs \cup CollectPcs] /\ run \in [Dispatchers -> Run]
    BY <1>1 DEF TypeOK
  <1>4. /\ Away = {"idle", "listed"} /\ "idle" \in DispatchPcs /\ "idle" \in CollectPcs
        /\ "listed" \in CollectPcs
    BY DEF Away, DispatchPcs, CollectPcs
  <1>5. ASSUME NEW p \in Procs, Leave(p)  PROVE IInv'
    <2>1. pc[p] \notin Away  BY <1>4, <1>5 DEF Leave, At
    <2>2. /\ holder = p /\ ~stale /\ child = {}
          /\ \A q \in Procs \ {p} : pc[q] \in Away
      BY <1>5, <2>1, Alone DEF Leave, At
    <2> DEFINE place == IF p \in Collectors THEN "listed" ELSE "idle"
    <2>3. place \in CollectPcs /\ place \in Away /\ (p \in Dispatchers => place \in DispatchPcs)
      BY <1>4, ChildSessionAssumption
    <2>4. Goto(p, place)  BY <1>5 DEF Leave
    <2>5. pc'[p] = place /\ \A q \in Procs \ {p} : pc'[q] = pc[q]
      <3> HIDE DEF place
      <3> QED  BY <1>3, <2>3, <2>4, Went
    <2>6. Disk' /\ Children'  BY <1>2, <1>5, <2>2 DEF Leave, disk, Disk, Children
    <2>7. Works(p)' /\ Stage(p)' /\ Erased(p)'  BY <1>4, <2>3, <2>5 DEF Works, Stage, Erased
    <2>8. ~stale'  BY <1>5, <2>2 DEF Leave, Release
    <2> HIDE DEF place
    <2> QED  BY <1>1, <2>2, <2>3, <2>5, <2>6, <2>7, <2>8, OneMoves
  <1>6. ASSUME NEW p \in Procs, Crash(p)  PROVE IInv'
    <2>1. pc'[p] = "idle" /\ \A q \in Procs \ {p} : pc'[q] = pc[q]
      BY <1>3, <1>4, <1>6, Went DEF Crash
    <2>2. holder' = holder /\ stale' = (stale \/ holder = p) /\ child' = child
      BY <1>6 DEF Crash
    <2>3. p # NoProc  BY ChildSessionAssumption DEF Procs
    <2>4. Held'
      <3>1. ASSUME NEW q \in Procs, pc'[q] \notin Away  PROVE holder' = q /\ ~stale'
        <4>1. q # p  BY <1>4, <2>1, <3>1
        <4> QED  BY <1>2, <2>1, <2>2, <3>1, <4>1 DEF Held
      <3>2. stale' => holder' # NoProc  BY <1>2, <2>2, <2>3 DEF Held
      <3> QED  BY <1>2, <1>4, <2>1, <3>1, <3>2 DEF Held, Procs
    <2>5. Disk'  BY <1>2, <1>6 DEF Crash, disk, Disk
    <2>6. Children'
      <3>1. ASSUME NEW d \in Dispatchers, pc[d] = "running"
            PROVE  stale' \/ pc'[d] = "running"
        <4>1. d \in Procs /\ holder = d  BY <1>2, <1>4, <3>1 DEF Held, Procs
        <4> QED  BY <2>1, <2>2, <3>1, <4>1
      <3> QED  BY <1>2, <1>6, <2>2, <3>1 DEF Crash, disk, Children
    <2>7. ASSUME NEW d \in Dispatchers  PROVE Works(d)' /\ Stage(d)'
      <3>1. CASE d = p  BY <2>1, <3>1 DEF Works, Stage
      <3>2. CASE d # p
        <4>1. pc'[d] = pc[d] /\ run'[d] = run[d]  BY <1>6, <2>1, <3>2 DEF Crash, Procs
        <4>2. Works(d) /\ Stage(d)  BY DEF IInv
        <4> QED  BY <1>6, <4>1, <4>2 DEF Crash, disk, Works, Stage, Unsettled, NoFiles
      <3> QED  BY <3>1, <3>2
    <2>8. ASSUME NEW g \in Collectors  PROVE Erased(g)'
      <3>1. Erased(g) /\ g \in Procs  BY DEF IInv, Procs
      <3> QED  BY <1>6, <2>1, <3>1 DEF Crash, disk, Erased, NoFiles
    <2> QED  BY <1>1, <2>4, <2>5, <2>6, <2>7, <2>8 DEF IInv
  <1>7. ASSUME NEW i \in Ids, ChildWrites(i)  PROVE IInv'
    <2>1. i \in child /\ i = registry.id /\ registry.status # "absent"
      BY <1>2, <1>7 DEF ChildWrites, Children
    <2>2. PICK content \in {"partial", "valid"} : files' = [files EXCEPT ![i] = content]
      BY <1>7 DEF ChildWrites
    <2>3. \A j \in Ids \ {i} : files'[j] = files[j]  BY <1>1, <2>2 DEF TypeOK
    <2>4. Disk'  BY <1>2, <1>7, <2>1, <2>3 DEF ChildWrites, Disk
    <2>5. Held' /\ Children'  BY <1>2, <1>7 DEF ChildWrites, Held, Children
    <2>6. ASSUME NEW d \in Dispatchers  PROVE Works(d)' /\ Stage(d)'
      <3>1. pc[d] \in Away \/ pc[d] = "running"  BY <2>1, Alone DEF Procs
      <3>2. Works(d) /\ Stage(d)  BY DEF IInv
      <3> QED  BY <1>4, <1>7, <3>1, <3>2 DEF ChildWrites, Works, Stage, Unsettled
    <2>7. ASSUME NEW g \in Collectors  PROVE Erased(g)'
      <3>1. g \in Procs /\ g \notin Dispatchers  BY ChildSessionAssumption DEF Procs
      <3>2. pc[g] \in Away  BY <2>1, <3>1, Alone
      <3> QED  BY <1>4, <1>7, <3>2 DEF ChildWrites, Erased
    <2> QED  BY <1>1, <2>4, <2>5, <2>6, <2>7 DEF IInv
  <1>8. ASSUME child' \subseteq child,
               UNCHANGED <<holder, stale, registry, tombs, files, pc, run>>
        PROVE  IInv'
    <2>1. Held' /\ Disk' /\ Children'  BY <1>2, <1>8 DEF Held, Disk, Children
    <2>2. ASSUME NEW d \in Dispatchers  PROVE Works(d)' /\ Stage(d)'
      <3>1. Works(d) /\ Stage(d)  BY DEF IInv
      <3> QED  BY <1>8, <3>1 DEF Works, Stage, Unsettled, NoFiles
    <2>3. ASSUME NEW g \in Collectors  PROVE Erased(g)'
      <3>1. Erased(g)  BY DEF IInv
      <3> QED  BY <1>8, <3>1 DEF Erased, NoFiles
    <2> QED  BY <1>1, <2>1, <2>2, <2>3 DEF IInv
  <1>9. ASSUME NEW i \in Ids, OrphanExits(i) \/ Ages(i)  PROVE IInv'
    BY <1>8, <1>9 DEF OrphanExits, Ages, disk
  <1>10. CASE PinExpires \/ CreatePin \/ ReleasePin
    BY <1>8, <1>10 DEF PinExpires, CreatePin, ReleasePin
  <1>11. CASE UNCHANGED vars  BY <1>8, <1>11 DEF vars
  <1> QED  BY <1>5, <1>6, <1>7, <1>9, <1>10, <1>11 DEF Rest

LEMMA NextIs ==
  [Next]_vars <=>
    \/ \E d \in Dispatchers : Enter(d) \/ Dispatch(d)
    \/ \E g \in Collectors : Collect(g)
    \/ Rest
  BY DEF Next, Rest

-----------------------------------------------------------------------------
LEMMA Invariance == Spec => []IInv
  <1>1. Init => IInv
    <2> SUFFICES ASSUME Init  PROVE IInv
      OBVIOUS
    <2>1. TypeOK  BY TypeInit
    <2>2. \A p \in Procs : pc[p] = "idle"  BY DEF Init
    <2>3. Held  BY <2>2 DEF Init, Held, Away, DispatchPcs, CollectPcs, Procs
    <2>4. Disk /\ Children  BY NoRegistryTyped DEF Init, Disk, Children
    <2>5. \A d \in Dispatchers : Works(d) /\ Stage(d)  BY <2>2 DEF Procs, Works, Stage
    <2>6. \A g \in Collectors : Erased(g)  BY <2>2 DEF Procs, Erased
    <2> QED  BY <2>1, <2>3, <2>4, <2>5, <2>6 DEF IInv
  <1>2. IInv /\ [Next]_vars => IInv'
    BY NextIs, DispatchKeeps, CollectKeeps, RestKeeps
  <1> QED  BY <1>1, <1>2, PTL DEF Spec

(* Every reachable state of a child session is well typed.                 *)
THEOREM TypeCorrect == Spec => []TypeOK
  <1>1. IInv => TypeOK  BY DEF IInv
  <1> QED  BY <1>1, Invariance, PTL

(* A logical handle never has two histories on disk: dispatcher.ts starts  *)
(* a session only where gc.ts has finished the deletion of the last one,   *)
(* however many dispatches and collections interleave and are killed.      *)
THEOREM SingleHistory == Spec => []OneHistory
  <1>1. IInv => OneHistory  BY DEF IInv, Disk, OneHistory
  <1> QED  BY <1>1, Invariance, PTL

-----------------------------------------------------------------------------
(* Only the start of an attempt adds a child.                              *)
LEMMA WhoStartsChildren ==
  ASSUME [Next]_vars
  PROVE  child' \subseteq child \/ \E d \in Dispatchers : StartAttempt(d)
  <1>1. ASSUME NEW d \in Dispatchers, Enter(d) \/ Dispatch(d), ~StartAttempt(d)
        PROVE  child' \subseteq child
    BY <1>1
    DEF Dispatch, Enter, Refuse, Resume, RejectSession, Create, Cancel, AttemptEnds,
        AttemptUnrecorded, Conclude, Pause, Retry, Fallback, Exhaust, Throw, Finally, disk
  <1>2. ASSUME NEW g \in Collectors, Collect(g)  PROVE child' \subseteq child
    BY <1>2
    DEF Collect, List, TakeTombstone, TakeRegistry, Finish, Pinned, OpenTombstone, Bury, Fresh,
        EraseSessions, EraseRegistry, Unmark, RmFails
  <1>3. CASE Rest
    BY <1>3
    DEF Rest, Leave, Crash, ChildWrites, OrphanExits, Ages, PinExpires, CreatePin, ReleasePin, vars
  <1> QED  BY <1>1, <1>2, <1>3, NextIs

(* A first child or a valid history, and nothing else: attempts are        *)
(* retried only after a session was validated (dispatcher.ts).             *)
THEOREM HistoryIsValid == Spec => NeverOverLostHistory
  <1> DEFINE Sound ==
        \A i \in child' \ child :
          \/ files[i] = "valid"
          \/ registry = [status |-> "creating", id |-> i] /\ \A j \in Ids : files[j] = "none"
  <1>1. IInv /\ [Next]_vars => [Sound]_vars
    <2> SUFFICES ASSUME IInv, [Next]_vars, NEW i \in child' \ child
                 PROVE  \/ files[i] = "valid"
                        \/ /\ registry = [status |-> "creating", id |-> i]
                           /\ \A j \in Ids : files[j] = "none"
      OBVIOUS
    <2>1. PICK d \in Dispatchers : StartAttempt(d)  BY WhoStartsChildren
    <2>2. i = run[d].id /\ pc[d] = "ready"  BY <2>1 DEF StartAttempt, At
    <2>3. registry.id = i /\ Stage(d)  BY <2>2 DEF IInv, Works
    <2>4. registry = [status |-> registry.status, id |-> registry.id]
      BY DEF IInv, TypeOK, Registry
    <2> QED  BY <2>2, <2>3, <2>4 DEF Stage, NoFiles
  <1> QED  BY <1>1, Invariance, PTL DEF Spec, NeverOverLostHistory

-----------------------------------------------------------------------------
(* Quarantine is final when one collection runs at a time: what its        *)
(* listing calls a tombstone is still one when it is taken up.             *)
OneCollection == \A g, h \in Collectors : g = h

Swept(g) ==
  /\ sweep[g].tombs \subseteq tombs
  /\ sweep[g].target \notin sweep[g].tombs
  /\ pc[g] = "registry" => sweep[g].tombs = {}
  /\ pc[g] \in {"tombstone", "recover", "metadata"} => tombs # {}

SweepInv == \A g \in Collectors : Swept(g)

LEMMA DispatchGoes ==
  ASSUME NEW d \in Dispatchers, Enter(d) \/ Dispatch(d)
  PROVE  \E place \in DispatchPcs : Goto(d, place)
  <1>1. CASE Enter(d) \/ Refuse(d) \/ Resume(d) \/ RejectSession(d) \/ Create(d)
    BY <1>1 DEF Enter, Refuse, Resume, RejectSession, Create, DispatchPcs
  <1>2. CASE Cancel(d) \/ StartAttempt(d) \/ AttemptUnrecorded(d) \/ Conclude(d) \/ Pause(d)
    BY <1>2 DEF Cancel, StartAttempt, AttemptUnrecorded, Conclude, Pause, DispatchPcs
  <1>3. CASE Retry(d) \/ Fallback(d) \/ Exhaust(d) \/ Throw(d) \/ Finally(d)
    BY <1>3 DEF Retry, Fallback, Exhaust, Throw, Finally, DispatchPcs
  <1>4. CASE \E kind \in Kinds \ {"none"} : AttemptEnds(d, kind)
    BY <1>4 DEF AttemptEnds, DispatchPcs
  <1> QED  BY <1>1, <1>2, <1>3, <1>4 DEF Dispatch

LEMMA SweepKept ==
  ASSUME OneCollection, IInv, SweepInv, [Next]_vars
  PROVE  SweepInv'
  <1>1. TypeOK  BY DEF IInv
  <1>2. pc \in [Procs -> DispatchPcs \cup CollectPcs] /\ sweep \in [Collectors -> Sweep]
    BY <1>1 DEF TypeOK
  <1>3. ASSUME tombs' = tombs, sweep' = sweep, \A g \in Collectors : pc'[g] = pc[g]  PROVE SweepInv'
    BY <1>3 DEF SweepInv, Swept
  <1>4. ASSUME NEW d \in Dispatchers, Enter(d) \/ Dispatch(d)  PROVE SweepInv'
    <2>1. tombs' = tombs /\ sweep' = sweep /\ \E place \in DispatchPcs : Goto(d, place)
      BY <1>4, DispatchGoes
      DEF Dispatch, Enter, Refuse, Resume, RejectSession, Create, Cancel, StartAttempt, AttemptEnds,
          AttemptUnrecorded, Conclude, Pause, Retry, Fallback, Exhaust, Throw, Finally, disk
    <2>2. \A g \in Collectors : g # d /\ g \in Procs  BY ChildSessionAssumption DEF Procs
    <2> QED  BY <1>2, <1>3, <2>1, <2>2 DEF Goto
  <1>5. ASSUME NEW g \in Collectors, Collect(g)  PROVE SweepInv'
    <2> SUFFICES Swept(g)'  BY DEF OneCollection, SweepInv
    <2>1. Swept(g) /\ g \in Procs /\ sweep[g] \in Sweep  BY <1>2 DEF SweepInv, Procs
    <2>2. sweep[g].tombs \subseteq Ids /\ sweep[g].target \in 0..MaxIds  BY <2>1, SweepTypes
    <2>3. /\ "listed" \in CollectPcs /\ "tombstone" \in CollectPcs /\ "registry" \in CollectPcs
          /\ "recover" \in CollectPcs /\ "metadata" \in CollectPcs /\ "erase" \in CollectPcs
          /\ "unmark" \in CollectPcs /\ "releasing" \in CollectPcs /\ "idle" \in CollectPcs
      BY DEF CollectPcs
    <2>4. ASSUME NEW place \in CollectPcs, Goto(g, place)  PROVE pc'[g] = place
      BY <1>2, <2>1, <2>4, Went
    <2>5. CASE List(g)
      <3>1. tombs \in SUBSET Ids  BY <1>1 DEF TypeOK
      <3>2. PICK b \in BOOLEAN : sweep' = Listed(sweep, g, tombs, b)  BY <2>5 DEF List, Listed
      <3>3. sweep'[g].tombs = tombs /\ sweep'[g].target = 0
        BY <1>2, <3>1, <3>2, SweepListed
      <3>4. tombs' = tombs /\ pc'[g] = "listed"  BY <2>3, <2>4, <2>5 DEF List, disk
      <3>5. 0 \notin tombs  BY <3>1, ChildSessionAssumption DEF Ids
      <3> QED  BY <3>3, <3>4, <3>5 DEF Swept
    <2>6. CASE TakeTombstone(g)
      <3>1. PICK t \in sweep[g].tombs :
              \/ /\ Acquire(g) /\ Goto(g, "tombstone")
                 /\ sweep' = [sweep EXCEPT ![g].tombs = @ \ {t}, ![g].target = t]
              \/ /\ ~LockIsFree /\ KeepLock /\ UNCHANGED pc
                 /\ sweep' = [sweep EXCEPT ![g].tombs = @ \ {t}]
        BY <2>6 DEF TakeTombstone
      <3>2. t \in Ids /\ tombs' = tombs /\ pc[g] = "listed"  BY <2>2, <2>6 DEF TakeTombstone, disk, At
      <3>3. CASE /\ Goto(g, "tombstone")
                 /\ sweep' = [sweep EXCEPT ![g].tombs = @ \ {t}, ![g].target = t]
        <4>1. sweep'[g].tombs = sweep[g].tombs \ {t} /\ sweep'[g].target = t
          BY <1>2, <3>2, <3>3, SweepTook
        <4>2. pc'[g] = "tombstone"  BY <2>3, <2>4, <3>3
        <4> QED  BY <2>1, <3>2, <4>1, <4>2 DEF Swept
      <3>4. CASE UNCHANGED pc /\ sweep' = [sweep EXCEPT ![g].tombs = @ \ {t}]
        <4>1. sweep'[g].tombs = sweep[g].tombs \ {t} /\ sweep'[g].target = sweep[g].target
          BY <1>2, <3>2, <3>4, SweepSkipped
        <4> QED  BY <2>1, <3>2, <3>4, <4>1 DEF Swept
      <3> QED  BY <3>1, <3>3, <3>4
    <2>7. CASE TakeRegistry(g)
      <3>1. sweep'[g].tombs = sweep[g].tombs /\ sweep'[g].target = sweep[g].target
        BY <1>2, <2>7, SweepTurned DEF TakeRegistry
      <3>2. pc'[g] \in {"registry", "listed"}  BY <2>3, <2>4, <2>7 DEF TakeRegistry, At
      <3>3. sweep[g].tombs = {} /\ tombs' = tombs  BY <2>7 DEF TakeRegistry, disk
      <3> QED  BY <3>1, <3>2, <3>3 DEF Swept
    <2>8. CASE Finish(g)
      <3>1. sweep'[g] = NoSweep /\ pc'[g] = "idle"  BY <1>2, <2>3, <2>4, <2>8 DEF Finish
      <3> QED  BY <3>1, NoSweepTyped DEF Swept
    <2>9. CASE Pinned(g) \/ Fresh(g) \/ RmFails(g)
      <3>1. pc'[g] = "releasing"  BY <2>3, <2>4, <2>9 DEF Pinned, Fresh, RmFails
      <3>2. tombs' = tombs /\ sweep' = sweep  BY <2>9 DEF Pinned, Fresh, RmFails, disk
      <3> QED  BY <2>1, <3>1, <3>2 DEF Swept
    <2>10. CASE OpenTombstone(g)
      <3>1. pc'[g] = "recover" /\ pc[g] = "tombstone"  BY <2>3, <2>4, <2>10 DEF OpenTombstone, At
      <3>2. tombs' = tombs /\ sweep' = sweep  BY <2>10 DEF OpenTombstone
      <3> QED  BY <2>1, <3>1, <3>2 DEF Swept
    <2>11. CASE Bury(g)
      <3>1. registry.id \in 0..MaxIds  BY <1>1, RegistryFields DEF TypeOK
      <3>2. sweep'[g].tombs = sweep[g].tombs  BY <1>2, <2>11, <3>1, SweepBuried DEF Bury
      <3>3. sweep[g].tombs = {} /\ pc'[g] = "erase"  BY <2>1, <2>3, <2>4, <2>11 DEF Bury, At, Swept
      <3> QED  BY <3>2, <3>3 DEF Swept
    <2>12. CASE EraseSessions(g)
      <3>1. \/ pc[g] = "recover" /\ pc'[g] = "metadata"
            \/ pc'[g] = "unmark"
        BY <2>3, <2>4, <2>12 DEF EraseSessions, At
      <3>2. tombs' = tombs /\ sweep' = sweep  BY <2>12 DEF EraseSessions
      <3> QED  BY <2>1, <3>1, <3>2 DEF Swept
    <2>13. CASE EraseRegistry(g)
      <3>1. pc'[g] = "unmark"  BY <2>3, <2>4, <2>13 DEF EraseRegistry
      <3>2. tombs' = tombs /\ sweep' = sweep  BY <2>13 DEF EraseRegistry
      <3> QED  BY <2>1, <3>1, <3>2 DEF Swept
    <2>14. CASE Unmark(g)
      <3>1. pc'[g] = "releasing"  BY <2>3, <2>4, <2>14 DEF Unmark
      <3>2. tombs' = tombs \ {sweep[g].target} /\ sweep' = sweep  BY <2>14 DEF Unmark
      <3> QED  BY <2>1, <3>1, <3>2 DEF Swept
    <2> QED
      BY <1>5, <2>5, <2>6, <2>7, <2>8, <2>9, <2>10, <2>11, <2>12, <2>13, <2>14 DEF Collect
  <1>6. ASSUME NEW p \in Procs, Leave(p)  PROVE SweepInv'
    <2>1. \A g \in Collectors : sweep'[g].tombs = sweep[g].tombs
                                /\ sweep'[g].target \in {0, sweep[g].target}
      BY <1>2, <1>6, SweepLeft
    <2>2. tombs' = tombs  BY <1>6 DEF Leave, disk
    <2>3. \A g \in Collectors : pc'[g] = pc[g] \/ pc'[g] \in Away
      BY <1>2, <1>6 DEF Leave, Goto, Away, Procs
    <2>4. \A g \in Collectors : 0 \notin sweep[g].tombs
      BY <1>2, SweepTypes, ChildSessionAssumption DEF Ids
    <2> QED  BY <2>1, <2>2, <2>3, <2>4 DEF SweepInv, Swept, Away
  <1>7. ASSUME NEW p \in Procs, Crash(p)  PROVE SweepInv'
    <2>1. tombs' = tombs  BY <1>7 DEF Crash, disk
    <2>2. \A g \in Collectors : \/ sweep'[g] = NoSweep /\ pc'[g] = "idle"
                                \/ sweep'[g] = sweep[g] /\ pc'[g] = pc[g]
      BY <1>2, <1>7 DEF Crash, Goto, Procs
    <2> QED  BY <2>1, <2>2, NoSweepTyped DEF SweepInv, Swept
  <1>8. ASSUME NEW i \in Ids, ChildWrites(i) \/ OrphanExits(i) \/ Ages(i)  PROVE SweepInv'
    BY <1>3, <1>8 DEF ChildWrites, OrphanExits, Ages, disk
  <1>9. CASE PinExpires \/ CreatePin \/ ReleasePin \/ UNCHANGED vars
    BY <1>3, <1>9 DEF PinExpires, CreatePin, ReleasePin, vars
  <1> QED  BY <1>4, <1>5, <1>6, <1>7, <1>8, <1>9, NextIs DEF Rest

LEMMA QuarantineKept ==
  ASSUME IInv, SweepInv, [Next]_vars, registry.status = "quarantined"
  PROVE  /\ registry' = registry \/ (registry' = NoRegistry /\ age[registry.id] = "expired")
         /\ child' \subseteq child
  <1>1. registry \in Registry /\ registry = [status |-> "quarantined", id |-> registry.id]
    BY DEF IInv, TypeOK, Registry
  <1>2. child' \subseteq child
    <2>1. ASSUME NEW d \in Dispatchers, StartAttempt(d)  PROVE FALSE
      BY <2>1 DEF StartAttempt, At, IInv, Stage, Unsettled
    <2> QED  BY <2>1, WhoStartsChildren
  <1>3. ASSUME NEW d \in Dispatchers, Enter(d) \/ Dispatch(d)  PROVE registry' = registry
    <2>1. Works(d) /\ Stage(d)  BY DEF IInv
    <2>2. CASE Enter(d) \/ Refuse(d) \/ StartAttempt(d) \/ AttemptUnrecorded(d) \/ Pause(d)
               \/ Retry(d) \/ Fallback(d) \/ Throw(d)
      BY <2>2 DEF Enter, Refuse, StartAttempt, AttemptUnrecorded, Pause, Retry, Fallback, Throw, disk
    <2>3. CASE Resume(d) \/ RejectSession(d) \/ Create(d)
      BY <2>3 DEF Resume, RejectSession, Create, MayDispatch
    <2>4. CASE Cancel(d) \/ \E kind \in Kinds \ {"none"} : AttemptEnds(d, kind)
      BY <2>1, <2>4 DEF Cancel, AttemptEnds, At, Stage, Unsettled
    <2>5. CASE Conclude(d)  BY <2>1, <2>5 DEF Conclude, At, Stage
    <2>6. CASE Exhaust(d)  BY <2>1, <2>6 DEF Exhaust, At, Stage
    <2>7. CASE Finally(d)
      <3>1. run[d].id = registry.id  BY <2>1, <2>7 DEF Finally, At, Works
      <3> QED  BY <1>1, <2>7, <3>1 DEF Finally, Quarantine, SaveRegistry
    <2> QED  BY <1>3, <2>2, <2>3, <2>4, <2>5, <2>6, <2>7 DEF Dispatch
  <1>4. ASSUME NEW g \in Collectors, Collect(g)
        PROVE  registry' = registry \/ (registry' = NoRegistry /\ age[registry.id] = "expired")
    <2>1. ASSUME EraseRegistry(g)  PROVE FALSE
      <3>1. tombs # {}  BY <2>1 DEF EraseRegistry, At, SweepInv, Swept
      <3> QED  BY <3>1 DEF IInv, Disk
    <2>2. CASE Bury(g)  BY <2>2 DEF Bury, PastRetention
    <2> QED
      BY <1>4, <2>1, <2>2
      DEF Collect, List, TakeTombstone, TakeRegistry, Finish, Pinned, OpenTombstone, Fresh,
          EraseSessions, Unmark, RmFails, disk
  <1>5. CASE Rest
    BY <1>5
    DEF Rest, Leave, Crash, ChildWrites, OrphanExits, Ages, PinExpires, CreatePin, ReleasePin,
        vars, disk
  <1> QED  BY <1>2, <1>3, <1>4, <1>5, NextIs

(* Nothing overwrites the quarantine of dispatcher.ts, no child runs under *)
(* it, and gc.ts removes it only after its retention, if one collection    *)
(* runs at a time.                                                         *)
THEOREM QuarantineStays == ASSUME OneCollection PROVE Spec => QuarantineIsFinal
  <1> DEFINE Final ==
        registry.status = "quarantined" =>
          /\ registry' = registry \/ (registry' = NoRegistry /\ age[registry.id] = "expired")
          /\ child' \subseteq child
  <1>1. Init => SweepInv
    BY NoSweepTyped DEF Init, SweepInv, Swept, Procs
  <1>2. IInv /\ SweepInv /\ [Next]_vars => SweepInv'
    BY SweepKept
  <1>3. IInv /\ SweepInv /\ [Next]_vars => [Final]_vars
    BY QuarantineKept
  <1> QED  BY <1>1, <1>2, <1>3, Invariance, PTL DEF Spec, QuarantineIsFinal
=============================================================================
