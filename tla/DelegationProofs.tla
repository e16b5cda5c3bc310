-------------------------- MODULE DelegationProofs --------------------------
(***************************************************************************)
(* Safety of a delegation for any number of parent processes, children,    *)
(* attempts, recovery cycles and faults, with kills anywhere.              *)
(***************************************************************************)
EXTENDS Delegation, TLAPS, SequenceTheorems

(* The types the proofs use. TypeOK of the model says less of the numbers. *)
Fields ==
  {"state", "owner", "gen", "accepted", "cycle", "spawn", "spawns", "intent",
   "spawned", "spawnGen", "started", "bound", "boundGen", "kid", "proof",
   "action", "prior", "deathProved", "integrity", "cleanup", "outcome"}

Log ==
  /\ DOMAIN d = Fields
  /\ d.gen \in Nat /\ d.spawn \in Nat /\ d.spawns \in Nat /\ d.spawnGen \in Nat
  /\ d.kid \in Nat /\ d.bound \in BOOLEAN
  /\ d.proof \in (Nat \X Nat) \union {None}

Pcs == {"idle", "run", "bind", "greet", "work", "stop", "watch", "ended"}
Kinds == {"final", "transient", "configuration", "unknown"}
Tools == {"none", "asked", "runs"}

Exec == [pc : Pcs, kid : Nat, spawn : Nat, gen : Nat, tries : Nat,
         result : Kinds \union {None}]
Kid  == [live : BOOLEAN, known : BOOLEAN, final : BOOLEAN, tool : Tools,
         bye : BOOLEAN, spawn : Nat, try : Nat]

Types ==
  TypeOK /\ Log /\ exec \in [Procs -> Exec] /\ kids \in Seq(Kid)

(* A child of a retry that was not bound: the only kind that can live on   *)
(* beside another.                                                         *)
Stray(i)  == kids[i].try > 1 /\ ~kids[i].known
Only(k)   == \A i \in DOMAIN kids : kids[i].live /\ ~Stray(i) => i = k
Quiet     == \A i \in DOMAIN kids : kids[i].live => Stray(i)
Single    == \A i, j \in DOMAIN kids :
               kids[i].live /\ kids[j].live => i = j \/ Stray(i) \/ Stray(j)
KnownDead == \A i \in DOMAIN kids : kids[i].known => ~kids[i].live

Attached    == {"bind", "greet", "work", "stop", "watch"}
Answered(p) == exec[p].pc = "ended" /\ exec[p].result = "final"

(* A process that executes is the owner, by the claim it started with, and *)
(* its child is the last one and the only one alive that is no stray; past *)
(* its binding it is on record.                                            *)
Executes(p) ==
  exec[p].pc # "idle" =>
    /\ p \in alive /\ ClaimCurrent(p) /\ d.spawnGen # 0
    /\ "cycle_ready" \notin {d.state, d.prior}
    /\ Only(exec[p].kid)
    /\ exec[p].pc = "run" => Quiet
    /\ exec[p].pc = "run" /\ exec[p].tries = 0 => ~d.bound /\ d.proof = None
    /\ exec[p].pc \in Attached \/ Answered(p) =>
         exec[p].kid = Len(kids) /\ exec[p].kid # 0
    /\ exec[p].pc \in {"bind", "greet", "work"} =>
         kids[exec[p].kid].spawn = d.spawn /\ exec[p].tries # 0
    /\ Answered(p) => ~kids[exec[p].kid].live /\ kids[exec[p].kid].final
    /\ exec[p].pc \in {"greet", "work", "watch"} \/ Answered(p) => kids[exec[p].kid].known

Claims ==
  /\ d.owner # None => d.gen # 0
  /\ d.spawn <= d.spawns
  /\ d.spawnGen = 0 => kids = <<>>
  /\ {d.state, d.prior} \cap {"bound", "initial_ready"} # {} => d.spawnGen = 0

(* What the record says of the children: a proof of death, or a            *)
(* reservation made from one, means that none but strays are alive.        *)
Deaths ==
  /\ Single
  /\ d.proof # None => Quiet
  /\ "cycle_ready" \in {d.state, d.prior} => Quiet
  /\ d.state \in Running => d.proof = None
  /\ d.bound => Only(d.kid)
  /\ d.kid # 0 => d.kid \in DOMAIN kids /\ kids[d.kid].known
  /\ \A i \in DOMAIN kids : kids[i].known /\ kids[i].live => i = d.kid /\ i = Len(kids)
  /\ d.state = "cancel_requested" \/ d.deathProved => Cancelled
  /\ d.deathProved \/ d.state \in Terminal => KnownDead

(* A call that may run is the unresolved one of the record, and it belongs *)
(* to a child of the last spawn.                                           *)
Doubts ==
  /\ \A i \in DOMAIN kids : kids[i].spawn <= d.spawn
  /\ \A i \in DOMAIN kids : kids[i].tool # "none" => Unresolved /\ kids[i].spawn = d.spawn
  /\ \A i, j \in DOMAIN kids : kids[i].tool # "none" /\ kids[j].tool # "none" => i = j
  /\ d.state \in Terminal => ~Unresolved

Outcome ==
  d.outcome # 0 =>
    /\ d.state = "returned" /\ d.outcome = Len(kids) /\ d.outcome \in DOMAIN kids
    /\ kids[d.outcome].final /\ ~kids[d.outcome].live
    /\ \A p \in Procs : exec[p].pc = "idle"

IInv ==
  /\ Types /\ Claims /\ Deaths /\ Doubts /\ Outcome
  /\ \A p \in Procs : Executes(p)

-----------------------------------------------------------------------------
(* One field of an execution, or of a child, at a time keeps its type.     *)
LEMMA ExecFields ==
  ASSUME NEW q \in Exec
  PROVE  /\ \A v \in Pcs : [q EXCEPT !.pc = v] \in Exec
         /\ \A v \in Nat : [q EXCEPT !.kid = v] \in Exec
         /\ \A v \in Nat : [q EXCEPT !.spawn = v] \in Exec
         /\ \A v \in Nat : [q EXCEPT !.gen = v] \in Exec
         /\ \A v \in Nat : [q EXCEPT !.tries = v] \in Exec
         /\ \A v \in Kinds : [q EXCEPT !.result = v] \in Exec
  <1>1. \A v \in Pcs : [q EXCEPT !.pc = v] \in Exec  BY SMT DEF Exec
  <1>2. \A v \in Nat : [q EXCEPT !.kid = v] \in Exec  BY SMT DEF Exec
  <1>3. \A v \in Nat : [q EXCEPT !.spawn = v] \in Exec  BY SMT DEF Exec
  <1>4. \A v \in Nat : [q EXCEPT !.gen = v] \in Exec  BY SMT DEF Exec
  <1>5. \A v \in Nat : [q EXCEPT !.tries = v] \in Exec  BY SMT DEF Exec
  <1>6. \A v \in Kinds : [q EXCEPT !.result = v] \in Exec  BY SMT DEF Exec
  <1> QED  BY <1>1, <1>2, <1>3, <1>4, <1>5, <1>6

LEMMA KidFields ==
  ASSUME NEW q \in Kid
  PROVE  /\ \A v \in BOOLEAN : [q EXCEPT !.live = v] \in Kid
         /\ \A v \in BOOLEAN : [q EXCEPT !.known = v] \in Kid
         /\ \A v \in BOOLEAN : [q EXCEPT !.final = v] \in Kid
         /\ \A v \in Tools : [q EXCEPT !.tool = v] \in Kid
         /\ \A v \in BOOLEAN : [q EXCEPT !.bye = v] \in Kid
  <1>1. \A v \in BOOLEAN : [q EXCEPT !.live = v] \in Kid  BY SMT DEF Kid
  <1>2. \A v \in BOOLEAN : [q EXCEPT !.known = v] \in Kid  BY SMT DEF Kid
  <1>3. \A v \in BOOLEAN : [q EXCEPT !.final = v] \in Kid  BY SMT DEF Kid
  <1>4. \A v \in Tools : [q EXCEPT !.tool = v] \in Kid  BY SMT DEF Kid
  <1>5. \A v \in BOOLEAN : [q EXCEPT !.bye = v] \in Kid  BY SMT DEF Kid
  <1> QED  BY <1>1, <1>2, <1>3, <1>4, <1>5

LEMMA IdleTyped == IdleExec \in Exec /\ IdleExec.pc = "idle" /\ IdleExec.tries = 0 /\ IdleExec.kid = 0
  BY SMT DEF IdleExec, Exec, Pcs

(* The other executions are what they were.                                *)
Others(p) == \A q \in Procs \ {p} : exec'[q] = exec[q]

LEMMA Went ==
  ASSUME Types, NEW p \in Procs, NEW v \in Pcs, exec' = [exec EXCEPT ![p].pc = v]
  PROVE  /\ exec' \in [Procs -> Exec] /\ Others(p)
         /\ exec'[p].pc = v /\ exec'[p].kid = exec[p].kid /\ exec'[p].spawn = exec[p].spawn
         /\ exec'[p].gen = exec[p].gen /\ exec'[p].tries = exec[p].tries
  <1> DEFINE q == exec[p]
             s == [q EXCEPT !.pc = v]
  <1>1. q \in Exec  BY DEF Types
  <1>2. s \in Exec
    <2> HIDE DEF q
    <2> QED  BY <1>1, ExecFields
  <1>3. exec' = [exec EXCEPT ![p] = s]  OBVIOUS
  <1>4. s.pc = v /\ s.kid = q.kid /\ s.spawn = q.spawn /\ s.gen = q.gen /\ s.tries = q.tries
    <2> HIDE DEF q
    <2> QED  BY <1>1, SMT DEF Exec
  <1> HIDE DEF s
  <1> QED  BY <1>2, <1>3, <1>4 DEF Types, Others

LEMMA EndedWith ==
  ASSUME Types, NEW p \in Procs, NEW v \in Kinds,
         exec' = [exec EXCEPT ![p].pc = "ended", ![p].result = v]
  PROVE  /\ exec' \in [Procs -> Exec] /\ Others(p)
         /\ exec'[p].pc = "ended" /\ exec'[p].result = v /\ exec'[p].kid = exec[p].kid
         /\ exec'[p].spawn = exec[p].spawn /\ exec'[p].gen = exec[p].gen
  <1> DEFINE q == exec[p]
             s == [q EXCEPT !.pc = "ended"]
             t == [s EXCEPT !.result = v]
  <1>1. q \in Exec  BY DEF Types
  <1>2. s \in Exec
    <2> HIDE DEF q
    <2> QED  BY <1>1, ExecFields DEF Pcs
  <1>3. t \in Exec
    <2> HIDE DEF s
    <2> QED  BY <1>2, ExecFields
  <1>4. s.pc = "ended" /\ s.kid = q.kid /\ s.spawn = q.spawn /\ s.gen = q.gen
    <2> HIDE DEF q
    <2> QED  BY <1>1, SMT DEF Exec
  <1>5. t.pc = s.pc /\ t.result = v /\ t.kid = s.kid /\ t.spawn = s.spawn /\ t.gen = s.gen
    <2> HIDE DEF s
    <2> QED  BY <1>2, SMT DEF Exec
  <1>6. exec' = [exec EXCEPT ![p] = t]  BY DEF Types
  <1> HIDE DEF s, t
  <1> QED  BY <1>3, <1>4, <1>5, <1>6 DEF Types, Others

LEMMA WentIdle ==
  ASSUME Types, NEW p \in Procs, exec' = [exec EXCEPT ![p] = IdleExec]
  PROVE  exec' \in [Procs -> Exec] /\ Others(p) /\ exec'[p].pc = "idle"
  BY IdleTyped DEF Types, Others

LEMMA WentRunning ==
  ASSUME Types, NEW p \in Procs, NEW v \in Nat, NEW w \in Nat,
         exec' = [exec EXCEPT ![p] = [IdleExec EXCEPT !.pc = "run", !.spawn = v, !.gen = w]]
  PROVE  /\ exec' \in [Procs -> Exec] /\ Others(p)
         /\ exec'[p].pc = "run" /\ exec'[p].spawn = v /\ exec'[p].gen = w
         /\ exec'[p].tries = 0
  <1> DEFINE s == [IdleExec EXCEPT !.pc = "run"]
             t == [s EXCEPT !.spawn = v]
             u == [t EXCEPT !.gen = w]
  <1>1. s \in Exec /\ s.pc = "run" /\ s.tries = 0
    <2>1. s \in Exec  BY IdleTyped, ExecFields DEF Pcs
    <2>2. s.pc = "run" /\ s.tries = 0  BY SMT DEF IdleExec
    <2> QED  BY <2>1, <2>2
  <1>2. t \in Exec /\ t.pc = "run" /\ t.tries = 0 /\ t.spawn = v
    <2> HIDE DEF s
    <2>1. t \in Exec  BY <1>1, ExecFields
    <2>2. t.pc = "run" /\ t.tries = 0 /\ t.spawn = v  BY <1>1, SMT DEF Exec
    <2> QED  BY <2>1, <2>2
  <1>3. u \in Exec /\ u.pc = "run" /\ u.tries = 0 /\ u.spawn = v /\ u.gen = w
    <2> HIDE DEF t
    <2>1. u \in Exec  BY <1>2, ExecFields
    <2>2. u.pc = "run" /\ u.tries = 0 /\ u.spawn = v /\ u.gen = w  BY <1>2, SMT DEF Exec
    <2> QED  BY <2>1, <2>2
  <1>4. u = [IdleExec EXCEPT !.pc = "run", !.spawn = v, !.gen = w]  BY SMT DEF IdleExec
  <1>5. exec' = [exec EXCEPT ![p] = u]  BY <1>4
  <1> HIDE DEF u
  <1> QED  BY <1>3, <1>5 DEF Types, Others

LEMMA WentWatching ==
  ASSUME Types, NEW p \in Procs, NEW k \in Nat, NEW v \in Nat, NEW w \in Nat,
         exec' = [exec EXCEPT ![p] = [IdleExec EXCEPT !.pc = "watch", !.kid = k,
                                                     !.spawn = v, !.gen = w]]
  PROVE  /\ exec' \in [Procs -> Exec] /\ Others(p)
         /\ exec'[p].pc = "watch" /\ exec'[p].kid = k /\ exec'[p].spawn = v
         /\ exec'[p].gen = w
  <1> DEFINE s == [IdleExec EXCEPT !.pc = "watch"]
             r == [s EXCEPT !.kid = k]
             t == [r EXCEPT !.spawn = v]
             u == [t EXCEPT !.gen = w]
  <1>1. s \in Exec /\ s.pc = "watch"
    <2>1. s \in Exec  BY IdleTyped, ExecFields DEF Pcs
    <2>2. s.pc = "watch"  BY SMT DEF IdleExec
    <2> QED  BY <2>1, <2>2
  <1>2. r \in Exec /\ r.pc = "watch" /\ r.kid = k
    <2> HIDE DEF s
    <2>1. r \in Exec  BY <1>1, ExecFields
    <2>2. r.pc = "watch" /\ r.kid = k  BY <1>1, SMT DEF Exec
    <2> QED  BY <2>1, <2>2
  <1>3. t \in Exec /\ t.pc = "watch" /\ t.kid = k /\ t.spawn = v
    <2> HIDE DEF r
    <2>1. t \in Exec  BY <1>2, ExecFields
    <2>2. t.pc = "watch" /\ t.kid = k /\ t.spawn = v  BY <1>2, SMT DEF Exec
    <2> QED  BY <2>1, <2>2
  <1>4. u \in Exec /\ u.pc = "watch" /\ u.kid = k /\ u.spawn = v /\ u.gen = w
    <2> HIDE DEF t
    <2>1. u \in Exec  BY <1>3, ExecFields
    <2>2. u.pc = "watch" /\ u.kid = k /\ u.spawn = v /\ u.gen = w  BY <1>3, SMT DEF Exec
    <2> QED  BY <2>1, <2>2
  <1>5. u = [IdleExec EXCEPT !.pc = "watch", !.kid = k, !.spawn = v, !.gen = w]
    BY SMT DEF IdleExec
  <1>6. exec' = [exec EXCEPT ![p] = u]  BY <1>5
  <1> HIDE DEF u
  <1> QED  BY <1>4, <1>6 DEF Types, Others

LEMMA WentToBind ==
  ASSUME Types, NEW p \in Procs, NEW k \in Nat,
         exec' = [exec EXCEPT ![p].pc = "bind", ![p].kid = k, ![p].tries = @ + 1]
  PROVE  /\ exec' \in [Procs -> Exec] /\ Others(p)
         /\ exec'[p].pc = "bind" /\ exec'[p].kid = k /\ exec'[p].tries # 0
         /\ exec'[p].spawn = exec[p].spawn /\ exec'[p].gen = exec[p].gen
  <1> DEFINE q == exec[p]
             s == [q EXCEPT !.pc = "bind"]
             t == [s EXCEPT !.kid = k]
             u == [t EXCEPT !.tries = q.tries + 1]
  <1>1. q \in Exec /\ q.tries \in Nat  BY DEF Types, Exec
  <1>2. s \in Exec /\ s.pc = "bind" /\ s.spawn = q.spawn /\ s.gen = q.gen
    <2> HIDE DEF q
    <2>1. s \in Exec  BY <1>1, ExecFields DEF Pcs
    <2>2. s.pc = "bind" /\ s.spawn = q.spawn /\ s.gen = q.gen  BY <1>1, SMT DEF Exec
    <2> QED  BY <2>1, <2>2
  <1>3. t \in Exec /\ t.pc = "bind" /\ t.kid = k /\ t.spawn = q.spawn /\ t.gen = q.gen
    <2> HIDE DEF q, s
    <2>1. t \in Exec  BY <1>2, ExecFields
    <2>2. t.pc = "bind" /\ t.kid = k /\ t.spawn = q.spawn /\ t.gen = q.gen
      BY <1>2, SMT DEF Exec
    <2> QED  BY <2>1, <2>2
  <1>4. /\ u \in Exec /\ u.pc = "bind" /\ u.kid = k /\ u.spawn = q.spawn /\ u.gen = q.gen
        /\ u.tries # 0
    <2> HIDE DEF q, t
    <2>1. u \in Exec
      <3>1. q.tries + 1 \in Nat  BY <1>1
      <3>2. \A v \in Nat : [t EXCEPT !.tries = v] \in Exec  BY <1>3, ExecFields
      <3> QED  BY <3>1, <3>2
    <2>2. u.pc = "bind" /\ u.kid = k /\ u.spawn = q.spawn /\ u.gen = q.gen
      <3> DEFINE n == q.tries + 1
      <3> HIDE DEF n
      <3> QED  BY <1>3, SMT DEF Exec
    <2>3. u.tries # 0
      <3>1. \A v \in Nat : [t EXCEPT !.tries = v].tries = v  BY <1>3, SMT DEF Exec
      <3>2. u.tries = q.tries + 1  BY <1>1, <3>1
      <3> QED  BY <1>1, <3>2
    <2> QED  BY <2>1, <2>2, <2>3
  <1>5. exec' = [exec EXCEPT ![p] = u]  OBVIOUS
  <1> HIDE DEF u
  <1> QED  BY <1>4, <1>5 DEF Types, Others

(* The other children are what they were.                                  *)
Siblings(i) == Len(kids') = Len(kids) /\ \A j \in DOMAIN kids \ {i} : kids'[j] = kids[j]

LEMMA Replaced ==
  ASSUME Types, NEW i \in DOMAIN kids, NEW u \in Kid, kids' = [kids EXCEPT ![i] = u]
  PROVE  kids' \in Seq(Kid) /\ Siblings(i) /\ kids'[i] = u /\ DOMAIN kids' = DOMAIN kids
  <1>1. kids \in Seq(Kid)  BY DEF Types
  <1>2. i \in 1 .. Len(kids)  BY <1>1
  <1> QED  BY <1>1, <1>2 DEF Siblings

LEMMA Appended ==
  ASSUME Types, NEW v \in Nat, NEW w \in Nat,
         kids' = Append(kids, [live |-> TRUE, known |-> FALSE, final |-> FALSE,
                               tool |-> "none", bye |-> FALSE, spawn |-> v, try |-> w])
  PROVE  /\ kids' \in Seq(Kid) /\ Len(kids') = Len(kids) + 1
         /\ DOMAIN kids' = 1 .. Len(kids) + 1
         /\ \A i \in DOMAIN kids : kids'[i] = kids[i]
         /\ ~kids'[Len(kids) + 1].known /\ kids'[Len(kids) + 1].tool = "none"
         /\ kids'[Len(kids) + 1].live /\ ~kids'[Len(kids) + 1].final
         /\ kids'[Len(kids) + 1].spawn = v /\ kids'[Len(kids) + 1].try = w
  <1> DEFINE u == [live |-> TRUE, known |-> FALSE, final |-> FALSE,
                   tool |-> "none", bye |-> FALSE, spawn |-> v, try |-> w]
  <1>1. u \in Kid  BY SMT DEF Kid, Tools
  <1>2. u.live /\ ~u.known /\ ~u.final /\ u.tool = "none" /\ u.spawn = v /\ u.try = w  OBVIOUS
  <1> HIDE DEF u
  <1>3. kids' = Append(kids, u)  BY DEF u
  <1>4. kids \in Seq(Kid)  BY DEF Types
  <1> QED  BY <1>1, <1>2, <1>3, <1>4

LEMMA KidKnown ==
  ASSUME Types, NEW i \in DOMAIN kids, kids' = [kids EXCEPT ![i].known = TRUE]
  PROVE  /\ kids' \in Seq(Kid) /\ Siblings(i) /\ DOMAIN kids' = DOMAIN kids
         /\ kids'[i].known /\ kids'[i].live = kids[i].live /\ kids'[i].tool = kids[i].tool
         /\ kids'[i].spawn = kids[i].spawn /\ kids'[i].final = kids[i].final
         /\ kids'[i].try = kids[i].try
  <1> DEFINE q == kids[i]
             u == [q EXCEPT !.known = TRUE]
  <1>1. q \in Kid  BY DEF Types
  <1>2. u \in Kid
    <2> HIDE DEF q
    <2> QED  BY <1>1, KidFields
  <1>3. /\ u.known /\ u.live = q.live /\ u.tool = q.tool /\ u.spawn = q.spawn
        /\ u.final = q.final /\ u.try = q.try
    <2> HIDE DEF q
    <2> QED  BY <1>1, SMT DEF Kid
  <1>4. kids' = [kids EXCEPT ![i] = u]  OBVIOUS
  <1> HIDE DEF u
  <1> QED  BY <1>2, <1>3, <1>4, Replaced

LEMMA KidBye ==
  ASSUME Types, NEW i \in DOMAIN kids, kids' = [kids EXCEPT ![i].bye = TRUE]
  PROVE  /\ kids' \in Seq(Kid) /\ Siblings(i) /\ DOMAIN kids' = DOMAIN kids
         /\ kids'[i].known = kids[i].known /\ kids'[i].live = kids[i].live
         /\ kids'[i].tool = kids[i].tool /\ kids'[i].spawn = kids[i].spawn
         /\ kids'[i].try = kids[i].try /\ kids'[i].final = kids[i].final
  <1> DEFINE q == kids[i]
             u == [q EXCEPT !.bye = TRUE]
  <1>1. q \in Kid  BY DEF Types
  <1>2. u \in Kid
    <2> HIDE DEF q
    <2> QED  BY <1>1, KidFields
  <1>3. /\ u.known = q.known /\ u.live = q.live /\ u.tool = q.tool /\ u.spawn = q.spawn
        /\ u.try = q.try /\ u.final = q.final
    <2> HIDE DEF q
    <2> QED  BY <1>1, SMT DEF Kid
  <1>4. kids' = [kids EXCEPT ![i] = u]  OBVIOUS
  <1> HIDE DEF u
  <1> QED  BY <1>2, <1>3, <1>4, Replaced

LEMMA KidTool ==
  ASSUME Types, NEW i \in DOMAIN kids, NEW v \in Tools,
         kids' = [kids EXCEPT ![i].tool = v]
  PROVE  /\ kids' \in Seq(Kid) /\ Siblings(i) /\ DOMAIN kids' = DOMAIN kids
         /\ kids'[i].known = kids[i].known /\ kids'[i].live = kids[i].live
         /\ kids'[i].tool = v /\ kids'[i].spawn = kids[i].spawn
         /\ kids'[i].try = kids[i].try /\ kids'[i].final = kids[i].final
  <1> DEFINE q == kids[i]
             u == [q EXCEPT !.tool = v]
  <1>1. q \in Kid  BY DEF Types
  <1>2. u \in Kid
    <2> HIDE DEF q
    <2> QED  BY <1>1, KidFields
  <1>3. /\ u.known = q.known /\ u.live = q.live /\ u.tool = v /\ u.spawn = q.spawn
        /\ u.try = q.try /\ u.final = q.final
    <2> HIDE DEF q
    <2> QED  BY <1>1, SMT DEF Kid
  <1>4. kids' = [kids EXCEPT ![i] = u]  OBVIOUS
  <1> HIDE DEF u
  <1> QED  BY <1>2, <1>3, <1>4, Replaced

LEMMA KidEnded ==
  ASSUME Types, NEW i \in DOMAIN kids, NEW f \in BOOLEAN,
         kids' = [kids EXCEPT ![i].live = FALSE, ![i].final = f,
                              ![i].tool = IF @ = "asked" THEN "none" ELSE @]
  PROVE  /\ kids' \in Seq(Kid) /\ Siblings(i) /\ DOMAIN kids' = DOMAIN kids
         /\ kids'[i].known = kids[i].known /\ ~kids'[i].live
         /\ kids'[i].tool # "none" => kids[i].tool # "none"
         /\ kids'[i].spawn = kids[i].spawn /\ kids'[i].try = kids[i].try
         /\ kids'[i].final = f
  <1> DEFINE q == kids[i]
             b == IF q.tool = "asked" THEN "none" ELSE q.tool
             s == [q EXCEPT !.live = FALSE]
             t == [s EXCEPT !.final = f]
             u == [t EXCEPT !.tool = b]
  <1>1. q \in Kid /\ b \in Tools /\ (b # "none" => q.tool # "none")
    <2>1. q \in Kid  BY DEF Types
    <2>2. q.tool \in Tools
      <3> HIDE DEF q
      <3> QED  BY <2>1 DEF Kid
    <2>3. b \in Tools /\ (b # "none" => q.tool # "none")
      <3> HIDE DEF q
      <3> QED  BY ONLY <2>2 DEF Tools
    <2> QED  BY <2>1, <2>3
  <1> HIDE DEF b
  <1>2. s \in Kid /\ s.known = q.known /\ ~s.live /\ s.spawn = q.spawn /\ s.try = q.try
    <2> HIDE DEF q
    <2>1. s \in Kid  BY <1>1, KidFields
    <2>2. s.known = q.known /\ ~s.live /\ s.spawn = q.spawn /\ s.try = q.try
      BY <1>1, SMT DEF Kid
    <2> QED  BY <2>1, <2>2
  <1>3. /\ t \in Kid /\ t.known = q.known /\ ~t.live /\ t.spawn = q.spawn /\ t.try = q.try
        /\ t.final = f
    <2> HIDE DEF q, s
    <2>1. t \in Kid  BY <1>2, KidFields
    <2>2. t.known = q.known /\ ~t.live /\ t.spawn = q.spawn /\ t.try = q.try /\ t.final = f
      BY <1>2, SMT DEF Kid
    <2> QED  BY <2>1, <2>2
  <1>4. /\ u \in Kid /\ u.known = q.known /\ ~u.live /\ u.spawn = q.spawn
        /\ u.try = q.try /\ u.tool = b /\ u.final = f
    <2> HIDE DEF q, t
    <2>1. u \in Kid  BY <1>1, <1>3, KidFields
    <2>2. /\ u.known = q.known /\ ~u.live /\ u.spawn = q.spawn /\ u.try = q.try /\ u.tool = b
          /\ u.final = f
      BY <1>3, SMT DEF Kid
    <2> QED  BY <2>1, <2>2
  <1>5. kids' = [kids EXCEPT ![i] = u]  BY DEF b
  <1> HIDE DEF u
  <1> QED  BY <1>1, <1>4, <1>5, Replaced

LEMMA KidsCleared ==
  ASSUME Types, kids' = [i \in DOMAIN kids |-> [kids[i] EXCEPT !.tool = "none"]]
  PROVE  /\ kids' \in Seq(Kid) /\ Len(kids') = Len(kids) /\ DOMAIN kids' = DOMAIN kids
         /\ \A i \in DOMAIN kids :
              /\ kids'[i].known = kids[i].known /\ kids'[i].live = kids[i].live
              /\ kids'[i].tool = "none" /\ kids'[i].spawn = kids[i].spawn
              /\ kids'[i].try = kids[i].try /\ kids'[i].final = kids[i].final
  <1>1. kids \in Seq(Kid) /\ Len(kids) \in Nat /\ DOMAIN kids = 1 .. Len(kids)
    BY DEF Types
  <1>2. ASSUME NEW q \in Kid
        PROVE  LET u == [q EXCEPT !.tool = "none"]
               IN  /\ u \in Kid /\ u.known = q.known /\ u.live = q.live /\ u.tool = "none"
                   /\ u.spawn = q.spawn /\ u.try = q.try /\ u.final = q.final
    <2> DEFINE u == [q EXCEPT !.tool = "none"]
    <2>1. u \in Kid  BY KidFields DEF Tools
    <2>2. /\ u.known = q.known /\ u.live = q.live /\ u.tool = "none"
          /\ u.spawn = q.spawn /\ u.try = q.try /\ u.final = q.final
      BY SMT DEF Kid
    <2> QED  BY <2>1, <2>2
  <1>3. \A i \in DOMAIN kids : kids[i] \in Kid  BY <1>1
  <1>4. DOMAIN kids' = DOMAIN kids /\ \A i \in DOMAIN kids : kids'[i] = [kids[i] EXCEPT !.tool = "none"]
    OBVIOUS
  <1>5. kids' \in Seq(Kid) /\ Len(kids') = Len(kids)
    <2>1. \A i \in 1 .. Len(kids) : [kids[i] EXCEPT !.tool = "none"] \in Kid
      BY <1>1, <1>2, <1>3
    <2>2. kids' = [i \in 1 .. Len(kids) |-> [kids[i] EXCEPT !.tool = "none"]]  BY <1>1
    <2>3. kids' \in [1 .. Len(kids) -> Kid]  BY <2>1, <2>2
    <2> HIDE DEF Kid
    <2> QED  BY <1>1, <2>3, SeqDef, LenProperties
  <1> QED  BY <1>2, <1>3, <1>4, <1>5

-----------------------------------------------------------------------------
(* What a step leaves of the record.                                       *)
SameClaim ==
  /\ d'.owner = d.owner /\ d'.gen = d.gen /\ d'.spawn = d.spawn
  /\ d'.spawns = d.spawns /\ d'.spawnGen = d.spawnGen
SameChild == d'.bound = d.bound /\ d'.kid = d.kid /\ d'.proof = d.proof
SameEnd   == d'.prior = d.prior /\ d'.deathProved = d.deathProved /\ d'.outcome = d.outcome

Paused ==
  {"recovery_ready", "paused_uncertainty", "paused_integrity", "paused_configuration",
   "reattach_only"}

(* Most steps change no claim and start nothing: at most they drop the     *)
(* binding and the proof and pause the delegation.                         *)
Tame ==
  /\ Log' /\ SameClaim /\ SameEnd /\ d'.kid = d.kid
  /\ d'.bound => d.bound
  /\ d'.proof \in {d.proof, None}
  /\ d'.action \in {"none", "open", "unknown", "undecided"}
  /\ d.action # "none" => d'.action # "none"
  /\ \/ d'.state = d.state /\ (d.state \in Terminal => d'.action = d.action)
     \/ d.state \notin Terminal /\ d'.state \in Paused

LEMMA Untouched == ASSUME Types, UNCHANGED d  PROVE Tame
  BY DEF Types, TypeOK, Log, Tame, SameClaim, SameEnd

LEMMA TameInterrupted ==
  ASSUME Types, NEW k, d' = Interrupted(k, None), d.state \notin Terminal
  PROVE  Tame
  <1>1. Log'  BY SMT DEF Types, Log, Fields, Interrupted
  <1>2. SameClaim /\ SameEnd /\ d'.kid = d.kid
    BY SMT DEF Types, Log, Fields, Interrupted, SameClaim, SameEnd
  <1>3. ~d'.bound /\ d'.proof = None /\ d'.action = d.action
    BY SMT DEF Types, Log, Fields, Interrupted
  <1>4. d'.state \in Paused  BY SMT DEF Types, Log, Fields, Interrupted, Paused
  <1> QED  BY <1>1, <1>2, <1>3, <1>4 DEF Tame, Types, TypeOK

LEMMA TameIntegrity ==
  ASSUME Types, d' = IntegrityPaused  PROVE Tame
  <1>1. CASE d.integrity \/ d.state \in Terminal \union {"paused_integrity"}
    BY <1>1, Untouched DEF IntegrityPaused
  <1>2. CASE ~(d.integrity \/ d.state \in Terminal \union {"paused_integrity"})
    <2>1. d' = [d EXCEPT !.state = "paused_integrity", !.integrity = TRUE]
      BY <1>2 DEF IntegrityPaused
    <2>2. Log'  BY <2>1, SMT DEF Types, Log, Fields
    <2>3. SameClaim /\ SameEnd /\ SameChild
      BY <2>1, SMT DEF Types, Log, Fields, SameClaim, SameEnd, SameChild
    <2>4. d'.action = d.action /\ d'.state = "paused_integrity"
      BY <2>1, SMT DEF Types, Log, Fields
    <2> QED  BY <1>2, <2>2, <2>3, <2>4 DEF Tame, Types, TypeOK, Paused, SameChild
  <1> QED  BY <1>1, <1>2

LEMMA TameDoubtful ==
  ASSUME Types, d' = Doubtful, d.state \notin Terminal  PROVE Tame
  <1>1. Log'  BY SMT DEF Types, Log, Fields, Doubtful
  <1>2. SameClaim /\ SameEnd /\ SameChild
    BY SMT DEF Types, Log, Fields, SameClaim, SameEnd, SameChild, Doubtful
  <1>3. d'.action = "unknown" /\ d'.state = "paused_uncertainty"
    BY SMT DEF Types, Log, Fields, Doubtful
  <1> QED  BY <1>1, <1>2, <1>3 DEF Tame, Paused, SameChild

LEMMA TamePaused ==
  ASSUME Types, NEW v \in Paused, d' = [d EXCEPT !.state = v], d.state \notin Terminal
  PROVE  Tame
  <1>1. Log'  BY SMT DEF Types, Log, Fields
  <1>2. SameClaim /\ SameEnd /\ SameChild
    BY SMT DEF Types, Log, Fields, SameClaim, SameEnd, SameChild
  <1>3. d'.action = d.action /\ d'.state = v  BY SMT DEF Types, Log, Fields
  <1> QED  BY <1>1, <1>2, <1>3 DEF Tame, Types, TypeOK, SameChild

(* An execution that stops, ends without an answer, or is given up.        *)
Leaves(p) ==
  /\ exec' \in [Procs -> Exec] /\ Others(p)
  /\ \/ exec'[p].pc = "idle"
     \/ /\ p \in alive' /\ exec[p].pc # "idle"
        /\ exec'[p].kid = exec[p].kid /\ exec'[p].spawn = exec[p].spawn
        /\ exec'[p].gen = exec[p].gen
        /\ \/ exec[p].pc \in Attached /\ exec'[p].pc = "stop"
           \/ exec'[p].pc = "ended" /\ exec'[p].result # "final"

(* Such a step, with a tame one of the record, keeps the invariant.        *)
LEMMA Tamed ==
  ASSUME IInv, NEW p \in Procs, Tame, UNCHANGED kids,
         alive' \subseteq alive, alive \subseteq alive' \union {p},
         Leaves(p) \/ (UNCHANGED exec /\ UNCHANGED alive),
         session' \in BOOLEAN, faults' \in 0 .. MaxFaults
  PROVE  IInv'
  <1>0. /\ d'.state \notin Running \/ d'.state = d.state
        /\ d'.state \notin Terminal \/ d'.state = d.state
        /\ d'.state \notin {"bound", "initial_ready", "cycle_ready", "cancel_requested"}
             \/ d'.state = d.state
    BY DEF Tame, Paused, Running, Terminal
  <1>1. Types'
    <2>1. exec' \in [Procs -> Exec] /\ kids' \in Seq(Kid)  BY DEF Leaves, IInv, Types
    <2>2. \A q \in Procs : exec'[q].pc \in Pcs  BY <2>1 DEF Exec
    <2>3. d'.owner \in Procs \union {None} /\ d'.action \in {"none", "open", "unknown", "undecided"}
          /\ alive' \subseteq Procs
      BY DEF Tame, SameClaim, IInv, Types, TypeOK
    <2>4. d'.state \in States
      BY DEF Tame, Paused, IInv, Types, TypeOK, States, Executing, PreSpawn
    <2> QED  BY <2>1, <2>2, <2>3, <2>4 DEF IInv, Types, TypeOK, Tame, Pcs, States
  <1>2. Claims'
    BY <1>0 DEF IInv, Claims, Tame, SameClaim, SameEnd
  <1>3. Deaths'
    BY <1>0 DEF IInv, Deaths, Tame, SameEnd, Quiet, Stray, Only, Single, KnownDead,
                Cancelled
  <1>4. Doubts'
    BY <1>0 DEF IInv, Doubts, Tame, SameClaim, Unresolved
  <1>5. Outcome'
    BY <1>0 DEF IInv, Outcome, Tame, SameEnd, Leaves, Others, Terminal
  <1>6. ASSUME NEW q \in Procs  PROVE Executes(q)'
    <2>1. CASE q # p \/ (UNCHANGED exec /\ UNCHANGED alive)
      <3>1. exec'[q] = exec[q] /\ (q \in alive => q \in alive')
        BY <2>1 DEF Leaves, Others
      <3> QED
        BY <1>0, <3>1 DEF IInv, Executes, Tame, SameClaim, SameEnd, ClaimCurrent, Owner,
         Only, Quiet, Stray, Answered
    <2>2. CASE q = p /\ Leaves(p)
      BY <1>0, <2>2 DEF IInv, Executes, Tame, SameClaim, SameEnd, ClaimCurrent, Owner,
         Only, Quiet, Stray, Answered, Leaves, Attached
    <2> QED  BY <2>1, <2>2 DEF Leaves, Others
  <1> QED  BY <1>1, <1>2, <1>3, <1>4, <1>5, <1>6 DEF IInv

-----------------------------------------------------------------------------
LEMMA FaultTyped == ASSUME Types, Fault  PROVE faults' \in 0 .. MaxFaults
  BY DelegationAssumption DEF Types, TypeOK, Fault

(* The tame steps, one by one.                                             *)
LEMMA TameControl ==
  ASSUME IInv, NEW p \in Procs,
         \/ AcceptContinuation(p) \/ AbortBeforeSpawn(p) \/ ActionInDoubt(p)
         \/ CleanupCompleted(p) \/ RemoveSession(p) \/ PauseUnbound(p) \/ ReconcileLive(p)
         \/ ReconcileUnknown(p) \/ FenceChanged(p) \/ CancelUnreadable(p)
  PROVE  IInv'
  <1> USE DEF IInv
  <1>1. /\ UNCHANGED <<kids, exec, alive>> /\ session' \in BOOLEAN
        /\ faults' \in 0 .. MaxFaults
    <2>1. UNCHANGED <<kids, exec, alive>>
      BY DEF AcceptContinuation, AbortBeforeSpawn, ActionInDoubt, CleanupCompleted,
         RemoveSession, PauseUnbound, ReconcileLive, ReconcileUnknown, FenceChanged,
         CancelUnreadable
    <2>2. session' \in {session, FALSE} /\ (Fault \/ UNCHANGED faults)
      BY DEF AcceptContinuation, AbortBeforeSpawn, ActionInDoubt, CleanupCompleted,
         RemoveSession, PauseUnbound, ReconcileLive, ReconcileUnknown, FenceChanged,
         CancelUnreadable
    <2> QED  BY <2>1, <2>2, FaultTyped DEF Types, TypeOK
  <1>2. Types /\ (d.action = "open" => d.state \notin Terminal)
    BY DEF Doubts, Unresolved
  <1>3. Tame
    <2>1. CASE AcceptContinuation(p)
      <3>1. d' = [d EXCEPT !.accepted = TRUE]  BY <2>1 DEF AcceptContinuation
      <3>2. Log'  BY <3>1, SMT DEF Types, Log, Fields
      <3>3. SameClaim /\ SameEnd /\ SameChild /\ d'.state = d.state /\ d'.action = d.action
        BY <3>1, SMT DEF Types, Log, Fields, SameClaim, SameEnd, SameChild
      <3> QED  BY <3>2, <3>3 DEF Tame, SameChild, Types, TypeOK
    <2>2. CASE AbortBeforeSpawn(p)
      <3>1. d' = [d EXCEPT !.state = "paused_uncertainty"] /\ d.state \notin Terminal
        BY <2>2 DEF AbortBeforeSpawn, Terminal
      <3> QED  BY <3>1, <1>2, TamePaused DEF Paused
    <2>3. CASE ActionInDoubt(p)
      BY <2>3, <1>2, TameDoubtful DEF ActionInDoubt
    <2>4. CASE CleanupCompleted(p)
      <3>1. d' = [d EXCEPT !.cleanup = "none"]  BY <2>4 DEF CleanupCompleted
      <3>2. Log'  BY <3>1, SMT DEF Types, Log, Fields
      <3>3. SameClaim /\ SameEnd /\ SameChild /\ d'.state = d.state /\ d'.action = d.action
        BY <3>1, SMT DEF Types, Log, Fields, SameClaim, SameEnd, SameChild
      <3> QED  BY <3>2, <3>3 DEF Tame, SameChild, Types, TypeOK
    <2>5. CASE RemoveSession(p)  BY <2>5, Untouched DEF RemoveSession
    <2>6. CASE PauseUnbound(p)
      <3>1. d' = [d EXCEPT !.state = "paused_uncertainty"] /\ d.state \notin Terminal
        BY <2>6 DEF PauseUnbound, Running, Terminal
      <3> QED  BY <3>1, <1>2, TamePaused DEF Paused
    <2>7. CASE ReconcileLive(p)
      <3>1. d' = [d EXCEPT !.state = "reattach_only"] /\ d.state \notin Terminal
        BY <2>7 DEF ReconcileLive, Reconcilable, Running, Terminal
      <3> QED  BY <3>1, <1>2, TamePaused DEF Paused
    <2>8. CASE ReconcileUnknown(p)  BY <2>8, TameIntegrity DEF ReconcileUnknown
    <2>9. CASE FenceChanged(p)  BY <2>9, TameIntegrity DEF FenceChanged
    <2>10. CASE CancelUnreadable(p)  BY <2>10, TameIntegrity DEF CancelUnreadable
    <2> QED  BY <2>1, <2>2, <2>3, <2>4, <2>5, <2>6, <2>7, <2>8, <2>9, <2>10
  <1> HIDE DEF IInv
  <1> QED  BY <1>1, <1>3, Tamed

LEMMA TameExecution ==
  ASSUME IInv, NEW p \in Procs,
         \/ AttemptFails(p) \/ BindRefused(p) \/ Abort(p) \/ FenceLost(p) \/ Stopped(p)
         \/ HandshakeFails(p) \/ ActionRefused(p) \/ ResultRefused(p)
         \/ GiveUp(p) \/ Interrupt(p) \/ Kill(p)
  PROVE  IInv'
  <1>1. Types /\ (d.action = "open" => d.state \notin Terminal)
    BY DEF IInv, Doubts, Unresolved
  <1>2. /\ UNCHANGED kids /\ session' \in BOOLEAN /\ faults' \in 0 .. MaxFaults
        /\ alive' \subseteq alive /\ alive \subseteq alive' \union {p}
    BY <1>1, DelegationAssumption DEF AttemptFails, BindRefused, Abort, FenceLost,
                                      Stopped, HandshakeFails,
       ActionRefused, ResultRefused, GiveUp, Interrupt, Kill, Fault, NoFault, Types,
       TypeOK
  <1>3. Tame
    <2>1. CASE AttemptFails(p) \/ BindRefused(p) \/ Abort(p) \/ FenceLost(p) \/ Stopped(p)
               \/ GiveUp(p) \/ Kill(p)
      BY <1>1, <2>1, Untouched DEF AttemptFails, BindRefused, Abort, FenceLost, Stopped,
         GiveUp, Kill
    <2>2. CASE HandshakeFails(p) \/ ActionRefused(p)
      BY <1>1, <2>2, Untouched, TameIntegrity DEF HandshakeFails, ActionRefused
    <2>3. CASE ResultRefused(p)
      BY <1>1, <2>3, Untouched, TameDoubtful, TameIntegrity DEF ResultRefused
    <2>4. CASE Interrupt(p)
      BY <1>1, <2>4, Untouched, TameInterrupted
         DEF Interrupt, Executing, Running, Terminal
    <2> QED  BY <2>1, <2>2, <2>3, <2>4
  <1>4. Leaves(p)
    <2>1. CASE AttemptFails(p) \/ Stopped(p)
      <3>1. /\ exec' = [exec EXCEPT ![p].pc = "ended", ![p].result = "unknown"]
            /\ exec[p].pc # "idle" /\ p \in alive'
        BY <2>1 DEF AttemptFails, Stopped
      <3>2. "unknown" \in Kinds  BY DEF Kinds
      <3> QED  BY <1>1, <3>1, <3>2, EndedWith DEF Leaves
    <2>2. CASE \/ BindRefused(p) \/ Abort(p) \/ FenceLost(p) \/ HandshakeFails(p)
               \/ ActionRefused(p) \/ ResultRefused(p)
      <3>1. /\ exec' = [exec EXCEPT ![p].pc = "stop"]
            /\ exec[p].pc \in Attached /\ p \in alive'
        BY <2>2 DEF BindRefused, Abort, FenceLost, HandshakeFails, ActionRefused,
           ResultRefused, Fenced, Attached
      <3>2. "stop" \in Pcs  BY DEF Pcs
      <3> QED  BY <1>1, <3>1, <3>2, Went DEF Leaves, Attached
    <2>3. CASE GiveUp(p) \/ Interrupt(p) \/ Kill(p)
      BY <1>1, <2>3, WentIdle DEF GiveUp, Interrupt, Kill, Leaves
    <2> QED  BY <2>1, <2>2, <2>3
  <1> QED  BY <1>2, <1>3, <1>4, Tamed

-----------------------------------------------------------------------------
(* A child that ends or says goodbye, or whose call begins or is blocked,  *)
(* is otherwise what it was.                                               *)
Fades ==
  /\ kids' \in Seq(Kid) /\ Len(kids') = Len(kids) /\ DOMAIN kids' = DOMAIN kids
  /\ \A i \in DOMAIN kids :
       /\ kids'[i].known = kids[i].known /\ kids'[i].spawn = kids[i].spawn
       /\ kids'[i].try = kids[i].try
       /\ kids'[i].live => kids[i].live
       /\ ~kids[i].live => kids'[i].final = kids[i].final
       /\ kids'[i].tool # "none" => kids[i].tool # "none"

LEMMA Faded ==
  ASSUME IInv, Fades, UNCHANGED <<alive, d, exec, session, faults>>
  PROVE  IInv'
  <1>1. Types'
    <2>1. \A i \in DOMAIN kids' : kids'[i] \in Kid  BY DEF Fades
    <2>2. \A i \in DOMAIN kids' : kids'[i].tool \in Tools  BY <2>1 DEF Kid
    <2>3. Len(kids') <= MaxChildren  BY DEF Fades, IInv, Types, TypeOK
    <2> QED  BY <2>2, <2>3 DEF IInv, Types, TypeOK, Log, Fades, Tools
  <1>2. Claims'
    <2>1. kids = <<>> => kids' = <<>>
      BY EmptySeq DEF Fades, IInv, Types
    <2> QED  BY <2>1 DEF IInv, Claims
  <1>3. Deaths'
    BY DEF IInv, Deaths, Fades, Quiet, Stray, Only, Single, KnownDead, Cancelled
  <1>4. Doubts'
    BY DEF IInv, Doubts, Fades, Unresolved
  <1>5. Outcome'
    BY DEF IInv, Outcome, Fades
  <1>6. ASSUME NEW q \in Procs  PROVE Executes(q)'
    <2>1. Executes(q) /\ DOMAIN kids = 1 .. Len(kids) /\ Len(kids) \in Nat /\ exec[q].kid \in Nat
      BY DEF IInv, Types, Exec
    <2>2. exec[q].pc # "idle" => Only(exec[q].kid)' /\ (Quiet => Quiet')
      BY <2>1 DEF Executes, Fades, Only, Quiet, Stray
    <2>3. exec[q].pc \in Attached \/ Answered(q) => exec[q].kid \in DOMAIN kids
      BY <2>1 DEF Executes, Attached, Answered
    <2>4. exec[q].pc \in {"bind", "greet", "work"} => kids'[exec[q].kid].spawn = d.spawn
      BY <2>1, <2>3 DEF Executes, Fades, Attached, Answered
    <2>5. Answered(q) => ~kids'[exec[q].kid].live /\ kids'[exec[q].kid].final
      BY <2>1, <2>3 DEF Executes, Fades, Answered
    <2>6. exec[q].pc \in {"greet", "work", "watch"} \/ Answered(q) => kids'[exec[q].kid].known
      BY <2>1, <2>3 DEF Executes, Fades, Attached, Answered
    <2> QED
      BY <2>1, <2>2, <2>4, <2>5, <2>6 DEF Executes, Fades, ClaimCurrent, Owner, Answered
  <1> QED  BY <1>1, <1>2, <1>3, <1>4, <1>5, <1>6 DEF IInv

LEMMA ChildSteps ==
  ASSUME IInv, NEW i \in DOMAIN kids,
         (\E final \in BOOLEAN : ChildEnds(i, final)) \/ ToolRuns(i) \/ CallBlocked(i)
  PROVE  IInv'
  <1>1. Types  BY DEF IInv
  <1>2. Fades
    <2>1. CASE \E final \in BOOLEAN : ChildEnds(i, final)
      <3>1. PICK f \in BOOLEAN : ChildEnds(i, f)  BY <2>1
      <3>2. kids[i].live /\ kids' = [kids EXCEPT ![i].live = FALSE, ![i].final = f,
                                       ![i].tool = IF @ = "asked" THEN "none" ELSE @]
        BY <3>1 DEF ChildEnds
      <3> QED  BY <1>1, <3>2, KidEnded DEF Fades, Siblings
    <2>2. CASE ToolRuns(i)
      <3>1. kids' = [kids EXCEPT ![i].tool = "runs"] /\ kids[i].tool # "none" /\ "runs" \in Tools
        BY <2>2 DEF ToolRuns, Tools
      <3> QED  BY <1>1, <3>1, KidTool DEF Fades, Siblings
    <2>3. CASE CallBlocked(i)
      <3>1. kids' = [kids EXCEPT ![i].tool = "none"] /\ "none" \in Tools
        BY <2>3 DEF CallBlocked, Tools
      <3> QED  BY <1>1, <3>1, KidTool DEF Fades, Siblings
    <2> QED  BY <2>1, <2>2, <2>3
  <1>3. UNCHANGED <<alive, d, exec, session, faults>>
    BY DEF ChildEnds, ToolRuns, CallBlocked
  <1> QED  BY <1>2, <1>3, Faded

LEMMA GoodbyeStep ==
  ASSUME IInv, NEW p \in Procs, Goodbye(p)  PROVE IInv'
  <1>1. Types  BY DEF IInv
  <1>2. exec[p].kid \in DOMAIN kids
    BY DEF IInv, Executes, Goodbye, Fenced, Attached, Types, Exec
  <1>3. kids' = [kids EXCEPT ![exec[p].kid].bye = TRUE]  BY DEF Goodbye
  <1>4. Fades  BY <1>1, <1>2, <1>3, KidBye DEF Fades, Siblings
  <1> QED  BY <1>4, Faded DEF Goodbye

-----------------------------------------------------------------------------
(* The steps of the record alone that are not tame.                        *)
RecordOnly ==
  /\ UNCHANGED <<alive, exec, kids, session>> /\ faults' \in 0 .. MaxFaults
  /\ Log' /\ d'.owner \in Procs \union {None} /\ d'.state \in States
  /\ d'.action \in {"none", "open", "unknown", "undecided"}

LEMMA RecordTyped == ASSUME Types, RecordOnly  PROVE Types'
  BY DEF Types, TypeOK, RecordOnly, States

LEMMA StateTyped ==
  Types => /\ d.state \in States /\ d.owner \in Procs \union {None}
           /\ d.action \in {"none", "open", "unknown", "undecided"}
  BY DEF Types, TypeOK, States

LEMMA NoneApart ==
  /\ None \notin Procs /\ None \notin States /\ None \notin Nat \X Nat
  /\ Running \subseteq States /\ Terminal \subseteq States
  BY DelegationAssumption DEF States, Executing, PreSpawn, Terminal, Running

LEMMA KidsTyped ==
  Types => /\ Len(kids) \in Nat /\ DOMAIN kids = 1 .. Len(kids)
           /\ \A i \in DOMAIN kids : kids[i] \in Kid /\ kids[i].spawn \in Nat
  <1> SUFFICES ASSUME Types  PROVE \A i \in DOMAIN kids : kids[i] \in Kid /\ kids[i].spawn \in Nat
    BY DEF Types
  <1>1. \A i \in DOMAIN kids : kids[i] \in Kid  BY DEF Types
  <1>2. \A q \in Kid : q.spawn \in Nat  BY DEF Kid
  <1> QED  BY <1>1, <1>2

(* The owner alone executes.                                               *)
LEMMA OnlyOwner ==
  ASSUME IInv, NEW p \in Procs, exec[p].pc # "idle"
  PROVE  d.owner = p /\ p \in alive /\ \A q \in Procs \ {p} : exec[q].pc = "idle"
  BY DEF IInv, Executes, ClaimCurrent, Owner

LEMMA NobodyExecutes ==
  ASSUME IInv, \/ d.owner = None \/ OwnerDead \/ \E p \in Procs : Idle(p) /\ Owner(p)
  PROVE  \A q \in Procs : exec[q].pc = "idle"
  BY NoneApart DEF IInv, Executes, ClaimCurrent, Owner, OwnerDead, Idle

LEMMA ClaimStep ==
  ASSUME IInv, NEW p \in Procs, Claim(p)  PROVE IInv'
  <1>1. d' = [d EXCEPT !.owner = p, !.gen = 1] /\ d.state = "bound" /\ d.owner = None
        /\ UNCHANGED <<alive, exec, kids, session, faults>>
    BY DEF Claim
  <1>2. Types  BY DEF IInv
  <1>3. d'.owner = p /\ d'.gen = 1 /\ d'.spawn = d.spawn /\ d'.spawns = d.spawns
        /\ d'.spawnGen = d.spawnGen
    BY <1>1, <1>2, SMT DEF Types, Log, Fields
  <1>4. SameChild /\ SameEnd /\ d'.state = d.state /\ d'.action = d.action
    BY <1>1, <1>2, SMT DEF Types, Log, Fields, SameChild, SameEnd
  <1>5. Log'  BY <1>1, <1>2, SMT DEF Types, Log, Fields
  <1>6. Types'
    BY <1>1, <1>2, <1>3, <1>4, <1>5, RecordTyped, StateTyped DEF RecordOnly, Types, TypeOK
  <1>7. \A q \in Procs : exec[q].pc = "idle"  BY <1>1, NobodyExecutes
  <1>8. Claims'  BY <1>1, <1>3, <1>4 DEF IInv, Claims, SameEnd
  <1>9. Deaths'
    BY <1>1, <1>3, <1>4 DEF IInv, Deaths, SameChild, SameEnd, Quiet, Stray, Only,
                            Single, KnownDead, Cancelled
  <1>10. Doubts'  BY <1>1, <1>3, <1>4 DEF IInv, Doubts, Unresolved
  <1>11. Outcome'  BY <1>1, <1>4 DEF IInv, Outcome, SameEnd
  <1>12. \A q \in Procs : Executes(q)'  BY <1>1, <1>7 DEF Executes
  <1> QED  BY <1>6, <1>8, <1>9, <1>10, <1>11, <1>12 DEF IInv

LEMMA TransferStep ==
  ASSUME IInv, NEW p \in Procs, Transfer(p)  PROVE IInv'
  <1>1. d' = [d EXCEPT !.owner = p, !.gen = @ + 1] /\ OwnerDead
        /\ UNCHANGED <<alive, exec, kids, session, faults>>
    BY DEF Transfer
  <1>2. Types  BY DEF IInv
  <1>3. d'.owner = p /\ d'.gen = d.gen + 1 /\ d'.spawn = d.spawn /\ d'.spawns = d.spawns
        /\ d'.spawnGen = d.spawnGen
    BY <1>1, <1>2, SMT DEF Types, Log, Fields
  <1>4. SameChild /\ SameEnd /\ d'.state = d.state /\ d'.action = d.action
    BY <1>1, <1>2, SMT DEF Types, Log, Fields, SameChild, SameEnd
  <1>5. Log'  BY <1>1, <1>2, SMT DEF Types, Log, Fields
  <1>6. Types'
    BY <1>1, <1>2, <1>3, <1>4, <1>5, RecordTyped, StateTyped DEF RecordOnly, Types, TypeOK
  <1>7. \A q \in Procs : exec[q].pc = "idle"  BY <1>1, NobodyExecutes
  <1>8. Claims'  BY <1>1, <1>2, <1>3, <1>4 DEF IInv, Claims, SameEnd, Types, Log
  <1>9. Deaths'
    BY <1>1, <1>3, <1>4 DEF IInv, Deaths, SameChild, SameEnd, Quiet, Stray, Only,
                            Single, KnownDead, Cancelled
  <1>10. Doubts'  BY <1>1, <1>3, <1>4 DEF IInv, Doubts, Unresolved
  <1>11. Outcome'  BY <1>1, <1>4 DEF IInv, Outcome, SameEnd
  <1>12. \A q \in Procs : Executes(q)'  BY <1>1, <1>7 DEF Executes
  <1> QED  BY <1>6, <1>8, <1>9, <1>10, <1>11, <1>12 DEF IInv

LEMMA ReserveStep ==
  ASSUME IInv, NEW p \in Procs, ReserveInitial(p) \/ ReserveCycle(p)  PROVE IInv'
  <1>1. Types  BY DEF IInv
  <1>2. /\ Idle(p) /\ Owner(p) /\ UNCHANGED <<alive, exec, kids, session, faults>>
        /\ \/ d.state = "bound" /\ d'.state = "initial_ready"
           \/ d.proof # None /\ d.state = "recovery_ready" /\ d'.state = "cycle_ready"
    <2>1. CASE ReserveInitial(p)
      <3>1. d' = [d EXCEPT !.state = "initial_ready", !.intent = FALSE, !.spawned = FALSE]
        BY <2>1 DEF ReserveInitial
      <3>2. d'.state = "initial_ready"  BY <1>1, <3>1, SMT DEF Types, Log, Fields
      <3> QED  BY <2>1, <3>2 DEF ReserveInitial
    <2>2. CASE ReserveCycle(p)
      <3>1. d' = [d EXCEPT !.state = "cycle_ready", !.cycle = @ + 1,
                           !.intent = FALSE, !.spawned = FALSE]
        BY <2>2 DEF ReserveCycle
      <3>2. d'.state = "cycle_ready"  BY <1>1, <3>1, SMT DEF Types, Log, Fields
      <3>3. d.proof # None
        BY <1>1, <2>2, NoneApart DEF ReserveCycle, Recoverable, Types, Log
      <3> QED  BY <2>2, <3>2, <3>3 DEF ReserveCycle
    <2> QED  BY <2>1, <2>2
  <1>3. SameClaim /\ SameChild /\ SameEnd /\ d'.action = d.action
    <2>1. CASE ReserveInitial(p)
      <3>1. d' = [d EXCEPT !.state = "initial_ready", !.intent = FALSE, !.spawned = FALSE]
        BY <2>1 DEF ReserveInitial
      <3> QED  BY <1>1, <3>1, SMT DEF Types, Log, Fields, SameClaim, SameChild, SameEnd
    <2>2. CASE ReserveCycle(p)
      <3>1. d' = [d EXCEPT !.state = "cycle_ready", !.cycle = @ + 1,
                           !.intent = FALSE, !.spawned = FALSE]
        BY <2>2 DEF ReserveCycle
      <3> QED  BY <1>1, <3>1, SMT DEF Types, Log, Fields, SameClaim, SameChild, SameEnd
    <2> QED  BY <2>1, <2>2
  <1>4. DOMAIN d' = Fields
    BY <1>1 DEF ReserveInitial, ReserveCycle, Types, Log
  <1>5. Types'
    <2>1. Log'  BY <1>1, <1>3, <1>4 DEF SameClaim, SameChild, Types, Log
    <2>2. d'.state \in States  BY <1>2 DEF States, PreSpawn
    <2> QED
      BY <1>1, <1>2, <1>3, <2>1, <2>2, RecordTyped, StateTyped
         DEF RecordOnly, SameClaim, Types, TypeOK
  <1>6. \A q \in Procs : exec[q].pc = "idle"  BY <1>2, NobodyExecutes
  <1>7. Claims'  BY <1>2, <1>3 DEF IInv, Claims, SameEnd, SameClaim
  <1>8. Deaths'
    BY <1>2, <1>3 DEF IInv, Deaths, SameChild, SameEnd, Quiet, Stray, Only, Single,
                      KnownDead, Cancelled,
       Running, Terminal
  <1>9. Doubts'  BY <1>2, <1>3 DEF IInv, Doubts, Unresolved, SameClaim, Terminal
  <1>10. Outcome'  BY <1>2, <1>3 DEF IInv, Outcome, SameEnd
  <1>11. \A q \in Procs : Executes(q)'  BY <1>2, <1>6 DEF Executes
  <1> QED  BY <1>5, <1>7, <1>8, <1>9, <1>10, <1>11 DEF IInv

LEMMA SpawnIdTyped ==
  ASSUME Types, d.spawn <= d.spawns
  PROVE  SpawnId \in Nat /\ d.spawn <= SpawnId /\ (d.intent \/ d.spawns < SpawnId)
  BY DEF Types, Log, SpawnId

LEMMA CutOffStep ==
  ASSUME IInv, NEW p \in Procs, SpawnCutOff(p)  PROVE IInv'
  <1>1. Types  BY DEF IInv
  <1>2. /\ d' = [d EXCEPT !.intent = TRUE, !.spawn = SpawnId, !.spawns = SpawnId]
        /\ Idle(p) /\ Owner(p) /\ ~Unresolved /\ ~d.intent
        /\ UNCHANGED <<alive, exec, kids, session>> /\ faults' \in 0 .. MaxFaults
    BY <1>1, FaultTyped DEF SpawnCutOff, Startable, Blocked
  <1>3. SpawnId \in Nat /\ d.spawn <= SpawnId /\ d.spawn \in Nat
    BY <1>1, SpawnIdTyped DEF IInv, Claims, Types, Log
  <1>4. /\ d'.spawn = SpawnId /\ d'.spawns = SpawnId /\ d'.owner = d.owner
        /\ d'.gen = d.gen /\ d'.spawnGen = d.spawnGen
    BY <1>1, <1>2, SMT DEF Types, Log, Fields
  <1>5. SameChild /\ SameEnd /\ d'.state = d.state /\ d'.action = d.action
    BY <1>1, <1>2, SMT DEF Types, Log, Fields, SameChild, SameEnd
  <1>6. DOMAIN d' = Fields  BY <1>1, <1>2 DEF Types, Log
  <1>7. Types'
    <2>1. Log'  BY <1>1, <1>3, <1>4, <1>5, <1>6 DEF SameChild, Types, Log
    <2> QED  BY <1>1, <1>2, <1>4, <1>5, <2>1, RecordTyped, StateTyped DEF RecordOnly
  <1>8. \A q \in Procs : exec[q].pc = "idle"  BY <1>2, NobodyExecutes
  <1>9. Claims'
    BY <1>2, <1>3, <1>4, <1>5 DEF IInv, Claims, SameEnd
  <1>10. Deaths'
    BY <1>2, <1>5 DEF IInv, Deaths, SameChild, SameEnd, Quiet, Stray, Only, Single,
                      KnownDead, Cancelled
  <1>11. Doubts'
    <2>1. \A i \in DOMAIN kids : kids[i].tool = "none" /\ kids[i].spawn \in Nat
      BY <1>1, <1>2, KidsTyped DEF IInv, Doubts
    <2>2. \A i \in DOMAIN kids : kids[i].spawn <= d.spawn  BY DEF IInv, Doubts
    <2>3. \A i \in DOMAIN kids : kids[i].spawn <= d'.spawn  BY <1>3, <1>4, <2>1, <2>2
    <2> QED  BY <1>2, <1>5, <2>1, <2>3 DEF IInv, Doubts, Unresolved
  <1>12. Outcome'  BY <1>2, <1>5 DEF IInv, Outcome, SameEnd
  <1>13. \A q \in Procs : Executes(q)'  BY <1>2, <1>8 DEF Executes
  <1> QED  BY <1>7, <1>9, <1>10, <1>11, <1>12, <1>13 DEF IInv

(* The child of a bound delegation is seen dead: now none but strays live. *)
LEMMA DeadStep ==
  ASSUME IInv, NEW p \in Procs, ReconcileDead(p)  PROVE IInv'
  <1>1. Types  BY DEF IInv
  <1>2. /\ d' = Interrupted("transient", <<d.spawn, d.gen>>)
        /\ d.bound /\ ChildDead /\ d.state \notin Terminal
        /\ UNCHANGED <<alive, exec, kids, session, faults>>
    BY DEF ReconcileDead, Reconcilable, DeathSeen, Running, Terminal
  <1>3. SameClaim /\ SameEnd /\ d'.kid = d.kid /\ d'.action = d.action
    BY <1>1, <1>2, SMT DEF Types, Log, Fields, Interrupted, SameClaim, SameEnd
  <1>4. /\ ~d'.bound /\ d'.bound \in BOOLEAN /\ d'.proof = <<d.spawn, d.gen>>
        /\ d'.state \in Paused
    BY <1>1, <1>2, SMT DEF Types, Log, Fields, Interrupted, Paused
  <1>5. DOMAIN d' = Fields  BY <1>1, <1>2 DEF Types, Log, Interrupted
  <1>6. Types'
    <2>1. Log'  BY <1>1, <1>3, <1>4, <1>5 DEF SameClaim, Types, Log
    <2>2. d'.state \in States  BY <1>4 DEF States, Executing, PreSpawn, Paused
    <2> QED
      BY <1>1, <1>2, <1>3, <2>1, <2>2, RecordTyped, StateTyped
         DEF RecordOnly, SameClaim, Types, TypeOK
  <1>7. Quiet
    BY <1>2 DEF IInv, Deaths, Only, Quiet, ChildDead
  <1>8. d'.state \notin {"bound", "initial_ready", "cycle_ready", "cancel_requested"}
        /\ d'.state \notin Running /\ d'.state \notin Terminal
    BY <1>4 DEF Paused, Running, Terminal
  <1>9. Claims'  BY <1>2, <1>3, <1>8 DEF IInv, Claims, SameClaim, SameEnd
  <1>10. Deaths'
    BY <1>2, <1>3, <1>4, <1>7, <1>8
       DEF IInv, Deaths, SameEnd, Quiet, Stray, Only, Single, KnownDead, Cancelled
  <1>11. Doubts'  BY <1>2, <1>3, <1>8 DEF IInv, Doubts, Unresolved, SameClaim
  <1>12. Outcome'  BY <1>2, <1>3 DEF IInv, Outcome, SameEnd, Terminal
  <1>13. ASSUME NEW q \in Procs, exec[q].pc # "idle"  PROVE Executes(q)'
    <2>1. Executes(q)  BY DEF IInv
    <2> QED
      BY <1>2, <1>3, <1>8, <1>13, <2>1
         DEF Executes, SameClaim, SameEnd, ClaimCurrent, Owner, Only, Quiet, Stray,
             Answered
  <1>14. \A q \in Procs : Executes(q)'  BY <1>2, <1>13 DEF Executes
  <1> QED  BY <1>6, <1>9, <1>10, <1>11, <1>12, <1>14 DEF IInv

LEMMA RequestStep ==
  ASSUME IInv, NEW p \in Procs, RequestCancel(p)  PROVE IInv'
  <1>1. Types  BY DEF IInv
  <1>2. /\ d' = [d EXCEPT !.prior = d.state, !.state = "cancel_requested"]
        /\ d.state \notin Terminal /\ UNCHANGED <<alive, exec, kids, session, faults>>
    BY DEF RequestCancel
  <1>3. /\ SameClaim /\ SameChild /\ d'.action = d.action
        /\ d'.deathProved = d.deathProved /\ d'.outcome = d.outcome
    BY <1>1, <1>2, SMT DEF Types, Log, Fields, SameClaim, SameChild
  <1>4. d'.prior = d.state /\ d'.state = "cancel_requested"
    BY <1>1, <1>2, SMT DEF Types, Log, Fields
  <1>5. DOMAIN d' = Fields  BY <1>1, <1>2 DEF Types, Log
  <1>6. d.state # None  BY <1>1, StateTyped, NoneApart
  <1>7. Types'
    <2>1. Log'  BY <1>1, <1>3, <1>5 DEF SameClaim, SameChild, Types, Log
    <2>2. d'.state \in States  BY <1>4 DEF States
    <2> QED
      BY <1>1, <1>2, <1>3, <2>1, <2>2, RecordTyped, StateTyped
         DEF RecordOnly, SameClaim, Types, TypeOK
  <1>8. Claims'  BY <1>2, <1>3, <1>4 DEF IInv, Claims, SameClaim
  <1>9. Deaths'
    BY <1>2, <1>3, <1>4, <1>6
       DEF IInv, Deaths, SameChild, Quiet, Stray, Only, Single, KnownDead, Cancelled,
           Running, Terminal
  <1>10. Doubts'  BY <1>2, <1>3, <1>4 DEF IInv, Doubts, Unresolved, SameClaim, Terminal
  <1>11. Outcome'  BY <1>2, <1>3 DEF IInv, Outcome, Terminal
  <1>12. ASSUME NEW q \in Procs, exec[q].pc # "idle"  PROVE Executes(q)'
    <2>1. Executes(q)  BY DEF IInv
    <2> QED
      BY <1>2, <1>3, <1>4, <1>12, <2>1
         DEF Executes, SameClaim, SameChild, ClaimCurrent, Owner, Only, Quiet, Stray,
             Answered
  <1>13. \A q \in Procs : Executes(q)'  BY <1>2, <1>12 DEF Executes
  <1> QED  BY <1>7, <1>8, <1>9, <1>10, <1>11, <1>13 DEF IInv

(* A cancellation ends before a spawn, when nothing was ever bound or the  *)
(* last child is proved dead; or it proves that.                           *)
LEMMA CancelStep ==
  ASSUME IInv, NEW p \in Procs, CancelBeforeSpawn(p) \/ ProveDeath(p) \/ SettleCancel(p)
  PROVE  IInv'
  <1>1. Types  BY DEF IInv
  <1>2. CASE SettleCancel(p) /\ d.action = "open"
    <2>1. /\ d' = Doubtful /\ d.state \notin Terminal
          /\ UNCHANGED <<alive, exec, kids, session, faults>>
      BY <1>2 DEF SettleCancel, Terminal
    <2> QED  BY <1>1, <2>1, TameDoubtful, Tamed DEF Types, TypeOK
  <1>3. CASE CancelBeforeSpawn(p) \/ (SettleCancel(p) /\ d.action # "open")
    <2>1. /\ d' = [d EXCEPT !.state = "cancelled"] /\ ~Unresolved
          /\ UNCHANGED <<alive, exec, kids, session, faults>>
          /\ d.state = "cancel_requested"
      BY <1>3 DEF CancelBeforeSpawn, SettleCancel, NeverSpawned, Unresolved
    <2>2. SameClaim /\ SameChild /\ SameEnd /\ d'.action = d.action /\ d'.state = "cancelled"
      BY <1>1, <2>1, SMT DEF Types, Log, Fields, SameClaim, SameChild, SameEnd
    <2>3. Types'
      <3>1. DOMAIN d' = Fields  BY <1>1, <2>1 DEF Types, Log
      <3>2. Log'  BY <1>1, <2>2, <3>1 DEF SameClaim, SameChild, Types, Log
      <3>3. d'.state \in States  BY <2>2 DEF States, Terminal
      <3> QED
        BY <1>1, <2>1, <2>2, <3>2, <3>3, RecordTyped, StateTyped
           DEF RecordOnly, SameClaim, Types, TypeOK
    <2>4. KnownDead
      <3>1. CASE CancelBeforeSpawn(p)
        <4>1. CASE d.spawnGen = 0
          BY <1>1, <4>1 DEF IInv, Claims, KnownDead, Types
        <4>2. CASE d.spawnGen # 0
          <5>1. d.prior = "cycle_ready"
            BY <3>1, <4>2 DEF CancelBeforeSpawn, NeverSpawned, PreSpawn, Ever, IInv,
                              Claims
          <5> QED  BY <5>1 DEF IInv, Deaths, Quiet, Stray, KnownDead
        <4> QED  BY <4>1, <4>2
      <3>2. CASE SettleCancel(p)
        BY <3>2 DEF SettleCancel, IInv, Deaths
      <3> QED  BY <1>3, <3>1, <3>2
    <2>5. Claims'  BY <2>1, <2>2 DEF IInv, Claims, SameClaim, SameEnd
    <2>6. Deaths'
      BY <2>1, <2>2, <2>4 DEF IInv, Deaths, SameChild, SameEnd, Quiet, Stray, Only,
         Single, KnownDead, Cancelled, Running
    <2>7. Doubts'  BY <2>1, <2>2 DEF IInv, Doubts, Unresolved, SameClaim
    <2>8. Outcome'  BY <2>1, <2>2 DEF IInv, Outcome, SameEnd
    <2>9. ASSUME NEW q \in Procs, exec[q].pc # "idle"  PROVE Executes(q)'
      <3>1. Executes(q)  BY DEF IInv
      <3> QED
        BY <2>1, <2>2, <2>9, <3>1
           DEF Executes, SameClaim, SameChild, SameEnd, ClaimCurrent, Owner, Only, Quiet,
               Stray, Answered
    <2>10. \A q \in Procs : Executes(q)'  BY <2>1, <2>9 DEF Executes
    <2> QED  BY <2>3, <2>5, <2>6, <2>7, <2>8, <2>10 DEF IInv
  <1>4. CASE ProveDeath(p)
    <2>1. /\ d' = [d EXCEPT !.deathProved = TRUE, !.bound = FALSE, !.started = FALSE]
          /\ d.state = "cancel_requested" /\ ChildDead
          /\ UNCHANGED <<alive, exec, kids, session, faults>>
      BY <1>4 DEF ProveDeath
    <2>2. /\ SameClaim /\ d'.kid = d.kid /\ d'.proof = d.proof /\ d'.action = d.action
          /\ d'.state = d.state /\ d'.prior = d.prior /\ d'.outcome = d.outcome
      BY <1>1, <2>1, SMT DEF Types, Log, Fields, SameClaim
    <2>3. d'.deathProved /\ ~d'.bound /\ d'.bound \in BOOLEAN
      BY <1>1, <2>1, SMT DEF Types, Log, Fields
    <2>4. Types'
      <3>1. DOMAIN d' = Fields  BY <1>1, <2>1 DEF Types, Log
      <3>2. Log'  BY <1>1, <2>2, <2>3, <3>1 DEF SameClaim, Types, Log
      <3> QED
        BY <1>1, <2>1, <2>2, <3>2, RecordTyped, StateTyped
           DEF RecordOnly, SameClaim, Types, TypeOK
    <2>5. KnownDead  BY <2>1 DEF IInv, Deaths, KnownDead, ChildDead
    <2>6. Claims'  BY <2>1, <2>2 DEF IInv, Claims, SameClaim
    <2>7. Deaths'
      BY <2>1, <2>2, <2>3, <2>5 DEF IInv, Deaths, Quiet, Stray, Only, Single, KnownDead,
                                    Cancelled
    <2>8. Doubts'  BY <2>1, <2>2 DEF IInv, Doubts, Unresolved, SameClaim
    <2>9. Outcome'  BY <2>1, <2>2 DEF IInv, Outcome
    <2>10. ASSUME NEW q \in Procs, exec[q].pc # "idle"  PROVE Executes(q)'
      <3>1. Executes(q)  BY DEF IInv
      <3> QED
        BY <2>1, <2>2, <2>3, <2>10, <3>1
           DEF Executes, SameClaim, ClaimCurrent, Owner, Only, Quiet, Stray, Answered
    <2>11. \A q \in Procs : Executes(q)'  BY <2>1, <2>10 DEF Executes
    <2> QED  BY <2>4, <2>6, <2>7, <2>8, <2>9, <2>11 DEF IInv
  <1> QED  BY <1>2, <1>3, <1>4

-----------------------------------------------------------------------------
(* The steps of an execution that leave the record and the children alone. *)
LEMMA Forward ==
  ASSUME IInv, NEW p \in Procs, exec' \in [Procs -> Exec], Others(p),
         UNCHANGED <<alive, d, kids, session, faults>>,
         d.state # "returned" \/ exec[p].pc # "idle", Executes(p)'
  PROVE  IInv'
  <1>1. Types'
    <2>1. \A q \in Procs : exec'[q].pc \in Pcs  BY DEF Exec
    <2> QED  BY <2>1 DEF IInv, Types, TypeOK, Log, Pcs
  <1>2. Claims' /\ Deaths' /\ Doubts'
    BY DEF IInv, Claims, Deaths, Doubts, Quiet, Stray, Only, Single, KnownDead,
           Cancelled, Unresolved
  <1>3. Outcome'
    <2>1. d.outcome = 0  BY DEF IInv, Outcome
    <2> QED  BY <2>1 DEF Outcome
  <1>4. ASSUME NEW q \in Procs, q # p  PROVE Executes(q)'
    <2>1. exec'[q] = exec[q]  BY <1>4 DEF Others
    <2>2. Executes(q)  BY DEF IInv
    <2> QED
      BY <2>1, <2>2 DEF Executes, ClaimCurrent, Owner, Only, Quiet, Stray, Answered
  <1> QED  BY <1>1, <1>2, <1>3, <1>4 DEF IInv

LEMMA HandshakeStep ==
  ASSUME IInv, NEW p \in Procs, Handshake(p)  PROVE IInv'
  <1>1. Types /\ Executes(p)  BY DEF IInv
  <1>2. /\ exec' = [exec EXCEPT ![p].pc = "work"] /\ exec[p].pc = "greet" /\ p \in alive
        /\ UNCHANGED <<alive, d, kids, session, faults>>
    BY DEF Handshake
  <1>3. "work" \in Pcs  BY DEF Pcs
  <1>4. /\ exec' \in [Procs -> Exec] /\ Others(p) /\ exec'[p].pc = "work"
        /\ exec'[p].kid = exec[p].kid /\ exec'[p].spawn = exec[p].spawn
        /\ exec'[p].gen = exec[p].gen
    BY <1>1, <1>2, <1>3, Went
  <1>5. Executes(p)'
    BY <1>1, <1>2, <1>4
       DEF Executes, ClaimCurrent, Owner, Only, Quiet, Stray, Answered, Attached
  <1> QED  BY <1>2, <1>4, <1>5, Forward

(* The child of an attempt that has an answer is dead; the retry finds     *)
(* none but strays alive.                                                  *)
LEMMA AnswerStep ==
  ASSUME IInv, NEW p \in Procs, NEW k \in Kinds, Result(p, k) \/ Watched(p, k)
  PROVE  IInv'
  <1>1. Types /\ Executes(p)  BY DEF IInv
  <1>2. /\ exec[p].pc \in {"work", "watch"} /\ p \in alive /\ ~kids[exec[p].kid].live
        /\ k = "final" => kids[exec[p].kid].final
        /\ UNCHANGED <<alive, d, kids, session, faults>>
    BY DEF Result, Watched
  <1>3. CASE exec' = [exec EXCEPT ![p].pc = "run"] /\ exec[p].tries # 0
    <2>1. /\ exec' \in [Procs -> Exec] /\ Others(p) /\ exec'[p].pc = "run"
          /\ exec'[p].kid = exec[p].kid /\ exec'[p].spawn = exec[p].spawn
          /\ exec'[p].gen = exec[p].gen /\ exec'[p].tries = exec[p].tries
      BY <1>1, <1>3, Went DEF Pcs
    <2>2. Quiet  BY <1>1, <1>2 DEF Executes, Only, Quiet
    <2>3. Executes(p)'
      BY <1>1, <1>2, <1>3, <2>1, <2>2
         DEF Executes, ClaimCurrent, Owner, Only, Quiet, Stray, Answered, Attached
    <2> QED  BY <1>2, <2>1, <2>3, Forward
  <1>4. CASE exec' = [exec EXCEPT ![p].pc = "ended", ![p].result = k]
    <2>1. /\ exec' \in [Procs -> Exec] /\ Others(p) /\ exec'[p].pc = "ended"
          /\ exec'[p].kid = exec[p].kid /\ exec'[p].spawn = exec[p].spawn
          /\ exec'[p].gen = exec[p].gen /\ exec'[p].result = k
      BY <1>1, <1>4, EndedWith
    <2>2. Executes(p)'
      BY <1>1, <1>2, <2>1
         DEF Executes, ClaimCurrent, Owner, Only, Quiet, Stray, Answered, Attached
    <2> QED  BY <1>2, <2>1, <2>2, Forward
  <1>5. \/ exec' = [exec EXCEPT ![p].pc = "run"] /\ exec[p].tries # 0
        \/ exec' = [exec EXCEPT ![p].pc = "ended", ![p].result = k]
    BY <1>1 DEF Result, Watched, Executes
  <1> QED  BY <1>3, <1>4, <1>5

LEMMA ReattachStep ==
  ASSUME IInv, NEW p \in Procs, Reattach(p)  PROVE IInv'
  <1>1. Types  BY DEF IInv
  <1>2. /\ Idle(p) /\ ~Blocked /\ Owner(p) /\ d.bound /\ d.state \in Executing
        /\ UNCHANGED <<alive, kids, session, faults>>
    BY DEF Reattach
  <1>3. d.state \notin Terminal /\ d.state \notin {"cycle_ready", "bound", "initial_ready"}
    BY <1>2 DEF Executing, Running, Terminal
  <1>4. CASE ~Reattachable
    <2>1. d' = Interrupted("transient", None) /\ UNCHANGED exec  BY <1>4 DEF Reattach
    <2>2. Tame  BY <1>1, <1>3, <2>1, TameInterrupted
    <2> QED  BY <1>1, <1>2, <2>1, <2>2, Tamed DEF Types, TypeOK
  <1>5. CASE Reattachable
    <2> DEFINE k == d.kid
               v == d.spawn
               w == d.gen
    <2>1. UNCHANGED d  BY <1>5 DEF Reattach
    <2>0. exec' = [exec EXCEPT ![p] = [IdleExec EXCEPT !.pc = "watch", !.kid = k,
                                                      !.spawn = v, !.gen = w]]
      BY <1>5 DEF Reattach
    <2>2. d.kid \in Nat /\ d.spawn \in Nat /\ d.gen \in Nat  BY <1>1 DEF Types, Log
    <2>3. /\ exec' \in [Procs -> Exec] /\ Others(p) /\ exec'[p].pc = "watch"
          /\ exec'[p].kid = d.kid /\ exec'[p].spawn = d.spawn /\ exec'[p].gen = d.gen
      <3>1. k \in Nat /\ v \in Nat /\ w \in Nat  BY <2>2
      <3>2. /\ exec' \in [Procs -> Exec] /\ Others(p) /\ exec'[p].pc = "watch"
            /\ exec'[p].kid = k /\ exec'[p].spawn = v /\ exec'[p].gen = w
        <4> HIDE DEF k, v, w
        <4> QED  BY <1>1, <2>0, <3>1, WentWatching
      <3> QED  BY <3>2
    <2>4. d.kid # 0 /\ kids[d.kid].live  BY <1>5 DEF Reattachable, ChildLive
    <2>5. d.kid = Len(kids) /\ d.spawnGen # 0 /\ Only(d.kid) /\ kids[d.kid].known
      <3>1. d.kid \in DOMAIN kids /\ kids[d.kid].known  BY <2>4 DEF IInv, Deaths
      <3>2. kids # <<>>  BY <3>1
      <3> QED  BY <1>2, <2>4, <3>1, <3>2 DEF IInv, Deaths, Claims
    <2>6. d.prior # "cycle_ready"
      BY <1>2, NoneApart DEF Blocked, Cancelled, States, PreSpawn
    <2>7. Executes(p)'
      BY <1>2, <1>3, <2>1, <2>3, <2>4, <2>5, <2>6
         DEF Executes, ClaimCurrent, Owner, Only, Stray, Answered, Attached, Idle
    <2> QED  BY <1>2, <1>3, <2>1, <2>3, <2>7, Forward DEF Terminal
  <1> QED  BY <1>4, <1>5

-----------------------------------------------------------------------------
(* A spawn finds none but strays alive; so does each attempt of it.        *)
LEMMA SpawnStep ==
  ASSUME IInv, NEW p \in Procs, SpawnStarted(p)  PROVE IInv'
  <1>1. Types  BY DEF IInv
  <1>2. /\ d' = [d EXCEPT !.state = IF @ = "initial_ready" THEN "initial_running"
                                                          ELSE "recovery_running",
                          !.intent = TRUE, !.spawn = SpawnId, !.spawns = SpawnId,
                          !.started = TRUE, !.spawned = TRUE, !.spawnGen = d.gen,
                          !.bound = FALSE, !.proof = None]
        /\ exec' = [exec EXCEPT ![p] = [IdleExec EXCEPT !.pc = "run", !.spawn = SpawnId,
                                                       !.gen = d.gen]]
        /\ UNCHANGED <<alive, kids, session, faults>>
    BY DEF SpawnStarted
  <1>3. /\ Idle(p) /\ Owner(p) /\ ~Unresolved /\ ~Cancelled
        /\ d.state \in {"initial_ready", "cycle_ready"}
    BY DEF SpawnStarted, Startable, Blocked
  <1>4. SpawnId \in Nat /\ d.spawn <= SpawnId /\ d.spawn \in Nat /\ d.gen \in Nat
    BY <1>1, SpawnIdTyped DEF IInv, Claims, Types, Log
  <1>5. /\ d'.spawn = SpawnId /\ d'.spawns = SpawnId /\ d'.owner = d.owner
        /\ d'.gen = d.gen /\ d'.spawnGen = d.gen
    BY <1>1, <1>2, SMT DEF Types, Log, Fields
  <1>6. /\ d'.state \in Running /\ d'.kid = d.kid /\ ~d'.bound /\ d'.bound \in BOOLEAN
        /\ d'.proof = None
    BY <1>1, <1>2, SMT DEF Types, Log, Fields, Running
  <1>7. SameEnd /\ d'.action = d.action
    BY <1>1, <1>2, SMT DEF Types, Log, Fields, SameEnd
  <1>8. DOMAIN d' = Fields
    <2>1. DOMAIN d' = DOMAIN d  BY <1>2
    <2> QED  BY <1>1, <2>1 DEF Types, Log
  <1>9. /\ exec' \in [Procs -> Exec] /\ Others(p)
        /\ exec'[p].pc = "run" /\ exec'[p].spawn = SpawnId /\ exec'[p].gen = d.gen
        /\ exec'[p].tries = 0
    BY <1>1, <1>2, <1>4, WentRunning
  <1>10. Types'
    <2>1. Log'  BY <1>1, <1>4, <1>5, <1>6, <1>8 DEF Types, Log
    <2>2. d'.state \in States /\ d'.owner \in Procs \union {None}
          /\ d'.action \in {"none", "open", "unknown", "undecided"}
      BY <1>1, <1>5, <1>6, <1>7, NoneApart, StateTyped
    <2>3. \A q \in Procs : exec'[q].pc \in Pcs  BY <1>9 DEF Exec
    <2> QED  BY <1>1, <1>2, <1>9, <2>1, <2>2, <2>3 DEF Types, TypeOK, Pcs
  <1>11. d.gen # 0 /\ d.owner # None
    BY <1>3, NoneApart DEF Owner, IInv, Claims
  <1>12. Quiet
    <2>1. CASE d.state = "initial_ready"
      BY <2>1 DEF IInv, Claims, Quiet
    <2>2. CASE d.state = "cycle_ready"  BY <2>2 DEF IInv, Deaths
    <2> QED  BY <1>3, <2>1, <2>2
  <1>13. d.prior = None /\ None \notin {"bound", "initial_ready", "cycle_ready"}
    BY <1>3, NoneApart DEF Cancelled, States, PreSpawn
  <1>14. d'.state \notin {"bound", "initial_ready", "cycle_ready", "cancel_requested"}
         /\ d'.state \notin Terminal
    BY <1>6 DEF Running, Terminal
  <1>15. Claims'
    BY <1>2, <1>4, <1>5, <1>7, <1>11, <1>13, <1>14 DEF Claims, SameEnd
  <1>16. Deaths'
    BY <1>2, <1>6, <1>7, <1>12, <1>13, <1>14
       DEF IInv, Deaths, SameEnd, Quiet, Stray, Only, Single, KnownDead, Cancelled
  <1>17. Doubts'
    <2>1. \A i \in DOMAIN kids : kids[i].tool = "none" /\ kids[i].spawn \in Nat
      BY <1>1, <1>3, KidsTyped DEF IInv, Doubts
    <2>2. \A i \in DOMAIN kids : kids[i].spawn <= d.spawn  BY DEF IInv, Doubts
    <2>3. \A i \in DOMAIN kids : kids[i].spawn <= d'.spawn  BY <1>4, <1>5, <2>1, <2>2
    <2> QED  BY <1>2, <1>7, <1>14, <2>1, <2>3 DEF Doubts, Unresolved
  <1>18. Outcome'
    <2>1. d.outcome = 0  BY <1>3 DEF IInv, Outcome
    <2> QED  BY <1>7, <2>1 DEF Outcome, SameEnd
  <1>19. \A q \in Procs \ {p} : exec'[q].pc = "idle"
    BY <1>3, <1>9, NobodyExecutes DEF Others
  <1>20. Executes(p)'
    BY <1>2, <1>3, <1>5, <1>6, <1>7, <1>9, <1>11, <1>12, <1>13, <1>14
       DEF Executes, ClaimCurrent, Owner, Idle, SameEnd, Only, Quiet, Stray, Answered,
           Attached
  <1>21. \A q \in Procs : Executes(q)'  BY <1>19, <1>20 DEF Executes
  <1> QED  BY <1>10, <1>15, <1>16, <1>17, <1>18, <1>21 DEF IInv

LEMMA StartStep ==
  ASSUME IInv, NEW p \in Procs, StartAttempt(p)  PROVE IInv'
  <1> DEFINE n == Len(kids) + 1
             v == exec[p].spawn
             w == exec[p].tries + 1
  <1>1. Types /\ Executes(p)  BY DEF IInv
  <1>2. /\ exec[p].pc = "run" /\ p \in alive /\ Len(kids) < MaxChildren
        /\ UNCHANGED <<alive, d, session, faults>>
    BY DEF StartAttempt
  <1>3. v \in Nat /\ w \in Nat /\ n \in Nat /\ n # 0 /\ exec[p].tries \in Nat
    BY <1>1, KidsTyped DEF Types, Exec
  <1>4. /\ kids' \in Seq(Kid) /\ Len(kids') = n /\ DOMAIN kids' = 1 .. n
        /\ \A i \in DOMAIN kids : kids'[i] = kids[i]
        /\ ~kids'[n].known /\ kids'[n].tool = "none" /\ kids'[n].spawn = v /\ kids'[n].try = w
    <2>1. kids' = Append(kids, [live |-> TRUE, known |-> FALSE, final |-> FALSE,
                                tool |-> "none", bye |-> FALSE, spawn |-> v, try |-> w])
      BY DEF StartAttempt
    <2>2. /\ kids' \in Seq(Kid) /\ Len(kids') = Len(kids) + 1
          /\ DOMAIN kids' = 1 .. Len(kids) + 1
          /\ \A i \in DOMAIN kids : kids'[i] = kids[i]
          /\ ~kids'[Len(kids) + 1].known /\ kids'[Len(kids) + 1].tool = "none"
         /\ kids'[Len(kids) + 1].live /\ ~kids'[Len(kids) + 1].final
          /\ kids'[Len(kids) + 1].spawn = v /\ kids'[Len(kids) + 1].try = w
      <3> HIDE DEF v, w
      <3> QED  BY <1>1, <1>3, <2>1, Appended
    <2> QED  BY <2>2
  <1>5. /\ exec' \in [Procs -> Exec] /\ Others(p)
        /\ exec'[p].pc = "bind" /\ exec'[p].kid = n /\ exec'[p].tries # 0
        /\ exec'[p].spawn = exec[p].spawn /\ exec'[p].gen = exec[p].gen
    <2>1. exec' = [exec EXCEPT ![p].pc = "bind", ![p].kid = n, ![p].tries = @ + 1]
      BY DEF StartAttempt
    <2> HIDE DEF n
    <2> QED  BY <1>1, <1>3, <2>1, WentToBind
  <1>6. /\ DOMAIN kids = 1 .. Len(kids) /\ Len(kids) \in Nat
        /\ \A i \in DOMAIN kids' : i \in DOMAIN kids \/ i = n
        /\ n \notin DOMAIN kids /\ n \in DOMAIN kids'
    BY <1>1, <1>4, KidsTyped
  <1>7. Quiet /\ d.spawnGen # 0 /\ d.spawn = v /\ v \in Nat
        /\ "cycle_ready" \notin {d.state, d.prior}
    BY <1>1, <1>2, <1>3 DEF Executes, ClaimCurrent
  <1>8. exec[p].tries = 0 => ~d.bound /\ d.proof = None
    BY <1>1, <1>2 DEF Executes
  <1>9. \A i \in DOMAIN kids' : kids'[i].live /\ ~Stray(i)' => i = n
    BY <1>4, <1>6, <1>7 DEF Only, Quiet, Stray
  <1>10. exec[p].tries # 0 => Quiet'
    <2>1. exec[p].tries # 0 => w > 1  BY <1>3
    <2> HIDE DEF w, n
    <2> QED  BY <1>4, <1>6, <1>7, <2>1 DEF Quiet, Stray
  <1>11. Types'
    <2>1. \A i \in DOMAIN kids' : kids'[i].tool \in Tools
      <3>1. \A i \in DOMAIN kids' : kids'[i] \in Kid  BY <1>4
      <3> QED  BY <3>1 DEF Kid
    <2>2. \A q \in Procs : exec'[q].pc \in Pcs  BY <1>5 DEF Exec
    <2>3. Len(kids') <= MaxChildren  BY <1>2, <1>3, <1>4, <1>6, DelegationAssumption
    <2> HIDE DEF n
    <2> QED
      BY <1>1, <1>2, <1>4, <1>5, <2>1, <2>2, <2>3 DEF Types, TypeOK, Log, Tools, Pcs
  <1> HIDE DEF n, v, w
  <1>12. Claims'  BY <1>2, <1>7 DEF IInv, Claims
  <1>13. Deaths'
    <2>1. d.kid # 0 => d.kid \in DOMAIN kids' /\ kids'[d.kid].known
      BY <1>4, <1>6 DEF IInv, Deaths, n
    <2>2. \A i \in DOMAIN kids' : kids'[i].known => ~kids'[i].live
      BY <1>4, <1>6, <1>7 DEF Quiet, Stray
    <2>3. d.proof # None \/ d.bound => Quiet'  BY <1>8, <1>10
    <2>4. Quiet' => Only(d.kid)'  BY DEF Quiet, Only
    <2>5. Single'  BY <1>9 DEF Single
    <2> QED
      BY <1>2, <1>7, <2>1, <2>2, <2>3, <2>4, <2>5 DEF IInv, Deaths, KnownDead, Cancelled
  <1>14. Doubts'
    <2>1. \A i \in DOMAIN kids' : kids'[i].spawn <= d.spawn
      BY <1>4, <1>6, <1>7 DEF IInv, Doubts
    <2> QED  BY <1>2, <1>4, <1>6, <2>1 DEF IInv, Doubts, Unresolved
  <1>15. Outcome'
    <2>1. d.outcome = 0  BY <1>2 DEF IInv, Outcome
    <2> QED  BY <1>2, <2>1 DEF Outcome
  <1>16. Executes(p)'
    <2>1. Only(exec[p].kid)'  BY <1>5, <1>9 DEF Only
    <2> QED
      BY <1>1, <1>2, <1>3, <1>4, <1>5, <1>7, <2>1
         DEF Executes, ClaimCurrent, Owner, Answered, Attached
  <1>17. \A q \in Procs \ {p} : exec'[q].pc = "idle"
    BY <1>2, <1>5, OnlyOwner DEF Others
  <1>18. \A q \in Procs : Executes(q)'  BY <1>16, <1>17 DEF Executes
  <1> QED  BY <1>11, <1>12, <1>13, <1>14, <1>15, <1>18 DEF IInv

(* The child that is bound is the only one alive that is no stray, and     *)
(* becomes known.                                                          *)
LEMMA BindStep ==
  ASSUME IInv, NEW p \in Procs, Bind(p)  PROVE IInv'
  <1> DEFINE k == exec[p].kid
  <1>1. Types /\ Executes(p)  BY DEF IInv
  <1>2. /\ exec[p].pc = "bind" /\ p \in alive /\ ClaimCurrent(p) /\ ~Cancelled
        /\ d.state \in Running
        /\ d' = [d EXCEPT !.bound = TRUE, !.kid = exec[p].kid, !.boundGen = d.gen]
        /\ kids' = [kids EXCEPT ![k].known = TRUE]
        /\ exec' = [exec EXCEPT ![p].pc = "greet"]
        /\ UNCHANGED <<alive, session, faults>>
    BY DEF Bind, CanBind
  <1>3. k = Len(kids) /\ k # 0 /\ k \in DOMAIN kids /\ k \in Nat /\ Only(k) /\ d.spawnGen # 0
        /\ kids[k].spawn = d.spawn /\ exec[p].tries # 0 /\ d.prior # "cycle_ready"
    BY <1>1, <1>2, KidsTyped DEF Executes, Attached
  <1>4. /\ SameClaim /\ SameEnd /\ d'.state = d.state /\ d'.action = d.action
        /\ d'.proof = d.proof
    BY <1>1, <1>2, SMT DEF Types, Log, Fields, SameClaim, SameEnd
  <1>5. d'.bound /\ d'.bound \in BOOLEAN /\ d'.kid = k
    BY <1>1, <1>2, SMT DEF Types, Log, Fields
  <1>6. DOMAIN d' = Fields
    <2>1. DOMAIN d' = DOMAIN d  BY <1>2
    <2> QED  BY <1>1, <2>1 DEF Types, Log
  <1> HIDE DEF k
  <1>7. /\ kids' \in Seq(Kid) /\ Siblings(k) /\ DOMAIN kids' = DOMAIN kids
        /\ kids'[k].known /\ kids'[k].live = kids[k].live /\ kids'[k].tool = kids[k].tool
        /\ kids'[k].spawn = kids[k].spawn /\ kids'[k].final = kids[k].final
    BY <1>1, <1>2, <1>3, KidKnown
  <1>8. /\ exec' \in [Procs -> Exec] /\ Others(p) /\ exec'[p].pc = "greet"
        /\ exec'[p].kid = k /\ exec'[p].spawn = exec[p].spawn
        /\ exec'[p].gen = exec[p].gen /\ exec'[p].tries = exec[p].tries
    BY <1>1, <1>2, Went DEF Pcs, k
  <1>9. \A i \in DOMAIN kids' : kids'[i].live /\ ~Stray(i)' => i = k
    BY <1>3, <1>7 DEF Only, Stray, Siblings
  <1>10. Types'
    <2>1. \A i \in DOMAIN kids' : kids'[i].tool \in Tools
      <3>1. \A i \in DOMAIN kids' : kids'[i] \in Kid  BY <1>7
      <3> QED  BY <3>1 DEF Kid
    <2>2. \A q \in Procs : exec'[q].pc \in Pcs  BY <1>8 DEF Exec
    <2>3. Log'  BY <1>1, <1>3, <1>4, <1>5, <1>6 DEF Types, Log, SameClaim
    <2>4. Len(kids') <= MaxChildren  BY <1>1, <1>7 DEF Siblings, Types, TypeOK
    <2> QED
      BY <1>1, <1>2, <1>4, <1>7, <1>8, <2>1, <2>2, <2>3, <2>4
         DEF Types, TypeOK, Tools, Pcs, SameClaim
  <1>11. Claims'
    BY <1>3, <1>4 DEF IInv, Claims, SameClaim, SameEnd
  <1>12. d.proof = None /\ d.state \notin Terminal /\ ~d.deathProved
         /\ d.state \notin {"cycle_ready", "cancel_requested"}
    BY <1>2 DEF IInv, Deaths, Running, Terminal
  <1>13. Deaths'
    <2>1. \A i \in DOMAIN kids' : kids'[i].known /\ kids'[i].live => i = k /\ i = Len(kids')
      BY <1>3, <1>7 DEF Only, Stray, Siblings
    <2>2. Only(d.kid)'  BY <1>5, <1>9 DEF Only
    <2>3. Single'  BY <1>9 DEF Single
    <2> QED
      BY <1>3, <1>4, <1>5, <1>7, <1>12, <2>1, <2>2, <2>3 DEF Deaths, SameEnd
  <1>14. Doubts'
    <2>1. \A i \in DOMAIN kids' : kids'[i].spawn = kids[i].spawn /\ kids'[i].tool = kids[i].tool
      BY <1>7 DEF Siblings
    <2> QED  BY <1>4, <1>7, <2>1 DEF IInv, Doubts, Unresolved, SameClaim
  <1>15. Outcome'
    <2>1. d.outcome = 0  BY <1>2 DEF IInv, Outcome
    <2> QED  BY <1>4, <2>1 DEF Outcome, SameEnd
  <1>16. Executes(p)'
    <2>1. Only(exec[p].kid)'  BY <1>8, <1>9 DEF Only
    <2> QED
      BY <1>2, <1>3, <1>4, <1>7, <1>8, <1>12, <2>1
         DEF Executes, ClaimCurrent, Owner, SameClaim, SameEnd, Siblings, Answered,
             Attached
  <1>17. \A q \in Procs \ {p} : exec'[q].pc = "idle"
    BY <1>2, <1>8, OnlyOwner DEF Others
  <1>18. \A q \in Procs : Executes(q)'  BY <1>16, <1>17 DEF Executes
  <1> QED  BY <1>10, <1>11, <1>13, <1>14, <1>15, <1>18 DEF IInv

-----------------------------------------------------------------------------
(* The calls of tools: children are what they were but for their tools.    *)
Retooled ==
  /\ kids' \in Seq(Kid) /\ Len(kids') = Len(kids) /\ DOMAIN kids' = DOMAIN kids
  /\ \A i \in DOMAIN kids :
       /\ kids'[i].known = kids[i].known /\ kids'[i].spawn = kids[i].spawn
       /\ kids'[i].try = kids[i].try /\ kids'[i].live = kids[i].live
       /\ kids'[i].final = kids[i].final

LEMMA ToolStep ==
  ASSUME IInv, Retooled, Log', SameClaim, SameEnd, SameChild,
         d'.action \in {"none", "open", "unknown", "undecided"},
         d'.state = d.state \/ d'.state \in Paused \union {"cancel_requested"},
         d.state \notin Terminal, d'.state = "cancel_requested" => Cancelled,
         UNCHANGED <<alive, exec, session, faults>>, Doubts'
  PROVE  IInv'
  <1>1. Types  BY DEF IInv
  <1>2. d'.state = d.state \/ d'.state \notin Running \union {"bound", "initial_ready", "cycle_ready"}
    BY DEF Paused, Running
  <1>3. d'.state \notin Terminal  BY DEF Paused, Terminal
  <1>4. Types'
    <2>1. \A i \in DOMAIN kids' : kids'[i].tool \in Tools
      <3>1. \A i \in DOMAIN kids' : kids'[i] \in Kid  BY DEF Retooled
      <3> QED  BY <3>1 DEF Kid
    <2>2. d'.state \in States
      BY <1>1, StateTyped DEF Paused, States, Executing, PreSpawn
    <2>3. Len(kids') <= MaxChildren  BY <1>1 DEF Retooled, Types, TypeOK
    <2> QED  BY <1>1, <2>1, <2>2, <2>3 DEF Retooled, Types, TypeOK, Tools, SameClaim
  <1>5. Claims'
    <2>1. kids = <<>> => kids' = <<>>  BY <1>1, EmptySeq DEF Retooled, Types
    <2> QED  BY <1>2, <2>1 DEF IInv, Claims, SameClaim, SameEnd
  <1>6. Deaths'
    BY <1>2, <1>3 DEF IInv, Deaths, Retooled, SameChild, SameEnd, Quiet, Stray, Only,
       Single, KnownDead, Cancelled
  <1>7. Outcome'
    <2>1. d.outcome = 0  BY DEF IInv, Outcome, Terminal
    <2> QED  BY <2>1 DEF Outcome, SameEnd
  <1>8. ASSUME NEW q \in Procs  PROVE Executes(q)'
    <2>1. Executes(q) /\ DOMAIN kids = 1 .. Len(kids) /\ Len(kids) \in Nat
          /\ exec[q].kid \in Nat
      BY <1>1, KidsTyped DEF IInv, Types, Exec
    <2>2. (exec[q].pc # "idle" => Only(exec[q].kid)') /\ (Quiet => Quiet')
      BY <2>1 DEF Executes, Retooled, Only, Quiet, Stray
    <2>3. exec[q].pc \in Attached \/ Answered(q) => exec[q].kid \in DOMAIN kids
      BY <2>1 DEF Executes, Attached, Answered
    <2>4. exec[q].pc \in {"bind", "greet", "work"} => kids'[exec[q].kid].spawn = d.spawn
      BY <2>1, <2>3 DEF Executes, Retooled, Attached, Answered
    <2>5. Answered(q) => ~kids'[exec[q].kid].live /\ kids'[exec[q].kid].final
      BY <2>1, <2>3 DEF Executes, Retooled, Answered
    <2>6. exec[q].pc \in {"greet", "work", "watch"} \/ Answered(q) => kids'[exec[q].kid].known
      BY <2>1, <2>3 DEF Executes, Retooled, Attached, Answered
    <2> QED
      BY <1>2, <2>1, <2>2, <2>4, <2>5, <2>6
         DEF Executes, Retooled, ClaimCurrent, Owner, Answered, SameClaim, SameChild,
             SameEnd
  <1> QED  BY <1>4, <1>5, <1>6, <1>7, <1>8 DEF IInv

LEMMA IntentStep ==
  ASSUME IInv, NEW p \in Procs, ActionIntent(p)  PROVE IInv'
  <1> DEFINE k == exec[p].kid
  <1>1. Types /\ Executes(p)  BY DEF IInv
  <1>2. /\ d' = [d EXCEPT !.action = "open"] /\ kids' = [kids EXCEPT ![k].tool = "asked"]
        /\ exec[p].pc = "work" /\ ~Unresolved /\ d.state \in Executing
        /\ UNCHANGED <<alive, exec, session, faults>>
    BY DEF ActionIntent, Fenced, MayAct, Blocked
  <1>3. k \in DOMAIN kids /\ kids[k].spawn = d.spawn
    BY <1>1, <1>2, KidsTyped DEF Executes, Attached
  <1>4. /\ SameClaim /\ SameEnd /\ SameChild /\ d'.state = d.state /\ d'.action = "open"
    BY <1>1, <1>2, SMT DEF Types, Log, Fields, SameClaim, SameEnd, SameChild
  <1>5. Log'  BY <1>1, <1>2, SMT DEF Types, Log, Fields
  <1>6. d.state \notin Terminal /\ d.state # "cancel_requested"
    BY <1>2 DEF Executing, Running, Terminal
  <1> HIDE DEF k
  <1>7. /\ kids' \in Seq(Kid) /\ Siblings(k) /\ DOMAIN kids' = DOMAIN kids
        /\ kids'[k].known = kids[k].known /\ kids'[k].live = kids[k].live
        /\ kids'[k].tool = "asked" /\ kids'[k].spawn = kids[k].spawn
        /\ kids'[k].try = kids[k].try /\ kids'[k].final = kids[k].final
    BY <1>1, <1>2, <1>3, KidTool DEF Tools
  <1>8. Retooled  BY <1>7 DEF Retooled, Siblings
  <1>9. Doubts'
    <2>1. \A i \in DOMAIN kids : kids[i].tool = "none"  BY <1>2 DEF IInv, Doubts
    <2>2. \A i \in DOMAIN kids' : kids'[i].tool # "none" => i = k  BY <1>7, <2>1
       DEF Siblings
    <2>3. \A i \in DOMAIN kids' : kids'[i].spawn = kids[i].spawn  BY <1>8 DEF Retooled
    <2> QED
      BY <1>3, <1>4, <1>6, <1>7, <2>2, <2>3 DEF IInv, Doubts, Unresolved, SameClaim
  <1> QED  BY <1>2, <1>4, <1>5, <1>6, <1>8, <1>9, ToolStep

LEMMA ResultStep ==
  ASSUME IInv, NEW p \in Procs, ActionResult(p)  PROVE IInv'
  <1> DEFINE k == exec[p].kid
  <1>1. Types /\ Executes(p)  BY DEF IInv
  <1>2. /\ d' = [d EXCEPT !.action = "none"] /\ kids' = [kids EXCEPT ![k].tool = "none"]
        /\ exec[p].pc = "work" /\ d.action = "open" /\ kids[k].tool = "runs"
        /\ UNCHANGED <<alive, exec, session, faults>>
    BY DEF ActionResult, Fenced
  <1>3. k \in DOMAIN kids
    BY <1>1, <1>2, KidsTyped DEF Executes, Attached
  <1>4. /\ SameClaim /\ SameEnd /\ SameChild /\ d'.state = d.state /\ d'.action = "none"
    BY <1>1, <1>2, SMT DEF Types, Log, Fields, SameClaim, SameEnd, SameChild
  <1>5. Log'  BY <1>1, <1>2, SMT DEF Types, Log, Fields
  <1>6. d.state \notin Terminal /\ (d.state = "cancel_requested" => Cancelled)
    BY <1>2 DEF IInv, Doubts, Deaths, Unresolved
  <1> HIDE DEF k
  <1>7. /\ kids' \in Seq(Kid) /\ Siblings(k) /\ DOMAIN kids' = DOMAIN kids
        /\ kids'[k].known = kids[k].known /\ kids'[k].live = kids[k].live
        /\ kids'[k].tool = "none" /\ kids'[k].spawn = kids[k].spawn
        /\ kids'[k].try = kids[k].try /\ kids'[k].final = kids[k].final
    BY <1>1, <1>2, <1>3, KidTool DEF Tools
  <1>8. Retooled  BY <1>7 DEF Retooled, Siblings
  <1>9. Doubts'
    <2>1. \A i \in DOMAIN kids : kids[i].tool # "none" => i = k
      BY <1>2, <1>3 DEF IInv, Doubts
    <2>2. \A i \in DOMAIN kids' : kids'[i].tool = "none"  BY <1>7, <2>1 DEF Siblings
    <2>3. \A i \in DOMAIN kids' : kids'[i].spawn = kids[i].spawn  BY <1>8 DEF Retooled
    <2> QED  BY <1>4, <1>7, <2>2, <2>3 DEF IInv, Doubts, Unresolved, SameClaim
  <1> QED  BY <1>2, <1>4, <1>5, <1>6, <1>8, <1>9, ToolStep

LEMMA DisposeStep ==
  ASSUME IInv, NEW p \in Procs, NEW verdict, Dispose(p, verdict)  PROVE IInv'
  <1>1. Types  BY DEF IInv
  <1>2. d.action = "unknown" /\ d.state \notin Terminal
        /\ UNCHANGED <<alive, exec, session, faults>>
    BY DEF Dispose, IInv, Doubts, Unresolved
  <1>3. CASE verdict = "still_unknown"
    <2>1. /\ d' = [d EXCEPT !.action = "undecided", !.state = "paused_uncertainty"]
          /\ UNCHANGED kids
      BY <1>3 DEF Dispose
    <2>2. Log' /\ SameClaim /\ SameEnd /\ SameChild
      <3>1. Log'  BY <1>1, <2>1, SMT DEF Types, Log, Fields
      <3>2. SameClaim /\ SameEnd /\ SameChild
        BY <1>1, <2>1, SMT DEF Types, Log, Fields, SameClaim, SameEnd, SameChild
      <3> QED  BY <3>1, <3>2
    <2>3. d'.action = "undecided" /\ d'.state = "paused_uncertainty"
      BY <1>1, <2>1, SMT DEF Types, Log, Fields
    <2>4. Tame  BY <1>2, <2>2, <2>3 DEF Tame, SameChild, Paused
    <2> QED  BY <1>1, <1>2, <2>1, <2>4, Tamed DEF Types, TypeOK
  <1>4. CASE verdict # "still_unknown"
    <2>1. kids' = [i \in DOMAIN kids |-> [kids[i] EXCEPT !.tool = "none"]]
      BY <1>4 DEF Dispose
    <2>2. \/ d' = [d EXCEPT !.action = "none", !.state = "cancel_requested"] /\ Cancelled
          \/ \E v \in Paused : d' = [d EXCEPT !.action = "none", !.accepted = TRUE, !.state = v]
      <3>1. CASE Cancelled  BY <1>4, <3>1 DEF Dispose
      <3>2. CASE ~Cancelled
        <4> DEFINE v == CASE DeathProved -> "recovery_ready"
                          [] LiveProof   -> "reattach_only"
                          [] OTHER       -> "paused_integrity"
        <4>1. v \in Paused  BY DEF Paused
        <4>2. d' = [d EXCEPT !.action = "none", !.accepted = TRUE, !.state = v]
          BY <1>4, <3>2 DEF Dispose
        <4> QED  BY <4>1, <4>2
      <3> QED  BY <3>1, <3>2
    <2>3. /\ Log' /\ SameClaim /\ SameEnd /\ SameChild /\ d'.action = "none"
          /\ d'.state \in Paused \/ (d'.state = "cancel_requested" /\ Cancelled)
      <3>1. CASE d' = [d EXCEPT !.action = "none", !.state = "cancel_requested"] /\ Cancelled
        <4>1. Log'  BY <1>1, <3>1, SMT DEF Types, Log, Fields
        <4>2. SameClaim /\ SameEnd /\ SameChild
          BY <1>1, <3>1, SMT DEF Types, Log, Fields, SameClaim, SameEnd, SameChild
        <4>3. d'.action = "none" /\ d'.state = "cancel_requested"
          BY <1>1, <3>1, SMT DEF Types, Log, Fields
        <4> QED  BY <3>1, <4>1, <4>2, <4>3
      <3>2. ASSUME NEW v \in Paused,
                   d' = [d EXCEPT !.action = "none", !.accepted = TRUE, !.state = v]
            PROVE  /\ Log' /\ SameClaim /\ SameEnd /\ SameChild /\ d'.action = "none"
                   /\ d'.state \in Paused
        <4>1. Log'  BY <1>1, <3>2, SMT DEF Types, Log, Fields
        <4>2. SameClaim /\ SameEnd /\ SameChild
          BY <1>1, <3>2, SMT DEF Types, Log, Fields, SameClaim, SameEnd, SameChild
        <4>3. d'.action = "none" /\ d'.state = v
          BY <1>1, <3>2, SMT DEF Types, Log, Fields
        <4> QED  BY <4>1, <4>2, <4>3
      <3> QED  BY <2>2, <3>1, <3>2
    <2>4. /\ kids' \in Seq(Kid) /\ Len(kids') = Len(kids) /\ DOMAIN kids' = DOMAIN kids
          /\ \A i \in DOMAIN kids :
               /\ kids'[i].known = kids[i].known /\ kids'[i].live = kids[i].live
               /\ kids'[i].tool = "none" /\ kids'[i].spawn = kids[i].spawn
               /\ kids'[i].try = kids[i].try /\ kids'[i].final = kids[i].final
      BY <1>1, <2>1, KidsCleared
    <2>5. Retooled  BY <2>4 DEF Retooled
    <2>6. Doubts'  BY <2>3, <2>4 DEF IInv, Doubts, Unresolved, SameClaim
    <2>7. d'.state = "cancel_requested" => Cancelled  BY <2>3 DEF Paused
    <2> QED  BY <1>2, <2>3, <2>5, <2>6, <2>7, ToolStep
  <1> QED  BY <1>3, <1>4

(* The outcome is that of the last child, dead with an answer; nobody      *)
(* executes any more.                                                      *)
LEMMA CommitStep ==
  ASSUME IInv, NEW p \in Procs, NEW e \in BOOLEAN, Commit(p, e)  PROVE IInv'
  <1> DEFINE returned == [d EXCEPT !.state = "returned", !.started = FALSE,
                         !.cleanup = IF e THEN "pending" ELSE "none",
                         !.outcome = exec[p].kid]
  <1>1. Types /\ Executes(p)  BY DEF IInv
  <1>2. /\ exec[p].pc = "ended" /\ exec[p].result = "final"
        /\ exec' = [exec EXCEPT ![p] = IdleExec]
        /\ UNCHANGED <<alive, kids, session, faults>>
        /\ \/ d' = d
           \/ d' = Doubtful /\ d.action = "open"
           \/ d' = returned /\ ~Unresolved /\ d.state \in Executing
    BY DEF Commit
  <1>3. exec' \in [Procs -> Exec] /\ Others(p) /\ exec'[p].pc = "idle"
    BY <1>1, <1>2, WentIdle
  <1>4. CASE d' = d \/ (d' = Doubtful /\ d.action = "open")
    <2>1. Tame
      BY <1>1, <1>4, Untouched, TameDoubtful DEF IInv, Doubts, Unresolved
    <2> QED  BY <1>1, <1>2, <1>3, <2>1, Tamed DEF Leaves, Types, TypeOK
  <1>5. CASE d' = returned /\ ~Unresolved /\ d.state \in Executing
    <2>1. /\ SameClaim /\ SameChild /\ d'.prior = d.prior /\ d'.deathProved = d.deathProved
          /\ d'.action = d.action
      BY <1>1, <1>5, SMT DEF Types, Log, Fields, SameClaim, SameChild
    <2>2. d'.state = "returned" /\ d'.outcome = exec[p].kid
      BY <1>1, <1>5, SMT DEF Types, Log, Fields
    <2>3. DOMAIN d' = Fields
      <3>1. DOMAIN d' = DOMAIN d  BY <1>5
      <3> QED  BY <1>1, <3>1 DEF Types, Log
    <2>4. exec[p].kid = Len(kids) /\ exec[p].kid \in DOMAIN kids /\ Only(exec[p].kid)
          /\ kids[exec[p].kid].final /\ ~kids[exec[p].kid].live
      BY <1>1, <1>2, KidsTyped DEF Executes, Answered
    <2>5. KnownDead  BY <2>4 DEF Only, Stray, KnownDead
    <2>6. \A q \in Procs : exec'[q].pc = "idle"
      BY <1>2, <1>3, OnlyOwner DEF Others
    <2>7. Types'
      <3>1. Log'  BY <1>1, <2>1, <2>3 DEF Types, Log, SameClaim, SameChild
      <3>2. d'.state \in States  BY <2>2 DEF States, Terminal
      <3> QED  BY <1>1, <1>2, <1>3, <2>1, <2>6, <3>1, <3>2 DEF Types, TypeOK, SameClaim
    <2>8. Claims'  BY <1>2, <2>1, <2>2 DEF IInv, Claims, SameClaim
    <2>9. Deaths'
      BY <1>2, <2>1, <2>2, <2>5 DEF IInv, Deaths, SameChild, Quiet, Stray, Only, Single,
                                    KnownDead,
         Cancelled, Running
    <2>10. Doubts'  BY <1>2, <1>5, <2>1 DEF IInv, Doubts, Unresolved, SameClaim
    <2>11. Outcome'  BY <1>2, <2>2, <2>4, <2>6 DEF Outcome
    <2>12. \A q \in Procs : Executes(q)'  BY <2>6 DEF Executes
    <2> QED  BY <2>7, <2>8, <2>9, <2>10, <2>11, <2>12 DEF IInv
  <1> QED  BY <1>2, <1>4, <1>5

-----------------------------------------------------------------------------
LEMMA InitIInv == Init => IInv
  <1> SUFFICES ASSUME Init  PROVE IInv  OBVIOUS
  <1>1. /\ exec = [p \in Procs |-> IdleExec] /\ kids = <<>> /\ alive = Procs
        /\ session = TRUE /\ faults = 0
    BY DEF Init
  <1>2. /\ d.state = "bound" /\ d.owner = None /\ d.gen = 0 /\ d.spawn = 0 /\ d.spawns = 0
        /\ d.spawnGen = 0 /\ d.kid = 0 /\ d.proof = None /\ d.prior = None
        /\ d.action = "none" /\ d.outcome = 0
    BY DEF Init
  <1>3. ~d.bound /\ d.bound \in BOOLEAN /\ ~d.deathProved  BY DEF Init
  <1>4. DOMAIN d = Fields  BY DEF Init, Fields
  <1>5. Types
    <2>1. exec \in [Procs -> Exec] /\ \A p \in Procs : exec[p].pc = "idle"
      BY <1>1, IdleTyped
    <2>2. kids \in Seq(Kid) /\ Len(kids) = 0 /\ DOMAIN kids = {}
      <3>1. kids \in Seq(Kid) /\ Len(kids) = 0  BY <1>1, EmptySeq
      <3>2. DOMAIN kids = 1 .. 0  BY <3>1, LenProperties
      <3> QED  BY <3>1, <3>2
    <2>3. Log  BY <1>2, <1>3, <1>4 DEF Log
    <2>4. faults \in 0 .. MaxFaults /\ Len(kids) <= MaxChildren
      BY <1>1, <2>2, DelegationAssumption
    <2> QED  BY <1>1, <1>2, <2>1, <2>2, <2>3, <2>4 DEF Types, TypeOK, States, PreSpawn
  <1>6. Claims  BY <1>1, <1>2 DEF Claims
  <1>7. Deaths
    BY <1>1, <1>2, <1>3, NoneApart
       DEF Deaths, Quiet, Only, Single, Running, Terminal, States, PreSpawn
  <1>8. Doubts  BY <1>1, <1>2 DEF Doubts, Terminal
  <1>9. Outcome  BY <1>2 DEF Outcome
  <1>10. \A p \in Procs : Executes(p)  BY <1>1, IdleTyped DEF Executes
  <1> QED  BY <1>5, <1>6, <1>7, <1>8, <1>9, <1>10 DEF IInv

LEMMA NextIInv == IInv /\ [Next]_vars => IInv'
  <1> SUFFICES ASSUME IInv, [Next]_vars  PROVE IInv'  OBVIOUS
  <1>1. ASSUME NEW p \in Procs, Own(p)  PROVE IInv'
    BY <1>1, ClaimStep, TransferStep, ReserveStep, SpawnStep, CutOffStep, TameControl
       DEF Own
  <1>2. ASSUME NEW p \in Procs, Execute(p)  PROVE IInv'
    <2>1. CASE \E kind \in Kinds : Result(p, kind) \/ Watched(p, kind)
      BY <2>1, AnswerStep
    <2>2. CASE \E e \in BOOLEAN : Commit(p, e)  BY <2>2, CommitStep
    <2>3. CASE StartAttempt(p) \/ Bind(p) \/ Handshake(p)
      BY <2>3, StartStep, BindStep, HandshakeStep
    <2>4. CASE ActionIntent(p) \/ ActionResult(p) \/ Goodbye(p)
      BY <2>4, IntentStep, ResultStep, GoodbyeStep
    <2>5. CASE ActionInDoubt(p) \/ RemoveSession(p) \/ CleanupCompleted(p)
      BY <2>5, TameControl
    <2>6. CASE \/ AttemptFails(p) \/ BindRefused(p) \/ HandshakeFails(p) \/ Abort(p)
               \/ Stopped(p) \/ ActionRefused(p) \/ FenceLost(p) \/ ResultRefused(p)
               \/ Interrupt(p) \/ GiveUp(p)
      BY <2>6, TameExecution
    <2> QED  BY <1>2, <2>1, <2>2, <2>3, <2>4, <2>5, <2>6 DEF Execute, Kinds
  <1>3. ASSUME NEW p \in Procs, Reconcile(p)  PROVE IInv'
    BY <1>3, TameControl, DeadStep, ReattachStep DEF Reconcile
  <1>4. ASSUME NEW p \in Procs, Control(p)  PROVE IInv'
    BY <1>4, DisposeStep, RequestStep, CancelStep, TameControl DEF Control
  <1>5. ASSUME NEW p \in Procs, Kill(p)  PROVE IInv'  BY <1>5, TameExecution
  <1>6. ASSUME NEW i \in 1 .. Len(kids),
               (\E final \in BOOLEAN : ChildEnds(i, final)) \/ ToolRuns(i) \/ CallBlocked(i)
        PROVE  IInv'
    <2>1. i \in DOMAIN kids  BY KidsTyped DEF IInv
    <2> QED  BY <1>6, <2>1, ChildSteps
  <1>7. CASE UNCHANGED vars
    BY <1>7 DEF vars, IInv, Types, TypeOK, Log, Claims, Deaths, Doubts, Outcome,
                Executes, Quiet,
       Stray, Only, Single, KnownDead, Cancelled, Unresolved, ClaimCurrent, Owner,
       Answered
  <1> QED  BY <1>1, <1>2, <1>3, <1>4, <1>5, <1>6, <1>7 DEF Next

(* The inductive invariant holds in every reachable state.                 *)
THEOREM DelegationIInv == Spec => []IInv
  BY InitIInv, NextIInv, PTL DEF Spec

-----------------------------------------------------------------------------
(* Every variable keeps its type, and the bounds on children and faults    *)
(* hold.                                                                   *)
THEOREM DelegationTyped == Spec => []TypeOK
  <1>1. IInv => TypeOK  BY DEF IInv, Types
  <1> QED  BY <1>1, DelegationIInv, PTL

(* Of two children that live at once one is a retry that was never bound,  *)
(* whatever is killed or taken over in between (cycle_reserved and         *)
(* spawn_started ask for the proof of death that                           *)
(* reconcileRunningChildInternal recorded).                                *)
THEOREM DelegationChildrenFollowDeath == Spec => []ChildrenFollowDeath
  <1>1. ASSUME IInv  PROVE ChildrenFollowDeath
    <2> SUFFICES ASSUME NEW i \in DOMAIN kids, NEW j \in DOMAIN kids, i < j,
                        kids[i].live, kids[j].live, ~Stray(i), ~Stray(j)
                 PROVE  FALSE
      BY DEF ChildrenFollowDeath, Stray
    <2>1. i # j  BY <1>1, KidsTyped DEF IInv
    <2> QED  BY <1>1, <2>1 DEF IInv, Deaths, Single
  <1> QED  BY <1>1, DelegationIInv, PTL

(* A call of a tool that runs is unresolved in the record, which is neither *)
(* returned nor cancelled, and no later child was started.                 *)
THEOREM DelegationNoDoubtCarriedOn == Spec => []NoDoubtCarriedOn
  <1>1. ASSUME IInv  PROVE NoDoubtCarriedOn
    BY <1>1 DEF IInv, Doubts, NoDoubtCarriedOn
  <1> QED  BY <1>1, DelegationIInv, PTL

(* No child that was ever bound outlives a returned or cancelled           *)
(* delegation.                                                             *)
THEOREM DelegationSettledIsQuiet == Spec => []SettledIsQuiet
  <1>1. ASSUME IInv  PROVE SettledIsQuiet
    BY <1>1 DEF IInv, Deaths, KnownDead, SettledIsQuiet
  <1> QED  BY <1>1, DelegationIInv, PTL

(* The recorded outcome is the answer of the last child.                   *)
THEOREM DelegationOutcomeIsLatest == Spec => []OutcomeIsLatest
  <1>1. ASSUME IInv  PROVE OutcomeIsLatest
    BY <1>1 DEF IInv, Outcome, OutcomeIsLatest
  <1> QED  BY <1>1, DelegationIInv, PTL

(* At most one process executes, and it is the live owner on record, by    *)
(* the claim it started with: what ownerClaimMatches compares before every *)
(* append cannot have changed under it, for an owner that lives is never   *)
(* taken over from.                                                        *)
OneExecutes ==
  \A p \in Procs : exec[p].pc # "idle" =>
    /\ p \in alive /\ ClaimCurrent(p)
    /\ \A q \in Procs \ {p} : exec[q].pc = "idle"

THEOREM DelegationOneExecutes == Spec => []OneExecutes
  <1>1. ASSUME IInv  PROVE OneExecutes
    BY <1>1, OnlyOwner DEF OneExecutes, IInv, Executes
  <1> QED  BY <1>1, DelegationIInv, PTL

(* A returned or cancelled delegation stays what it is, with its outcome,  *)
(* whatever is appended later.                                             *)
SettledForGood ==
  [][d.state \in Terminal => d'.state = d.state /\ d'.outcome = d.outcome]_vars

LEMMA SettledStep ==
  ASSUME IInv, [Next]_vars, d.state \in Terminal
  PROVE  d'.state = d.state /\ d'.outcome = d.outcome
  <1>1. /\ Types /\ d.action = "none"
        /\ d.state \notin PreSpawn \union Executing \union
             {"recovery_ready", "cycle_ready", "cancel_requested", "paused_uncertainty"}
    BY DEF IInv, Doubts, Unresolved, PreSpawn, Executing, Running, Terminal
  <1>2. d' = IntegrityPaused => UNCHANGED d  BY <1>1 DEF IntegrityPaused
  <1>3. ASSUME NEW p \in Procs, Own(p)  PROVE FALSE
    <2>1. \/ d.state \in PreSpawn \union Executing \union {"recovery_ready"}
          \/ d.state = "initial_ready"
      BY <1>3 DEF Own, Claim, Transfer, ReserveInitial, ReserveCycle, AcceptContinuation,
         SpawnStarted, SpawnCutOff, AbortBeforeSpawn, Startable, PreSpawn
    <2> QED  BY <1>1, <2>1 DEF PreSpawn
  <1>4. ASSUME NEW p \in Procs, Execute(p), ~CleanupCompleted(p)  PROVE UNCHANGED d
    <2>1. CASE Commit(p, TRUE) \/ Commit(p, FALSE) \/ Interrupt(p)
      BY <1>1, <2>1 DEF Commit, Interrupt
    <2>2. CASE HandshakeFails(p) \/ ActionRefused(p) \/ ResultRefused(p)
      BY <1>1, <1>2, <2>2 DEF HandshakeFails, ActionRefused, ResultRefused
    <2>3. CASE Bind(p)  BY <1>1, <2>3 DEF Bind, CanBind, Executing
    <2>4. CASE ActionIntent(p)  BY <1>1, <2>4 DEF ActionIntent, MayAct
    <2>5. CASE ActionResult(p) \/ ActionInDoubt(p)
      BY <1>1, <2>5 DEF ActionResult, ActionInDoubt
    <2>6. CASE \E kind \in Kinds : Result(p, kind) \/ Watched(p, kind)
      BY <2>6 DEF Result, Watched
    <2>7. CASE \/ StartAttempt(p) \/ AttemptFails(p) \/ BindRefused(p) \/ Handshake(p)
               \/ Abort(p) \/ Stopped(p) \/ FenceLost(p) \/ Goodbye(p) \/ GiveUp(p)
               \/ RemoveSession(p)
      BY <2>7 DEF StartAttempt, AttemptFails, BindRefused, Handshake, Abort, Stopped,
         FenceLost, Goodbye, GiveUp, RemoveSession
    <2> QED
      BY <1>4, <2>1, <2>2, <2>3, <2>4, <2>5, <2>6, <2>7 DEF Execute, Kinds
  <1>5. ASSUME NEW p \in Procs, CleanupCompleted(p)
        PROVE  d'.state = d.state /\ d'.outcome = d.outcome
    <2>1. d' = [d EXCEPT !.cleanup = "none"]  BY <1>5 DEF CleanupCompleted
    <2> QED  BY <1>1, <2>1, SMT DEF Types, Log, Fields
  <1>6. ASSUME NEW p \in Procs, Reconcile(p)  PROVE UNCHANGED d
    BY <1>1, <1>2, <1>6 DEF Reconcile, PauseUnbound, ReconcileDead, ReconcileLive,
       ReconcileUnknown, FenceChanged, Reattach, Reconcilable, Unresolved, Executing
  <1>7. ASSUME NEW p \in Procs, Control(p)  PROVE UNCHANGED d
    BY <1>1, <1>2, <1>7 DEF Control, Dispose, RequestCancel, CancelBeforeSpawn,
                            ProveDeath,
       CancelUnreadable, SettleCancel
  <1>8. ASSUME NEW p \in Procs, Kill(p)  PROVE UNCHANGED d  BY <1>8 DEF Kill
  <1>9. ASSUME NEW i \in 1 .. Len(kids),
               (\E final \in BOOLEAN : ChildEnds(i, final)) \/ ToolRuns(i) \/ CallBlocked(i)
        PROVE  UNCHANGED d
    BY <1>9 DEF ChildEnds, ToolRuns, CallBlocked
  <1>10. CASE UNCHANGED vars  BY <1>10 DEF vars
  <1> QED
    BY <1>3, <1>4, <1>5, <1>6, <1>7, <1>8, <1>9, <1>10 DEF Next

THEOREM DelegationSettledForGood == Spec => SettledForGood
  <1> DEFINE A == d.state \in Terminal => d'.state = d.state /\ d'.outcome = d.outcome
  <1>1. IInv /\ [Next]_vars => [A]_vars  BY SettledStep
  <1> QED  BY <1>1, DelegationIInv, PTL DEF Spec, SettledForGood

-----------------------------------------------------------------------------
(* The children as the abstract succession sees them.                      *)
Child == [live : BOOLEAN, bound : BOOLEAN, retry : BOOLEAN, final : BOOLEAN]
Faces(s) == [i \in DOMAIN s |-> Seen(s[i])]

LEMMA SeenTyped ==
  ASSUME NEW q \in Kid
  PROVE  /\ Seen(q) \in Child
         /\ Seen(q).live = q.live /\ Seen(q).bound = q.known
         /\ Seen(q).retry = (q.try > 1) /\ Seen(q).final = q.final
  <1>1. q.live \in BOOLEAN /\ q.known \in BOOLEAN /\ q.final \in BOOLEAN  BY DEF Kid
  <1>2. (q.try > 1) \in BOOLEAN  OBVIOUS
  <1> QED  BY <1>1, <1>2 DEF Seen, Child

(* What an assignment to its fields makes of such a record.                *)
LEMMA RecordChange ==
  ASSUME NEW S, NEW c \in [live : S, bound : S, retry : S, final : S], NEW v, NEW w,
         NEW r, r = [c EXCEPT !.live = w], NEW s, s = [r EXCEPT !.final = v]
  PROVE  s = [live |-> w, bound |-> c.bound, retry |-> c.retry, final |-> v]
  OBVIOUS

LEMMA RecordBound ==
  ASSUME NEW S, NEW c \in [live : S, bound : S, retry : S, final : S], NEW v,
         NEW r, r = [c EXCEPT !.bound = v]
  PROVE  r = [live |-> c.live, bound |-> v, retry |-> c.retry, final |-> c.final]
  OBVIOUS

LEMMA Repainted ==
  ASSUME NEW c \in Child, NEW v \in BOOLEAN
  PROVE  /\ [c EXCEPT !.bound = TRUE] = [live |-> c.live, bound |-> TRUE,
                                         retry |-> c.retry, final |-> c.final]
         /\ [[c EXCEPT !.live = FALSE] EXCEPT !.final = v] =
              [live |-> FALSE, bound |-> c.bound, retry |-> c.retry, final |-> v]
  <1> DEFINE r == [c EXCEPT !.live = FALSE]
             s == [r EXCEPT !.final = v]
  <1>1. [c EXCEPT !.bound = TRUE] = [live |-> c.live, bound |-> TRUE,
                                     retry |-> c.retry, final |-> c.final]
    BY RecordBound DEF Child
  <1>2. r = [c EXCEPT !.live = FALSE] /\ s = [r EXCEPT !.final = v]  OBVIOUS
  <1> HIDE DEF r, s
  <1>3. s = [live |-> FALSE, bound |-> c.bound, retry |-> c.retry, final |-> v]
    BY <1>2, RecordChange DEF Child
  <1> QED  BY <1>1, <1>3 DEF r, s

LEMMA FacesTyped ==
  ASSUME NEW s \in Seq(Kid)
  PROVE  /\ Faces(s) \in Seq(Child) /\ Len(Faces(s)) = Len(s) /\ DOMAIN Faces(s) = DOMAIN s
         /\ \A i \in DOMAIN s : Faces(s)[i] = Seen(s[i])
         /\ \A i \in DOMAIN s : s[i] \in Kid
         /\ Len(s) \in Nat /\ DOMAIN s = 1 .. Len(s)
  <1>1. Len(s) \in Nat /\ DOMAIN s = 1 .. Len(s) /\ \A i \in DOMAIN s : s[i] \in Kid
    BY LenProperties
  <1>2. DOMAIN Faces(s) = DOMAIN s /\ \A i \in DOMAIN s : Faces(s)[i] = Seen(s[i])
    BY DEF Faces
  <1>3. Faces(s) \in [1 .. Len(s) -> Child]  BY <1>1, SeenTyped DEF Faces
  <1>4. Faces(s) \in Seq(Child)  BY <1>1, <1>3, SeqDef
  <1>5. Len(Faces(s)) = Len(s)  BY <1>1, <1>2, <1>4, LenProperties
  <1> QED  BY <1>1, <1>2, <1>4, <1>5

(* Nothing the succession sees has changed.                                *)
Alike == Faces(kids') = Faces(kids)

LEMMA Lookalikes ==
  ASSUME Types, kids' \in Seq(Kid), DOMAIN kids' = DOMAIN kids,
         \A i \in DOMAIN kids :
           /\ kids'[i].known = kids[i].known /\ kids'[i].live = kids[i].live
           /\ kids'[i].try = kids[i].try /\ kids'[i].final = kids[i].final
  PROVE  Alike
  <1>1. \A i \in DOMAIN kids : Seen(kids'[i]) = Seen(kids[i])  BY DEF Seen
  <1> QED  BY <1>1 DEF Alike, Faces

(* What a step changes of the children is unseen, or it is the start, the  *)
(* binding or the end of one.                                              *)
LEMMA ChildrenChange ==
  ASSUME IInv, [Next]_vars
  PROVE  \/ Alike
         \/ \E p \in Procs : StartAttempt(p) \/ Bind(p)
         \/ \E i \in DOMAIN kids, f \in BOOLEAN : ChildEnds(i, f)
  <1>1. Types /\ DOMAIN kids = 1 .. Len(kids) /\ Len(kids) \in Nat
    BY KidsTyped DEF IInv
  <1>2. UNCHANGED kids => Alike  BY DEF Alike
  <1>3. ASSUME NEW i \in DOMAIN kids, NEW v \in Tools, kids' = [kids EXCEPT ![i].tool = v]
        PROVE  Alike
    BY <1>1, <1>3, KidTool, Lookalikes DEF Siblings
  <1>4. ASSUME NEW p \in Procs, exec[p].pc = "work"  PROVE exec[p].kid \in DOMAIN kids
    <2>1. Executes(p) /\ exec[p].kid \in Nat  BY <1>1 DEF IInv, Types, Exec
    <2> QED  BY <1>1, <1>4, <2>1 DEF Executes, Attached
  <1>5. ASSUME NEW p \in Procs, Own(p)  PROVE Alike
    BY <1>2, <1>5 DEF Own, Claim, Transfer, ReserveInitial, ReserveCycle,
       AcceptContinuation, SpawnStarted, SpawnCutOff, AbortBeforeSpawn
  <1>6. ASSUME NEW p \in Procs, Execute(p)  PROVE StartAttempt(p) \/ Bind(p) \/ Alike
    <2>1. CASE ActionIntent(p) \/ ActionResult(p)
      BY <1>3, <1>4, <2>1 DEF ActionIntent, ActionResult, Fenced, Tools
    <2>2. CASE Goodbye(p)
      <3>1. exec[p].kid \in DOMAIN kids  BY <1>4, <2>2 DEF Goodbye, Fenced
      <3> QED  BY <1>1, <2>2, <3>1, KidBye, Lookalikes DEF Goodbye, Siblings
    <2>3. CASE \E kind \in Kinds : Result(p, kind) \/ Watched(p, kind)
      BY <1>2, <2>3 DEF Result, Watched
    <2>4. CASE \E e \in BOOLEAN : Commit(p, e)  BY <1>2, <2>4 DEF Commit
    <2>5. CASE \/ AttemptFails(p) \/ BindRefused(p) \/ Handshake(p) \/ HandshakeFails(p)
               \/ Abort(p) \/ Stopped(p) \/ ActionRefused(p) \/ FenceLost(p)
               \/ ResultRefused(p) \/ ActionInDoubt(p) \/ Interrupt(p) \/ GiveUp(p)
               \/ RemoveSession(p) \/ CleanupCompleted(p)
      BY <1>2, <2>5 DEF AttemptFails, BindRefused, Handshake, HandshakeFails, Abort,
         Stopped, ActionRefused, FenceLost, ResultRefused, ActionInDoubt, Interrupt,
         GiveUp, RemoveSession, CleanupCompleted
    <2> QED  BY <1>6, <2>1, <2>2, <2>3, <2>4, <2>5 DEF Execute, Kinds
  <1>7. ASSUME NEW p \in Procs, Reconcile(p) \/ Kill(p)  PROVE Alike
    BY <1>2, <1>7 DEF Reconcile, PauseUnbound, ReconcileDead, ReconcileLive,
       ReconcileUnknown, FenceChanged, Reattach, Kill
  <1>8. ASSUME NEW p \in Procs, Control(p)  PROVE Alike
    <2>1. CASE \E v \in {"settled", "still_unknown"} : Dispose(p, v)
      <3>1. \/ UNCHANGED kids
            \/ kids' = [i \in DOMAIN kids |-> [kids[i] EXCEPT !.tool = "none"]]
        BY <2>1 DEF Dispose
      <3>2. CASE kids' = [i \in DOMAIN kids |-> [kids[i] EXCEPT !.tool = "none"]]
        BY <1>1, <3>2, KidsCleared, Lookalikes
      <3> QED  BY <1>2, <3>1, <3>2
    <2>2. CASE \/ RequestCancel(p) \/ CancelBeforeSpawn(p) \/ ProveDeath(p)
               \/ CancelUnreadable(p) \/ SettleCancel(p)
      BY <1>2, <2>2 DEF RequestCancel, CancelBeforeSpawn, ProveDeath, CancelUnreadable,
         SettleCancel
    <2> QED  BY <1>8, <2>1, <2>2 DEF Control
  <1>9. ASSUME NEW i \in DOMAIN kids, ToolRuns(i) \/ CallBlocked(i)  PROVE Alike
    BY <1>3, <1>9 DEF ToolRuns, CallBlocked, Tools
  <1>10. CASE UNCHANGED vars  BY <1>2, <1>10 DEF vars
  <1> QED  BY <1>1, <1>5, <1>6, <1>7, <1>8, <1>9, <1>10 DEF Next

(* Only a commit and the two ends of a cancellation settle a delegation.   *)
Settles(p) ==
  \/ \E e \in BOOLEAN : Commit(p, e)
  \/ CancelBeforeSpawn(p) \/ SettleCancel(p)

LEMMA OpenUntilSettled ==
  ASSUME IInv, [Next]_vars, d.state \notin Terminal
  PROVE  d'.state \notin Terminal \/ \E p \in Procs : Settles(p)
  <1>1. Types  BY DEF IInv
  <1>2. UNCHANGED d => d'.state \notin Terminal  OBVIOUS
  <1>3. Tame => d'.state \notin Terminal  BY DEF Tame, Paused, Terminal
  <1>4. DOMAIN d = Fields  BY <1>1 DEF Types, Log
  <1>5. ASSUME NEW p \in Procs, Own(p)  PROVE d'.state \notin Terminal
    <2>1. CASE Claim(p)
      <3>1. d' = [d EXCEPT !.owner = p, !.gen = 1]  BY <2>1 DEF Claim
      <3>2. d'.state = d.state  BY <1>4, <3>1, SMT DEF Fields
      <3> QED  BY <3>2
    <2>2. CASE Transfer(p)
      <3>1. d' = [d EXCEPT !.owner = p, !.gen = @ + 1]  BY <2>2 DEF Transfer
      <3>2. d'.state = d.state  BY <1>4, <3>1, SMT DEF Fields
      <3> QED  BY <3>2
    <2>3. CASE AcceptContinuation(p)
      <3>1. d' = [d EXCEPT !.accepted = TRUE]  BY <2>3 DEF AcceptContinuation
      <3>2. d'.state = d.state  BY <1>4, <3>1, SMT DEF Fields
      <3> QED  BY <3>2
    <2>4. CASE SpawnCutOff(p)
      <3>1. d' = [d EXCEPT !.intent = TRUE, !.spawn = SpawnId, !.spawns = SpawnId]
        BY <2>4 DEF SpawnCutOff
      <3>2. d'.state = d.state  BY <1>4, <3>1, SMT DEF Fields
      <3> QED  BY <3>2
    <2>5. CASE ReserveInitial(p)
      <3>1. d' = [d EXCEPT !.state = "initial_ready", !.intent = FALSE, !.spawned = FALSE]
        BY <2>5 DEF ReserveInitial
      <3>2. d'.state = "initial_ready"  BY <1>4, <3>1, SMT DEF Fields
      <3> QED  BY <3>2 DEF Terminal
    <2>6. CASE ReserveCycle(p)
      <3>1. d' = [d EXCEPT !.state = "cycle_ready", !.cycle = @ + 1,
                           !.intent = FALSE, !.spawned = FALSE]
        BY <2>6 DEF ReserveCycle
      <3>2. d'.state = "cycle_ready"  BY <1>4, <3>1, SMT DEF Fields
      <3> QED  BY <3>2 DEF Terminal
    <2>7. CASE AbortBeforeSpawn(p)
      <3>1. d' = [d EXCEPT !.state = "paused_uncertainty"]  BY <2>7 DEF AbortBeforeSpawn
      <3>2. d'.state = "paused_uncertainty"  BY <1>4, <3>1, SMT DEF Fields
      <3> QED  BY <3>2 DEF Terminal
    <2>8. CASE SpawnStarted(p)
      <3> DEFINE v == IF d.state = "initial_ready" THEN "initial_running"
                                                   ELSE "recovery_running"
      <3>1. d' = [d EXCEPT !.state = v,
                    !.intent = TRUE, !.spawn = SpawnId, !.spawns = SpawnId,
                    !.started = TRUE, !.spawned = TRUE, !.spawnGen = d.gen,
                    !.bound = FALSE, !.proof = None]
        BY <2>8 DEF SpawnStarted
      <3>2. v \in Running  BY DEF Running
      <3> HIDE DEF v
      <3>3. d'.state = v  BY <1>4, <3>1, SMT DEF Fields
      <3> QED  BY <3>2, <3>3 DEF Running, Terminal
    <2> QED  BY <1>5, <2>1, <2>2, <2>3, <2>4, <2>5, <2>6, <2>7, <2>8 DEF Own
  <1>6. ASSUME NEW p \in Procs, Execute(p), \A e \in BOOLEAN : ~Commit(p, e)
        PROVE  d'.state \notin Terminal
    <2>1. CASE Bind(p)
      <3>1. d'.state = d.state  BY <1>1, <2>1, SMT DEF Bind, Types, Log, Fields
      <3> QED  BY <3>1
    <2>2. CASE ActionIntent(p) \/ ActionResult(p) \/ CleanupCompleted(p)
      <3>1. d'.state = d.state
        BY <1>1, <2>2, SMT DEF ActionIntent, ActionResult, CleanupCompleted, Types, Log,
           Fields
      <3> QED  BY <3>1
    <2>3. CASE HandshakeFails(p) \/ ActionRefused(p)
      BY <1>1, <1>2, <1>3, <2>3, TameIntegrity DEF HandshakeFails, ActionRefused
    <2>4. CASE ResultRefused(p) \/ ActionInDoubt(p)
      BY <1>1, <1>2, <1>3, <2>4, TameIntegrity, TameDoubtful
         DEF ResultRefused, ActionInDoubt
    <2>5. CASE Interrupt(p)
      BY <1>1, <1>2, <1>3, <2>5, TameInterrupted DEF Interrupt
    <2>6. CASE \E kind \in Kinds : Result(p, kind) \/ Watched(p, kind)
      BY <1>2, <2>6 DEF Result, Watched
    <2>7. CASE \/ StartAttempt(p) \/ AttemptFails(p) \/ BindRefused(p) \/ Handshake(p)
               \/ Abort(p) \/ Stopped(p) \/ FenceLost(p) \/ Goodbye(p) \/ GiveUp(p)
               \/ RemoveSession(p)
      BY <1>2, <2>7 DEF StartAttempt, AttemptFails, BindRefused, Handshake, Abort,
         Stopped, FenceLost, Goodbye, GiveUp, RemoveSession
    <2> QED
      BY <1>6, <2>1, <2>2, <2>3, <2>4, <2>5, <2>6, <2>7 DEF Execute, Kinds
  <1>7. ASSUME NEW p \in Procs, Reconcile(p)  PROVE d'.state \notin Terminal
    <2>1. CASE ReconcileDead(p)
      <3>1. d'.state \in Paused
        BY <1>1, <2>1, SMT DEF ReconcileDead, Interrupted, Types, Log, Fields, Paused
      <3> QED  BY <3>1 DEF Paused, Terminal
    <2>2. CASE PauseUnbound(p) \/ ReconcileLive(p)
      <3>1. d'.state \in Paused
        BY <1>1, <2>2, SMT DEF PauseUnbound, ReconcileLive, Types, Log, Fields, Paused
      <3> QED  BY <3>1 DEF Paused, Terminal
    <2>3. CASE ReconcileUnknown(p) \/ FenceChanged(p)
      BY <1>1, <1>3, <2>3, TameIntegrity DEF ReconcileUnknown, FenceChanged
    <2>4. CASE Reattach(p)
      BY <1>1, <1>2, <1>3, <2>4, TameInterrupted DEF Reattach
    <2> QED  BY <1>7, <2>1, <2>2, <2>3, <2>4 DEF Reconcile
  <1>8. ASSUME NEW p \in Procs, Control(p), ~CancelBeforeSpawn(p), ~SettleCancel(p)
        PROVE  d'.state \notin Terminal
    <2>1. CASE \E v \in {"settled", "still_unknown"} : Dispose(p, v)
      <3>1. d'.state \in Paused \union {"cancel_requested"}
        BY <1>1, <2>1, SMT DEF Dispose, Types, Log, Fields, Paused
      <3> QED  BY <3>1 DEF Paused, Terminal
    <2>2. CASE RequestCancel(p)
      <3>1. d'.state = "cancel_requested"
        BY <1>1, <2>2, SMT DEF RequestCancel, Types, Log, Fields
      <3> QED  BY <3>1 DEF Terminal
    <2>3. CASE ProveDeath(p)
      <3>1. d'.state = d.state  BY <1>1, <2>3, SMT DEF ProveDeath, Types, Log, Fields
      <3> QED  BY <3>1
    <2>4. CASE CancelUnreadable(p)
      BY <1>1, <1>3, <2>4, TameIntegrity DEF CancelUnreadable
    <2> QED  BY <1>8, <2>1, <2>2, <2>3, <2>4 DEF Control
  <1>9. ASSUME NEW p \in Procs, Kill(p)  PROVE d'.state \notin Terminal
    BY <1>2, <1>9 DEF Kill
  <1>10. ASSUME NEW i \in 1 .. Len(kids),
                (\E final \in BOOLEAN : ChildEnds(i, final)) \/ ToolRuns(i) \/ CallBlocked(i)
         PROVE  d'.state \notin Terminal
    <2>1. UNCHANGED d  BY <1>10, Zenon DEF ChildEnds, ToolRuns, CallBlocked
    <2> QED  BY <1>2, <2>1
  <1>11. CASE UNCHANGED vars  BY <1>2, <1>11 DEF vars
  <1> QED  BY <1>5, <1>6, <1>7, <1>8, <1>9, <1>10, <1>11 DEF Next, Settles

(* A returned delegation has an outcome, so nobody executes it any more.   *)
Returns == d.state = "returned" => d.outcome # 0

(* A step that changes nothing the succession sees of the children and     *)
(* does not settle is a stutter.                                           *)
LEMMA Unseen ==
  ASSUME IInv, IInv', [Next]_vars, Alike, \A p \in Procs : ~Settles(p)
  PROVE  UNCHANGED Line!vars
  <1>1. CASE d.state \in Terminal
    <2>1. d'.state = d.state /\ d'.outcome = d.outcome  BY <1>1, SettledStep
    <2> QED  BY <2>1 DEF Line!vars, Alike, Faces, Ending
  <1>2. CASE d.state \notin Terminal
    <2>1. d'.state \notin Terminal  BY <1>2, OpenUntilSettled
    <2>2. d.outcome = 0 /\ d'.outcome = 0
      BY <1>2, <2>1 DEF IInv, Outcome, Terminal
    <2> QED  BY <1>2, <2>1, <2>2 DEF Line!vars, Alike, Faces, Ending
  <1> QED  BY <1>1, <1>2

LEMMA StartIsStart ==
  ASSUME IInv, Returns, NEW p \in Procs, StartAttempt(p)  PROVE Line!Start
  <1>1. Types /\ Executes(p) /\ exec[p].pc = "run" /\ UNCHANGED d
    BY DEF IInv, StartAttempt
  <1>2. Ending # "returned"
    <2>1. d.state # "returned"  BY <1>1 DEF Returns, IInv, Outcome
    <2> QED  BY <2>1 DEF Ending
  <1>3. /\ kids \in Seq(Kid) /\ \A i \in DOMAIN kids : kids[i] \in Kid
        /\ Len(kids) \in Nat /\ DOMAIN kids = 1 .. Len(kids)
    BY <1>1, FacesTyped DEF Types
  <1>4. \A i \in DOMAIN kids : kids[i].live => kids[i].try > 1 /\ ~kids[i].known
    BY <1>1 DEF Executes, Quiet, Stray
  <1>5. \A i \in DOMAIN Faces(kids) :
          Faces(kids)[i].live => Faces(kids)[i].retry /\ ~Faces(kids)[i].bound
    <2>1. DOMAIN Faces(kids) = DOMAIN kids
          /\ \A i \in DOMAIN kids : Faces(kids)[i] = Seen(kids[i])
      BY <1>3, FacesTyped
    <2>2. \A i \in DOMAIN kids :
            /\ Seen(kids[i]).live = kids[i].live /\ Seen(kids[i]).bound = kids[i].known
            /\ Seen(kids[i]).retry = (kids[i].try > 1)
      BY <1>3, SeenTyped
    <2> QED  BY <1>4, <2>1, <2>2
  <1> DEFINE k == Len(kids) + 1
             face(again) == [live |-> TRUE, bound |-> FALSE, retry |-> again,
                             final |-> FALSE]
             new == Seen(kids'[k])
  <1>6. /\ kids' \in Seq(Kid) /\ Len(kids') = k /\ DOMAIN kids' = 1 .. k
        /\ \A i \in DOMAIN kids : kids'[i] = kids[i]
        /\ ~kids'[k].known /\ kids'[k].live /\ ~kids'[k].final
    <2>1. exec[p].spawn \in Nat /\ exec[p].tries + 1 \in Nat  BY <1>1 DEF Types, Exec
    <2> QED  BY <1>1, <2>1, Appended DEF StartAttempt
  <1>7. kids'[k] \in Kid  BY <1>3, <1>6
  <1>8. \E again \in BOOLEAN : new = face(again)
    <2>1. kids'[k].live = TRUE /\ kids'[k].known = FALSE /\ kids'[k].final = FALSE
      BY <1>6, <1>7 DEF Kid
    <2>2. new = face(kids'[k].try > 1)  BY <2>1 DEF Seen
    <2>3. (kids'[k].try > 1) \in BOOLEAN  OBVIOUS
    <2> QED  BY <2>2, <2>3
  <1>9. Faces(kids') = Append(Faces(kids), new)
    <2>1. new \in Child  BY <1>7, SeenTyped
    <2>2. /\ Faces(kids) \in Seq(Child) /\ Len(Faces(kids)) = Len(kids)
          /\ \A i \in DOMAIN kids : Faces(kids)[i] = Seen(kids[i])
      BY <1>3, FacesTyped
    <2>3. /\ Faces(kids') \in Seq(Child) /\ Len(Faces(kids')) = k
          /\ \A i \in 1 .. k : Faces(kids')[i] = Seen(kids'[i])
      BY <1>6, FacesTyped
    <2> DEFINE app == Append(Faces(kids), new)
    <2>4. /\ app \in Seq(Child) /\ Len(app) = k /\ app[k] = new
          /\ \A i \in 1 .. Len(kids) : app[i] = Faces(kids)[i]
      <3> HIDE DEF new
      <3> QED  BY <1>3, <2>1, <2>2, AppendProperties
    <2>5. ASSUME NEW i \in 1 .. k  PROVE Faces(kids')[i] = app[i]
      <3>1. CASE i = k  BY <2>3, <2>4, <3>1
      <3>2. CASE i # k
        <4>1. i \in 1 .. Len(kids) /\ i \in DOMAIN kids  BY <1>3, <3>2
        <4>2. Faces(kids')[i] = Seen(kids'[i]) /\ kids'[i] = kids[i]
          BY <1>6, <2>3, <4>1
        <4>3. app[i] = Faces(kids)[i] /\ Faces(kids)[i] = Seen(kids[i])
          BY <2>2, <2>4, <4>1
        <4> QED  BY <4>2, <4>3
      <3> QED  BY <3>1, <3>2
    <2> HIDE DEF app, new
    <2>6. Faces(kids') = app  BY <2>3, <2>4, <2>5, SeqEqual
    <2> QED  BY <2>6 DEF app
  <1> HIDE DEF new
  <1>10. \E again \in BOOLEAN : Faces(kids') = Append(Faces(kids), face(again))
    BY <1>8, <1>9
  <1> QED
    BY <1>1, <1>2, <1>5, <1>10 DEF Line!Start, Faces, Ending

LEMMA BindIsBind ==
  ASSUME IInv, IInv', NEW p \in Procs, Bind(p)  PROVE Line!Bind
  <1> DEFINE k == exec[p].kid
  <1>1. Types /\ Executes(p) /\ exec[p].pc = "bind" /\ d.state \in Running
    BY DEF IInv, Bind, CanBind
  <1>2. /\ kids \in Seq(Kid) /\ \A i \in DOMAIN kids : kids[i] \in Kid
        /\ Len(kids) \in Nat /\ DOMAIN kids = 1 .. Len(kids)
    BY <1>1, FacesTyped DEF Types
  <1>3. k = Len(kids) /\ k # 0 /\ k \in DOMAIN kids
    <2>1. k = Len(kids) /\ k # 0  BY <1>1 DEF Executes, Attached
    <2> QED  BY <1>2, <2>1
  <1>4. Ending = "open" /\ Ending' = "open" /\ d.outcome = 0 /\ d'.outcome = 0
    <2>1. d'.state = d.state
      <3>1. d' = [d EXCEPT !.bound = TRUE, !.kid = exec[p].kid, !.boundGen = d.gen]
        BY DEF Bind
      <3> QED  BY <1>1, <3>1, SMT DEF Types, Log, Fields
    <2>2. d.state \notin Terminal  BY <1>1 DEF Running, Terminal
    <2> QED  BY <2>1, <2>2 DEF IInv, Outcome, Ending, Terminal
  <1>5. /\ kids' \in Seq(Kid) /\ Siblings(k) /\ DOMAIN kids' = DOMAIN kids
        /\ kids'[k].known /\ kids'[k].live = kids[k].live
        /\ kids'[k].final = kids[k].final /\ kids'[k].try = kids[k].try
    <2>1. kids' = [kids EXCEPT ![k].known = TRUE]  BY DEF Bind
    <2> HIDE DEF k
    <2> QED  BY <1>1, <1>3, <2>1, KidKnown
  <1> DEFINE F == Faces(kids)
  <1>6. /\ F \in Seq(Child) /\ Len(F) = Len(kids) /\ DOMAIN F = DOMAIN kids
        /\ \A i \in DOMAIN kids : F[i] = Seen(kids[i])
    BY <1>2, FacesTyped
  <1>7. Faces(kids') = [i \in DOMAIN kids |-> Seen(kids'[i])]  BY <1>5 DEF Faces
  <1>8. [F EXCEPT ![k].bound = TRUE] =
          [i \in DOMAIN kids |-> IF i = k THEN [F[k] EXCEPT !.bound = TRUE] ELSE F[i]]
    <2> HIDE DEF F, k
    <2> QED  BY <1>6
  <1>9. Seen(kids'[k]) = [F[k] EXCEPT !.bound = TRUE]
    <2>1. kids'[k].known = TRUE  BY <1>2, <1>3, <1>5 DEF Kid
    <2>2. F[k] = Seen(kids[k]) /\ kids[k] \in Kid  BY <1>2, <1>3, <1>6
    <2> HIDE DEF F, k
    <2>3. [F[k] EXCEPT !.bound = TRUE] =
            [live |-> kids[k].live, bound |-> TRUE, retry |-> kids[k].try > 1,
             final |-> kids[k].final]
      BY <2>2, SeenTyped, Repainted
    <2> QED  BY <1>5, <2>1, <2>3 DEF Seen
  <1>10. Faces(kids') = [F EXCEPT ![k].bound = TRUE]
    <2>1. \A i \in DOMAIN kids :
            Seen(kids'[i]) = IF i = k THEN [F[k] EXCEPT !.bound = TRUE] ELSE F[i]
      <3> HIDE DEF F, k
      <3> QED  BY <1>5, <1>6, <1>9 DEF Siblings
    <2> HIDE DEF F, k
    <2> QED  BY <1>7, <1>8, <2>1
  <1>11. Len(F) # 0 /\ Faces(kids') = [F EXCEPT ![Len(F)].bound = TRUE]
    BY <1>3, <1>6, <1>10
  <1> QED  BY <1>4, <1>11 DEF Line!Bind, Line!Last, Faces

LEMMA EndIsEnd ==
  ASSUME IInv, NEW i \in DOMAIN kids, NEW f \in BOOLEAN, ChildEnds(i, f)  PROVE Line!End
  <1>1. Types /\ UNCHANGED d /\ kids[i].live  BY DEF IInv, ChildEnds
  <1>2. kids \in Seq(Kid) /\ \A j \in DOMAIN kids : kids[j] \in Kid
    BY <1>1, FacesTyped DEF Types
  <1>3. /\ kids' \in Seq(Kid) /\ Siblings(i) /\ DOMAIN kids' = DOMAIN kids
        /\ kids'[i].known = kids[i].known /\ ~kids'[i].live
        /\ kids'[i].try = kids[i].try /\ kids'[i].final = f
    <2>1. kids' = [kids EXCEPT ![i].live = FALSE, ![i].final = f,
                               ![i].tool = IF @ = "asked" THEN "none" ELSE @]
      BY DEF ChildEnds
    <2> QED  BY <1>1, <2>1, KidEnded
  <1> DEFINE F == Faces(kids)
             g == [[F[i] EXCEPT !.live = FALSE] EXCEPT !.final = f]
  <1>4. /\ F \in Seq(Child) /\ DOMAIN F = DOMAIN kids
        /\ \A j \in DOMAIN kids : F[j] = Seen(kids[j])
    BY <1>2, FacesTyped
  <1>5. Faces(kids') = [j \in DOMAIN kids |-> Seen(kids'[j])]  BY <1>3 DEF Faces
  <1>6. [F EXCEPT ![i].live = FALSE, ![i].final = f] =
          [j \in DOMAIN kids |-> IF j = i THEN g ELSE F[j]]
    <2> HIDE DEF F
    <2> QED  BY <1>4
  <1>7. Seen(kids'[i]) = g
    <2>1. kids'[i].live = FALSE  BY <1>2, <1>3 DEF Kid
    <2>2. F[i] = Seen(kids[i]) /\ kids[i] \in Kid  BY <1>2, <1>4
    <2> HIDE DEF F
    <2>3. F[i] \in Child /\ F[i].bound = kids[i].known /\ F[i].retry = (kids[i].try > 1)
      BY <2>2, SeenTyped
    <2>4. g = [live |-> FALSE, bound |-> F[i].bound, retry |-> F[i].retry, final |-> f]
      BY <2>3, Repainted
    <2> HIDE DEF g
    <2> QED  BY <1>3, <2>1, <2>3, <2>4 DEF Seen
  <1>8. Faces(kids') = [F EXCEPT ![i].live = FALSE, ![i].final = f]
    <2>1. \A j \in DOMAIN kids : Seen(kids'[j]) = IF j = i THEN g ELSE F[j]
      <3> HIDE DEF F, g
      <3> QED  BY <1>3, <1>4, <1>7 DEF Siblings
    <2> HIDE DEF F, g
    <2> QED  BY <1>5, <1>6, <2>1
  <1>9. i \in DOMAIN F /\ F[i].live  BY <1>1, <1>2, <1>4, SeenTyped
  <1> QED  BY <1>1, <1>8, <1>9 DEF Line!End, Faces, Ending

LEMMA CommitIsReturn ==
  ASSUME IInv, IInv', NEW p \in Procs, NEW e \in BOOLEAN, Commit(p, e),
         d.state \notin Terminal, d'.state \in Terminal
  PROVE  Line!Return
  <1> DEFINE returned == [d EXCEPT !.state = "returned", !.started = FALSE,
                         !.cleanup = IF e THEN "pending" ELSE "none",
                         !.outcome = exec[p].kid]
             k == exec[p].kid
  <1>1. Types /\ Executes(p) /\ Answered(p) /\ exec[p].pc # "idle" /\ UNCHANGED kids
    BY DEF IInv, Commit, Answered
  <1>2. d' = returned
    <2>1. d' = d \/ d' = Doubtful \/ d' = returned  BY DEF Commit
    <2>2. d' # d  OBVIOUS
    <2>3. d' # Doubtful
      <3>1. d' = Doubtful => d'.state = "paused_uncertainty"
        BY <1>1, SMT DEF Types, Log, Fields, Doubtful
      <3> QED  BY <3>1 DEF Terminal
    <2> QED  BY <2>1, <2>2, <2>3
  <1>3. d'.state = "returned" /\ d'.outcome = k
    BY <1>1, <1>2, SMT DEF Types, Log, Fields
  <1>4. /\ kids \in Seq(Kid) /\ \A i \in DOMAIN kids : kids[i] \in Kid
        /\ Len(kids) \in Nat /\ DOMAIN kids = 1 .. Len(kids)
    BY <1>1, FacesTyped DEF Types
  <1>5. /\ k = Len(kids) /\ k # 0 /\ k \in DOMAIN kids
        /\ kids[k].final /\ kids[k].known
    <2>1. k = Len(kids) /\ k # 0 /\ kids[k].final /\ kids[k].known
      BY <1>1 DEF Executes
    <2> QED  BY <1>4, <2>1
  <1>6. KnownDead
    <2>1. KnownDead'  BY <1>3 DEF IInv, Deaths, Terminal
    <2> QED  BY <1>1, <2>1 DEF KnownDead
  <1> DEFINE F == Faces(kids)
  <1>7. Len(F) = k /\ DOMAIN F = DOMAIN kids /\ \A i \in DOMAIN kids : F[i] = Seen(kids[i])
    BY <1>4, <1>5, FacesTyped
  <1>8. \A i \in DOMAIN F : F[i].bound => ~F[i].live
    <2>1. \A i \in DOMAIN kids :
            Seen(kids[i]).live = kids[i].live /\ Seen(kids[i]).bound = kids[i].known
      BY <1>4, SeenTyped
    <2> HIDE DEF F, k
    <2> QED  BY <1>6, <1>7, <2>1 DEF KnownDead
  <1>9. F[k].bound /\ F[k].final
    <2>1. Seen(kids[k]).bound = kids[k].known /\ Seen(kids[k]).final = kids[k].final
      BY <1>4, <1>5, SeenTyped
    <2> HIDE DEF F, k
    <2> QED  BY <1>5, <1>7, <2>1
  <1>10. Ending = "open" /\ Ending' = "returned"
    BY <1>3 DEF Ending, Terminal
  <1>11. Len(F) # 0 /\ F[Len(F)].bound /\ F[Len(F)].final /\ d'.outcome = Len(F)
    <2> HIDE DEF F, k
    <2> QED  BY <1>3, <1>5, <1>7, <1>9
  <1> QED  BY <1>1, <1>8, <1>10, <1>11 DEF Line!Return, Line!Last, Line!Quiet, Faces

LEMMA CancelIsCancel ==
  ASSUME IInv, IInv', NEW p \in Procs, CancelBeforeSpawn(p) \/ SettleCancel(p),
         d'.state \in Terminal
  PROVE  Line!Cancel
  <1>1. Types /\ UNCHANGED kids /\ d.state = "cancel_requested"
    BY DEF IInv, CancelBeforeSpawn, SettleCancel
  <1>2. d' = [d EXCEPT !.state = "cancelled"]
    <2>1. d' = Doubtful \/ d' = [d EXCEPT !.state = "cancelled"]
      BY DEF CancelBeforeSpawn, SettleCancel
    <2>2. d' = Doubtful => d'.state = "paused_uncertainty"
      BY <1>1, SMT DEF Types, Log, Fields, Doubtful
    <2> QED  BY <2>1, <2>2 DEF Terminal
  <1>3. d'.state = "cancelled" /\ d'.outcome = d.outcome
    BY <1>1, <1>2, SMT DEF Types, Log, Fields
  <1>4. KnownDead
    <2>1. KnownDead'  BY <1>3 DEF IInv, Deaths, Terminal
    <2> QED  BY <1>1, <2>1 DEF KnownDead
  <1> DEFINE F == Faces(kids)
  <1>5. \A i \in DOMAIN F : F[i].bound => ~F[i].live
    <2>1. DOMAIN F = DOMAIN kids /\ \A i \in DOMAIN kids : F[i] = Seen(kids[i]) /\ kids[i] \in Kid
      BY <1>1, FacesTyped DEF Types
    <2>2. \A i \in DOMAIN kids :
            Seen(kids[i]).live = kids[i].live /\ Seen(kids[i]).bound = kids[i].known
      BY <2>1, SeenTyped
    <2> HIDE DEF F
    <2> QED  BY <1>4, <2>1, <2>2 DEF KnownDead
  <1>6. Ending = "open" /\ Ending' = "cancelled"  BY <1>1, <1>3 DEF Ending, Terminal
  <1> QED  BY <1>1, <1>3, <1>5, <1>6 DEF Line!Cancel, Line!Quiet, Faces

(* Every step is one of the succession, or a stutter.                      *)
LEMMA NextSucceeds ==
  ASSUME IInv, IInv', Returns, [Next]_vars
  PROVE  [Line!Next]_(Line!vars)
  <1>1. CASE \E p \in Procs : Settles(p)
    <2>1. PICK p \in Procs : Settles(p)  BY <1>1
    <2>2. UNCHANGED kids
      BY <2>1, Zenon DEF Settles, Commit, CancelBeforeSpawn, SettleCancel
    <2>3. CASE d.state \in Terminal
      <3>1. d'.state = d.state /\ d'.outcome = d.outcome  BY <2>3, SettledStep
      <3> QED  BY <2>2, <3>1 DEF Line!vars, Ending
    <2>4. CASE d.state \notin Terminal /\ d'.state \notin Terminal
      <3>1. d.outcome = 0 /\ d'.outcome = 0  BY <2>4 DEF IInv, Outcome, Terminal
      <3> QED  BY <2>2, <2>4, <3>1 DEF Line!vars, Ending
    <2>5. CASE d.state \notin Terminal /\ d'.state \in Terminal
      BY <2>1, <2>5, CommitIsReturn, CancelIsCancel DEF Settles, Line!Next
    <2> QED  BY <2>3, <2>4, <2>5
  <1>2. CASE \A p \in Procs : ~Settles(p)
    <2>1. ASSUME NEW p \in Procs, StartAttempt(p) \/ Bind(p)  PROVE Line!Next
      BY <2>1, StartIsStart, BindIsBind DEF Line!Next
    <2>2. ASSUME NEW i \in DOMAIN kids, NEW f \in BOOLEAN, ChildEnds(i, f)  PROVE Line!Next
      BY <2>2, EndIsEnd DEF Line!Next
    <2> QED  BY <1>2, <2>1, <2>2, ChildrenChange, Unseen
  <1> QED  BY <1>1, <1>2

LEMMA NextReturns ==
  ASSUME IInv, Returns, [Line!Next]_(Line!vars)
  PROVE  Returns'
  <1> DEFINE F == Faces(kids)
  <1>1. Len(F) \in Nat  BY FacesTyped DEF IInv, Types
  <1>2. CASE Ending' = Ending /\ d'.outcome = d.outcome
    BY <1>2 DEF Returns, Ending, Terminal
  <1>3. CASE Line!Return
    <2>1. d'.outcome = Len(F) /\ Len(F) # 0
      BY <1>3 DEF Line!Return, Line!Last, Faces
    <2> QED  BY <2>1 DEF Returns
  <1>4. CASE Line!Cancel
    BY <1>4 DEF Line!Cancel, Returns, Ending, Terminal
  <1>5. CASE Line!Start \/ Line!Bind \/ Line!End \/ UNCHANGED Line!vars
    BY <1>2, <1>5 DEF Line!Start, Line!Bind, Line!End, Line!vars
  <1> QED  BY <1>3, <1>4, <1>5 DEF Line!Next

(* The children of a delegation are a succession, for any number of        *)
(* processes, attempts, cycles, children and faults: each is started when  *)
(* those before it are dead but for strays, the last one alone is bound,   *)
(* and the end is final, quiet, and returns the answer of the last.        *)
THEOREM DelegationIsSuccession == Spec => IsSuccession
  <1>1. Init => Line!Init
    <2> SUFFICES ASSUME Init  PROVE Line!Init  OBVIOUS
    <2>1. kids = <<>> /\ d.state = "bound" /\ d.outcome = 0  BY DEF Init
    <2>2. [i \in DOMAIN kids |-> Seen(kids[i])] = <<>>
      <3>1. DOMAIN kids = {}  BY <2>1
      <3> QED  BY <3>1
    <2> QED  BY <2>1, <2>2 DEF Line!Init, Ending, Terminal
  <1>2. Init => Returns  BY DEF Init, Returns
  <1>3. IInv /\ IInv' /\ Returns /\ [Next]_vars => Returns' /\ [Line!Next]_(Line!vars)
    BY NextSucceeds, NextReturns
  <1> QED
    BY <1>1, <1>2, <1>3, DelegationIInv, PTL DEF Spec, IsSuccession, Line!Spec

=============================================================================
