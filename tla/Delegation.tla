---- MODULE Delegation ----
(* The control plane of one delegation (packages/subagent: execution-supervisor, *)
(* delegation-control, action-ledger, owner-cleanup, the replay rules of          *)
(* wal-replay, and the side-effect fence between a child and its owner). Parent   *)
(* processes share the delegation through its write-ahead log: whichever of them  *)
(* holds the call lock reads the record replayed from the log and appends to it.  *)
(* One of them owns the execution: it starts child processes, binds them durably, *)
(* and records how they ended. Before a child runs a tool it asks the owner over  *)
(* a socket, which announces the call in the log before it answers. Any parent    *)
(* may be killed at any time, its children living on; the others reconcile at     *)
(* startup, take the execution over, cancel it, or settle a doubtful action.      *)
(*                                                                                *)
(* Every append is one step: a handler that is killed, or whose next append       *)
(* fails, leaves the record its first appends made, and the same handler called   *)
(* again goes on from there (the claim of the owner before everything else, the   *)
(* cut between the intent to spawn and the start). The fencing generation is not  *)
(* kept: it grows with the owner generation and with the cycles, so the claims    *)
(* compared here, owner generation and spawn id, tell the same tuples apart. A    *)
(* child calls one tool at a time. Every child is fenced here; one that is not    *)
(* runs no tool the log knows of.                                                 *)
(* A process calls these handlers while it executes nothing itself; cancellation  *)
(* and dispositions come at any time.                                             *)
EXTENDS Naturals, Sequences, FiniteSets

CONSTANTS
  Procs,        \* the parent processes that can come to live
  None,
  MaxAttempts,  \* provider attempts of one execution
  MaxCycles,    \* recovery cycles (three in the code)
  MaxChildren,  \* bound on the child processes
  MaxFaults     \* bound on failed appends, unreadable observations and aborts

Running   == {"initial_running", "recovery_running"}
Executing == Running \union {"reattach_only"}
PreSpawn  == {"bound", "initial_ready", "cycle_ready", "paused_configuration"}
Terminal  == {"returned", "cancelled"}

States ==
  Executing \union PreSpawn \union Terminal \union
    {"recovery_ready", "paused_uncertainty", "paused_integrity", "cancel_requested"}

\* None stands for no process, no state and no proof of death.
ASSUME DelegationAssumption ==
  /\ None \notin Procs \union States \union (Nat \X Nat)
  /\ MaxAttempts \in Nat \ {0} /\ MaxCycles \in Nat
  /\ MaxChildren \in Nat /\ MaxFaults \in Nat

VARIABLES
  alive,   \* the processes that live
  d,       \* the record replayed from the log
  exec,    \* what each process executes
  kids,    \* the children, in the order they were started
  session, \* whether the session directory exists
  faults   \* faults so far

vars == <<alive, d, exec, kids, session, faults>>

Unresolved == d.action # "none"
Cancelled  == d.prior # None
Blocked    == d.integrity \/ Cancelled \/ Unresolved
IdleExec   == [pc |-> "idle", kid |-> 0, spawn |-> 0, gen |-> 0, tries |-> 0, result |-> None]
Idle(p)    == p \in alive /\ exec[p].pc = "idle"
Owner(p)   == d.owner = p
OwnerDead  == d.owner # None /\ d.owner \notin alive

\* The child the record names.
ChildDead == d.kid # 0 /\ ~kids[d.kid].live
ChildLive == d.kid # 0 /\ kids[d.kid].live

\* What the record proves about the child of the current scope: an interruption
\* with a death observation since the last start, for this spawn and this owner
\* generation; or a binding of this spawn by this generation.
DeathProved == d.proof = <<d.spawn, d.gen>>
LiveProof   == d.bound /\ d.boundGen = d.gen

(* ---- the log ---------------------------------------------------------------- *)

\* Slip: a child that is proved dead settles what it was doing.
InterruptedOverDoubt(kind, proof) ==
  [d EXCEPT !.started = FALSE, !.bound = FALSE, !.proof = proof,
            !.action = IF proof = None THEN @ ELSE "none",
            !.state = CASE kind = "unknown"       -> "paused_uncertainty"
                        [] kind = "configuration" -> "paused_configuration"
                        [] d.cycle >= MaxCycles   -> "paused_integrity"
                        [] OTHER                  -> "recovery_ready"]

\* The ends of an execution without an outcome: the child's references are
\* dropped, its identity is kept as evidence.
Interrupted(kind, proof) ==
  [d EXCEPT !.started = FALSE, !.bound = FALSE, !.proof = proof,
            !.state = CASE kind = "unknown" \/ Unresolved -> "paused_uncertainty"
                        [] kind = "configuration"         -> "paused_configuration"
                        [] d.cycle >= MaxCycles           -> "paused_integrity"
                        [] OTHER                          -> "recovery_ready"]

IntegrityPaused ==
  IF d.integrity \/ d.state \in Terminal \union {"paused_integrity"} THEN d
  ELSE [d EXCEPT !.state = "paused_integrity", !.integrity = TRUE]

Fault == faults < MaxFaults /\ faults' = faults + 1
NoFault == UNCHANGED faults

Recoverable(r) == r.accepted /\ r.cycle < MaxCycles /\ r.proof = <<r.spawn, r.gen>>

(* ---- the owner of the execution --------------------------------------------- *)

\* Every operation of the execution claims the owner first. Nobody's delegation
\* is claimed; a dead owner's is taken over when the child is proved dead, or is
\* live and can be reattached: the child on record, which is that of an earlier
\* cycle as long as a recovery has not bound its own. The recovery of a dead
\* owner's needs the death proof on record.
Claim(p) ==
  /\ Idle(p) /\ ~Blocked /\ d.owner = None
  /\ d.state = "bound"
  /\ d' = [d EXCEPT !.owner = p, !.gen = 1]
  /\ UNCHANGED <<alive, exec, kids, session, faults>>

Transfer(p) ==
  /\ Idle(p) /\ ~Blocked /\ OwnerDead
  /\ IF d.state = "recovery_ready" THEN Recoverable(d) /\ ChildDead
     ELSE d.state \in Executing /\ (d.bound \/ ChildDead)
  /\ d' = [d EXCEPT !.owner = p, !.gen = @ + 1]
  /\ UNCHANGED <<alive, exec, kids, session, faults>>

(* ---- reservations and the start of an execution ------------------------------ *)

ReserveInitial(p) ==
  /\ Idle(p) /\ ~Blocked /\ Owner(p) /\ d.state = "bound"
  /\ d' = [d EXCEPT !.state = "initial_ready", !.intent = FALSE, !.spawned = FALSE]
  /\ UNCHANGED <<alive, exec, kids, session, faults>>

ReserveCycle(p) ==
  /\ Idle(p) /\ ~Blocked /\ Owner(p)
  /\ d.state = "recovery_ready" /\ Recoverable(d)
  /\ d' = [d EXCEPT !.state = "cycle_ready", !.cycle = @ + 1,
                    !.intent = FALSE, !.spawned = FALSE]
  /\ UNCHANGED <<alive, exec, kids, session, faults>>

\* A continuation only counts: the recovery asks for one.
AcceptContinuation(p) ==
  /\ Idle(p) /\ ~Blocked /\ d.owner \in {None, p}
  /\ d.state \in {"paused_configuration", "recovery_ready"} /\ ~d.accepted
  /\ d' = [d EXCEPT !.accepted = TRUE]
  /\ UNCHANGED <<alive, exec, kids, session, faults>>

Startable(p) ==
  /\ Idle(p) /\ ~Blocked /\ Owner(p)
  /\ \/ d.state = "initial_ready"
     \/ d.state = "cycle_ready" /\ d.accepted /\ DeathProved
  /\ Len(kids) < MaxChildren

\* An intent recorded for the same reservation is taken up again.
SpawnId == IF d.intent THEN d.spawn ELSE d.spawns + 1

SpawnStarted(p) ==
  /\ Startable(p)
  /\ d' = [d EXCEPT !.state = IF @ = "initial_ready" THEN "initial_running" ELSE "recovery_running",
                    !.intent = TRUE, !.spawn = SpawnId, !.spawns = SpawnId,
                    !.started = TRUE, !.spawned = TRUE, !.spawnGen = d.gen,
                    !.bound = FALSE, !.proof = None]
  /\ exec' = [exec EXCEPT ![p] = [IdleExec EXCEPT !.pc = "run", !.spawn = SpawnId, !.gen = d.gen]]
  /\ UNCHANGED <<alive, kids, session, faults>>

\* The intent is durable, the start is not.
SpawnCutOff(p) ==
  /\ Startable(p) /\ ~d.intent /\ Fault
  /\ d' = [d EXCEPT !.intent = TRUE, !.spawn = SpawnId, !.spawns = SpawnId]
  /\ UNCHANGED <<alive, exec, kids, session>>

\* An abort seen before the start, under the same lock.
AbortBeforeSpawn(p) ==
  /\ Idle(p) /\ ~Blocked /\ d.owner \in {None, p} /\ ~d.started
  /\ d.state \in {"bound", "initial_ready", "recovery_ready", "cycle_ready"}
  /\ Fault
  /\ d' = [d EXCEPT !.state = "paused_uncertainty"]
  /\ UNCHANGED <<alive, exec, kids, session>>

(* ---- the execution ------------------------------------------------------------ *)

\* The claim an execution was started with, compared before every append.
ClaimCurrent(p) ==
  /\ Owner(p) /\ d.gen = exec[p].gen /\ d.spawn = exec[p].spawn

StartAttempt(p) ==
  /\ p \in alive /\ exec[p].pc = "run"
  /\ Len(kids) < MaxChildren
  /\ kids' = Append(kids, [live |-> TRUE, known |-> FALSE, final |-> FALSE,
                           tool |-> "none", bye |-> FALSE,
                           spawn |-> exec[p].spawn, try |-> exec[p].tries + 1])
  /\ exec' = [exec EXCEPT ![p].pc = "bind", ![p].kid = Len(kids) + 1, ![p].tries = @ + 1]
  /\ UNCHANGED <<alive, d, session, faults>>

\* An attempt that cannot be started counts as an unknown ending.
AttemptFails(p) ==
  /\ p \in alive /\ exec[p].pc = "run" /\ Fault
  /\ exec' = [exec EXCEPT ![p].pc = "ended", ![p].result = "unknown"]
  /\ UNCHANGED <<alive, d, kids, session>>

CanBind(p) == ClaimCurrent(p) /\ d.state \in Running /\ ~d.integrity /\ ~Cancelled

\* The child is bound as soon as it runs, by the first attempt or again by a
\* later one.
Bind(p) ==
  /\ p \in alive /\ exec[p].pc = "bind" /\ CanBind(p)
  /\ d' = [d EXCEPT !.bound = TRUE, !.kid = exec[p].kid, !.boundGen = d.gen]
  /\ kids' = [kids EXCEPT ![exec[p].kid].known = TRUE]
  /\ exec' = [exec EXCEPT ![p].pc = "greet"]
  /\ UNCHANGED <<alive, session, faults>>

\* The child and the fence of its owner shake hands, and the child is given its
\* task. A child that is gone, or slow, pauses the delegation for good.
Handshake(p) ==
  /\ p \in alive /\ exec[p].pc = "greet" /\ kids[exec[p].kid].live
  /\ exec' = [exec EXCEPT ![p].pc = "work"]
  /\ UNCHANGED <<alive, d, kids, session, faults>>

HandshakeFails(p) ==
  /\ p \in alive /\ exec[p].pc = "greet"
  /\ IF kids[exec[p].kid].live THEN Fault ELSE NoFault
  /\ d' = IntegrityPaused
  /\ exec' = [exec EXCEPT ![p].pc = "stop"]
  /\ UNCHANGED <<alive, kids, session>>

\* A binding that is refused, or an abort, sends the child a SIGTERM.
BindRefused(p) ==
  /\ p \in alive /\ exec[p].pc = "bind"
  /\ IF CanBind(p) THEN Fault ELSE NoFault
  /\ exec' = [exec EXCEPT ![p].pc = "stop"]
  /\ UNCHANGED <<alive, d, kids, session>>

Abort(p) ==
  /\ p \in alive /\ exec[p].pc \in {"greet", "work"} /\ Fault
  /\ exec' = [exec EXCEPT ![p].pc = "stop"]
  /\ UNCHANGED <<alive, d, kids, session>>

\* The stop is over when the child is gone or five seconds have passed: the child
\* may have outlived it.
Stopped(p) ==
  /\ p \in alive /\ exec[p].pc = "stop"
  /\ exec' = [exec EXCEPT ![p].pc = "ended", ![p].result = "unknown"]
  /\ UNCHANGED <<alive, d, kids, session, faults>>

\* A child ends by itself, or is killed; with a final answer or without.
ChildEnds(i, final) ==
  /\ kids[i].live
  /\ kids' = [kids EXCEPT ![i].live = FALSE, ![i].final = final,
                          ![i].tool = IF @ = "asked" THEN "none" ELSE @]
  /\ UNCHANGED <<alive, d, exec, session, faults>>

\* The answer of a child that has ended. A transient failure is retried; an
\* attempt that did not take its leave from the fence, or whose binding is not on
\* record any more, ended unknowably.
Result(p, kind) ==
  /\ p \in alive /\ exec[p].pc = "work" /\ ~kids[exec[p].kid].live
  /\ kind = "final" => kids[exec[p].kid].final
  /\ (~kids[exec[p].kid].bye \/ ~d.bound \/ d.integrity) => kind = "unknown"
  /\ exec' = IF kind = "transient" /\ exec[p].tries < MaxAttempts
             THEN [exec EXCEPT ![p].pc = "run"]
             ELSE [exec EXCEPT ![p].pc = "ended", ![p].result = kind]
  /\ UNCHANGED <<alive, d, kids, session, faults>>

(* ---- the side-effect fence: a child asks its owner before each call of a tool ---- *)

Fenced(p) == p \in alive /\ exec[p].pc = "work" /\ kids[exec[p].kid].live

MayAct(p) == ~Blocked /\ ClaimCurrent(p) /\ d.state \in Executing

\* The call is announced in the log before the child is told to go on.
ActionIntent(p) ==
  /\ Fenced(p) /\ kids[exec[p].kid].tool = "none" /\ ~kids[exec[p].kid].bye
  /\ MayAct(p)
  /\ d' = [d EXCEPT !.action = "open"]
  /\ kids' = [kids EXCEPT ![exec[p].kid].tool = "asked"]
  /\ UNCHANGED <<alive, exec, session, faults>>

\* A call that is refused makes the fence fail: the child is terminated. What it
\* and the fence take for refused may differ; then its goodbye is invalid, which
\* pauses the delegation for good.
ActionRefused(p) ==
  /\ Fenced(p) /\ kids[exec[p].kid].tool = "none" /\ ~kids[exec[p].kid].bye
  /\ IF MayAct(p) THEN Fault ELSE NoFault
  /\ d' \in {d, IntegrityPaused}
  /\ exec' = [exec EXCEPT ![p].pc = "stop"]
  /\ UNCHANGED <<alive, kids, session>>

\* The tool runs once the answer has reached the child, even if its owner has been
\* killed since; without an answer the call is blocked.
ToolRuns(i) ==
  /\ kids[i].live /\ kids[i].tool = "asked"
  /\ kids' = [kids EXCEPT ![i].tool = "runs"]
  /\ UNCHANGED <<alive, d, exec, session, faults>>

Listening(i) == \E p \in alive : exec[p].pc = "work" /\ exec[p].kid = i

CallBlocked(i) ==
  /\ kids[i].live /\ kids[i].tool = "asked" /\ ~Listening(i)
  /\ kids' = [kids EXCEPT ![i].tool = "none"]
  /\ UNCHANGED <<alive, d, exec, session, faults>>

\* The connection is lost, or an answer takes longer than the child waits.
FenceLost(p) ==
  /\ Fenced(p) /\ ~kids[exec[p].kid].bye /\ Fault
  /\ exec' = [exec EXCEPT ![p].pc = "stop"]
  /\ UNCHANGED <<alive, d, kids, session>>

ActionResult(p) ==
  /\ Fenced(p) /\ kids[exec[p].kid].tool = "runs"
  /\ d.action = "open" /\ ~d.integrity /\ ClaimCurrent(p)
  /\ d' = [d EXCEPT !.action = "none"]
  /\ kids' = [kids EXCEPT ![exec[p].kid].tool = "none"]
  /\ UNCHANGED <<alive, exec, session, faults>>

Doubtful == [d EXCEPT !.action = "unknown", !.state = "paused_uncertainty"]

\* The result cannot be made durable.
ResultRefused(p) ==
  /\ Fenced(p) /\ kids[exec[p].kid].tool = "runs"
  /\ IF d.action = "open" /\ ~d.integrity THEN Fault ELSE NoFault
  /\ d' \in IF d.action = "open" /\ ~d.integrity THEN {d, Doubtful, IntegrityPaused} ELSE {d}
  /\ exec' = [exec EXCEPT ![p].pc = "stop"]
  /\ UNCHANGED <<alive, kids, session>>

\* Whoever asks what became of an announced action does not know it.
ActionInDoubt(p) ==
  /\ p \in alive /\ d.action = "open" /\ ~d.integrity /\ Fault
  /\ d' = Doubtful
  /\ UNCHANGED <<alive, exec, kids, session>>

\* The child takes its leave with nothing in flight: every call that was allowed
\* has its result on record.
Goodbye(p) ==
  /\ Fenced(p) /\ ~kids[exec[p].kid].bye /\ kids[exec[p].kid].tool = "none"
  /\ kids' = [kids EXCEPT ![exec[p].kid].bye = TRUE]
  /\ UNCHANGED <<alive, d, exec, session, faults>>

\* The outcome, if no action is undecided; an undecided action is doubtful from
\* now on. A cancellation or an integrity pause leaves the record as it is.
Commit(p, ephemeral) ==
  /\ p \in alive /\ exec[p].pc = "ended" /\ exec[p].result = "final"
  /\ exec' = [exec EXCEPT ![p] = IdleExec]
  /\ d' = IF d.integrity \/ ~ClaimCurrent(p) THEN d
          ELSE IF d.action = "open" THEN Doubtful
          ELSE IF Unresolved \/ Cancelled \/ d.state \notin Executing THEN d
          ELSE [d EXCEPT !.state = "returned", !.started = FALSE,
                         !.cleanup = IF ephemeral THEN "pending" ELSE "none",
                         !.outcome = exec[p].kid]
  /\ UNCHANGED <<alive, kids, session, faults>>

Interrupt(p) ==
  /\ p \in alive /\ exec[p].pc = "ended" /\ exec[p].result # "final"
  /\ exec' = [exec EXCEPT ![p] = IdleExec]
  /\ d' = IF ClaimCurrent(p) /\ d.state \in Executing /\ ~d.integrity /\ ~Cancelled
          THEN Interrupted(exec[p].result, None) ELSE d
  /\ UNCHANGED <<alive, kids, session, faults>>

\* The last append fails: the process gives the execution up.
GiveUp(p) ==
  /\ p \in alive /\ exec[p].pc = "ended" /\ Fault
  /\ exec' = [exec EXCEPT ![p] = IdleExec]
  /\ UNCHANGED <<alive, d, kids, session>>

(* ---- the cleanup of a session that is not kept --------------------------------- *)

RemoveSession(p) ==
  /\ p \in alive /\ d.state = "returned" /\ d.cleanup = "pending"
  /\ session /\ session' = FALSE
  /\ UNCHANGED <<alive, d, exec, kids, faults>>

CleanupCompleted(p) ==
  /\ p \in alive /\ d.state = "returned" /\ d.cleanup = "pending" /\ ~session
  /\ d' = [d EXCEPT !.cleanup = "none"]
  /\ UNCHANGED <<alive, exec, kids, session, faults>>

(* ---- startup -------------------------------------------------------------------- *)

\* Started but never bound: nobody can say what became of the child. Recorded by
\* any process, of any owner.
PauseUnbound(p) ==
  /\ Idle(p) /\ ~d.integrity /\ ~Cancelled
  /\ d.state \in Running /\ ~d.bound
  /\ d' = [d EXCEPT !.state = "paused_uncertainty"]
  /\ UNCHANGED <<alive, exec, kids, session, faults>>

Reconcilable ==
  /\ d.bound /\ ~d.integrity /\ ~Cancelled
  /\ \/ d.state \in Running
     \/ (d.state = "paused_uncertainty" /\ Unresolved)

\* Slip: the startup takes the child for dead without looking.
DeathSeenUnchecked == d.kid # 0

DeathSeen == ChildDead

\* The child is dead: a proof for recovery, unless an action is undecided; then
\* a fact for whoever decides it, which asks for no claim.
ReconcileDead(p) ==
  /\ Idle(p) /\ Reconcilable /\ DeathSeen /\ d.started
  /\ Unresolved \/ Owner(p)
  /\ d' = Interrupted("transient", <<d.spawn, d.gen>>)
  /\ UNCHANGED <<alive, exec, kids, session, faults>>

ReconcileLive(p) ==
  /\ Idle(p) /\ Reconcilable /\ ChildLive /\ ~Unresolved /\ Owner(p)
  /\ d' = [d EXCEPT !.state = "reattach_only"]
  /\ UNCHANGED <<alive, exec, kids, session, faults>>

\* The state of the child cannot be read, or changes between the observations; or
\* the fence of a child cannot be rebuilt.
ReconcileUnknown(p) ==
  /\ Idle(p) /\ Fault
  /\ IF d.state = "reattach_only" THEN d.bound /\ ~Blocked ELSE Reconcilable
  /\ d' = IntegrityPaused
  /\ UNCHANGED <<alive, exec, kids, session>>

\* A fence that is not the one the delegation was bound to, found before a start,
\* a binding or at startup. Whether the delegation is cancelled or paused by now is
\* not looked at again when the pause is appended.
FenceChanged(p) ==
  /\ Idle(p) /\ Fault
  /\ d.state \notin Terminal
  /\ d' = IntegrityPaused
  /\ UNCHANGED <<alive, exec, kids, session>>

Reattachable == ChildLive

\* The owner of a live child waits for it again; found dead after all, it is
\* interrupted like any other.
Reattach(p) ==
  /\ Idle(p) /\ ~Blocked /\ Owner(p) /\ d.bound /\ d.state \in Executing
  /\ IF Reattachable
     THEN /\ exec' = [exec EXCEPT ![p] = [IdleExec EXCEPT !.pc = "watch", !.kid = d.kid,
                                                          !.spawn = d.spawn, !.gen = d.gen]]
          /\ UNCHANGED d
     ELSE /\ d' = Interrupted("transient", None)
          /\ UNCHANGED exec
  /\ UNCHANGED <<alive, kids, session, faults>>

Watched(p, kind) ==
  /\ p \in alive /\ exec[p].pc = "watch" /\ ~kids[exec[p].kid].live
  /\ kind = "final" => kids[exec[p].kid].final
  /\ exec' = [exec EXCEPT ![p].pc = "ended", ![p].result = kind]
  /\ UNCHANGED <<alive, d, kids, session, faults>>

(* ---- doubt and cancellation ------------------------------------------------------ *)

\* A person decides what became of a doubtful action, no sooner than the answer to
\* it has reached the child or the child has stopped waiting. "still unknown"
\* decides it for good: only one disposition of an action is ever accepted.
Dispose(p, verdict) ==
  /\ p \in alive /\ ~d.integrity /\ d.action = "unknown"
  /\ \A i \in DOMAIN kids : kids[i].tool # "asked"
  /\ d' = IF verdict = "still_unknown" THEN [d EXCEPT !.action = "undecided",
                                                      !.state = "paused_uncertainty"]
          ELSE IF Cancelled THEN [d EXCEPT !.action = "none", !.state = "cancel_requested"]
          ELSE [d EXCEPT !.action = "none", !.accepted = TRUE,
                         !.state = CASE DeathProved -> "recovery_ready"
                                     [] LiveProof   -> "reattach_only"
                                     [] OTHER       -> "paused_integrity"]
  /\ kids' = IF verdict = "still_unknown" THEN kids
             ELSE [i \in DOMAIN kids |-> [kids[i] EXCEPT !.tool = "none"]]
  /\ UNCHANGED <<alive, exec, session, faults>>

\* Slip: a cancellation that is asked for after the end.
RequestCancelLate(p) ==
  /\ p \in alive /\ ~d.integrity /\ ~Cancelled
  /\ d' = [d EXCEPT !.prior = d.state, !.state = "cancel_requested"]
  /\ UNCHANGED <<alive, exec, kids, session, faults>>

RequestCancel(p) ==
  /\ p \in alive /\ ~d.integrity /\ ~Cancelled
  /\ d.state \notin Terminal
  /\ d' = [d EXCEPT !.prior = d.state, !.state = "cancel_requested"]
  /\ UNCHANGED <<alive, exec, kids, session, faults>>

Ever == d.spawnGen # 0

\* Slip: an uncertain pause without a bound child counts as before the start.
NeverSpawnedByState ==
  d.prior \in PreSpawn \union {"paused_uncertainty"} /\ ~d.bound /\ ~Unresolved

\* No start of the current reservation, no child on record, nothing undecided,
\* and a state before the start.
NeverSpawned ==
  /\ d.prior \in PreSpawn /\ ~d.spawned /\ ~d.bound /\ ~Unresolved
  /\ d.prior = "paused_configuration" => ~Ever

CancelBeforeSpawn(p) ==
  /\ p \in alive /\ ~d.integrity /\ d.state = "cancel_requested"
  /\ NeverSpawned
  /\ d' = [d EXCEPT !.state = "cancelled"]
  /\ UNCHANGED <<alive, exec, kids, session, faults>>

\* The child on record is told to terminate; observed dead twice, its death is
\* proved. The termination names the generation that spawned it.
ProveDeath(p) ==
  /\ p \in alive /\ ~d.integrity /\ d.state = "cancel_requested"
  /\ ~NeverSpawned /\ ~d.deathProved /\ Ever
  /\ ChildDead /\ d.gen = d.spawnGen
  /\ d' = [d EXCEPT !.deathProved = TRUE, !.bound = FALSE, !.started = FALSE]
  /\ UNCHANGED <<alive, exec, kids, session, faults>>

CancelUnreadable(p) ==
  /\ p \in alive /\ ~d.integrity /\ d.state = "cancel_requested"
  /\ ~NeverSpawned /\ ~d.deathProved /\ Ever /\ d.kid # 0 /\ Fault
  /\ d' = IntegrityPaused
  /\ UNCHANGED <<alive, exec, kids, session>>

SettleCancel(p) ==
  /\ p \in alive /\ ~d.integrity /\ d.state = "cancel_requested" /\ d.deathProved
  /\ d.action \in {"none", "open"}
  /\ d' = IF d.action = "open" THEN Doubtful ELSE [d EXCEPT !.state = "cancelled"]
  /\ UNCHANGED <<alive, exec, kids, session, faults>>

(* ---- the processes ----------------------------------------------------------------- *)

Kill(p) ==
  /\ p \in alive
  /\ alive' = alive \ {p}
  /\ exec' = [exec EXCEPT ![p] = IdleExec]
  /\ UNCHANGED <<d, kids, session, faults>>

Init ==
  /\ alive = Procs
  /\ d = [state |-> "bound", owner |-> None, gen |-> 0, accepted |-> FALSE, cycle |-> 0,
          spawn |-> 0, spawns |-> 0, intent |-> FALSE, spawned |-> FALSE, spawnGen |-> 0,
          started |-> FALSE, bound |-> FALSE, boundGen |-> 0, kid |-> 0, proof |-> None,
          action |-> "none", prior |-> None, deathProved |-> FALSE,
          integrity |-> FALSE, cleanup |-> "none", outcome |-> 0]
  /\ exec = [p \in Procs |-> IdleExec]
  /\ kids = <<>>
  /\ session = TRUE
  /\ faults = 0

Own(p) ==
  \/ Claim(p) \/ Transfer(p) \/ ReserveInitial(p) \/ ReserveCycle(p)
  \/ AcceptContinuation(p) \/ SpawnStarted(p) \/ SpawnCutOff(p) \/ AbortBeforeSpawn(p)

Execute(p) ==
  \/ StartAttempt(p) \/ AttemptFails(p) \/ Bind(p) \/ BindRefused(p) \/ Handshake(p)
  \/ HandshakeFails(p) \/ Abort(p) \/ Stopped(p)
  \/ \E kind \in {"final", "transient", "configuration", "unknown"} :
       Result(p, kind) \/ Watched(p, kind)
  \/ ActionIntent(p) \/ ActionRefused(p) \/ FenceLost(p) \/ ActionResult(p)
  \/ ResultRefused(p) \/ ActionInDoubt(p) \/ Goodbye(p)
  \/ \E ephemeral \in BOOLEAN : Commit(p, ephemeral)
  \/ Interrupt(p) \/ GiveUp(p) \/ RemoveSession(p) \/ CleanupCompleted(p)

Reconcile(p) ==
  \/ PauseUnbound(p) \/ ReconcileDead(p) \/ ReconcileLive(p) \/ ReconcileUnknown(p)
  \/ FenceChanged(p) \/ Reattach(p)

Control(p) ==
  \/ \E verdict \in {"settled", "still_unknown"} : Dispose(p, verdict)
  \/ RequestCancel(p) \/ CancelBeforeSpawn(p) \/ ProveDeath(p) \/ CancelUnreadable(p)
  \/ SettleCancel(p)

Next ==
  \/ \E p \in Procs : Own(p) \/ Execute(p) \/ Reconcile(p) \/ Control(p) \/ Kill(p)
  \/ \E i \in 1 .. Len(kids) :
       (\E final \in BOOLEAN : ChildEnds(i, final)) \/ ToolRuns(i) \/ CallBlocked(i)

Spec == Init /\ [][Next]_vars

(* ---- properties ---------------------------------------------------------------------- *)

TypeOK ==
  /\ alive \subseteq Procs
  /\ session \in BOOLEAN /\ faults \in 0 .. MaxFaults
  /\ Len(kids) <= MaxChildren
  /\ d.owner \in Procs \union {None}
  /\ d.state \in States
  /\ d.action \in {"none", "open", "unknown", "undecided"}
  /\ \A p \in Procs : exec[p].pc \in {"idle", "run", "bind", "greet", "work", "stop", "watch", "ended"}
  /\ \A i \in DOMAIN kids : kids[i].tool \in {"none", "asked", "runs"}

\* Two children live at once only if one of them is a retry that was never bound:
\* a recovery starts its child after the death of the child on record has been
\* observed (reconcileRunningChildInternal, cycle_reserved, spawn_started).
ChildrenFollowDeath ==
  \A i, j \in DOMAIN kids :
    i < j /\ kids[i].live /\ kids[j].live =>
      \E k \in {i, j} : kids[k].try > 1 /\ ~kids[k].known

\* A tool runs only while the log has its call as unresolved, also when the child,
\* its owner or the channel is lost while the answer is on its way. And as long as
\* nobody knows what became of it, no outcome and no cancellation is recorded and
\* no later child is started: replay refuses all three, and an interruption keeps
\* the doubt.
NoDoubtCarriedOn ==
  \A i \in DOMAIN kids :
    kids[i].tool = "runs" =>
      /\ Unresolved
      /\ d.state \notin Terminal
      /\ \A j \in DOMAIN kids : kids[j].spawn <= kids[i].spawn

\* A delegation that is returned or cancelled has no live child among those that
\* were ever bound to it.
SettledIsQuiet ==
  d.state \in Terminal => \A i \in DOMAIN kids : kids[i].known => ~kids[i].live

\* The recorded outcome is that of the last child, which ended with an answer.
OutcomeIsLatest ==
  d.outcome # 0 => d.outcome = Len(kids) /\ kids[d.outcome].final

\* All of it together, with the order in which children are bound and the finality of
\* the end: whatever is killed, taken over, cancelled or refused, the children of the
\* delegation are a succession.
Seen(kid) == [live |-> kid.live, bound |-> kid.known, retry |-> kid.try > 1,
              final |-> kid.final]
Ending    == IF d.state \in Terminal THEN d.state ELSE "open"

Line == INSTANCE Succession WITH
  children <- [i \in DOMAIN kids |-> Seen(kids[i])],
  ending   <- Ending,
  outcome  <- d.outcome

IsSuccession == Line!Spec

====
