---------------------------- MODULE WorkflowRun ----------------------------
(***************************************************************************)
(* One Fix run: WorkflowRuntime (packages/workflow-runtime/src/index.ts),  *)
(* the loop that drives it (continueRun and /fix review in                 *)
(* packages/fix/src/extension-v2.ts), the stage graph of fixDefinitionV2   *)
(* (packages/fix/src/definition.ts) and the checkpoint a new process       *)
(* restores (loadLast in packages/workflow-runtime/src/run-control-wal.ts).*)
(*                                                                         *)
(* The only await points are the workers.  A step runs from one worker's   *)
(* answer to the next durable write, so that a kill may fall between any   *)
(* two of them; any error ends the loop, discards the runtime object and   *)
(* leaves the last checkpoint.  Artifacts keep their order, which is what  *)
(* the gates compare; their text is a verdict.  n and of are history: the  *)
(* gates read neither.  Policies, versions and sources never change here,  *)
(* workers submit accepted conclusions unless a verdict says otherwise,    *)
(* and a reviewer binds the revision it was given.                         *)
(***************************************************************************)
EXTENDS Naturals, FiniteSets, Sequences, SequencesExt

CONSTANTS
  Usual,         \* bound: plans and failures a run may go through again and again
  Detours,       \* bound: those that at most one artifact of a run has
  Revisions,     \* bound: candidate revisions
  MaxArtifacts,  \* bound: artifacts a run may collect
  MaxFailures,   \* bound: workers that end in an error
  MaxKills       \* bound: kills of the process in the middle of the loop

AllPlans == {"repair", "explain", "wait", "external", "waitRepair", "insufficient"}
AllFailures == {"implementation", "configuration", "external"}
Refused == {"incomplete"}

ASSUME RunAssumption ==
  /\ Usual \cup Detours \subseteq AllPlans \cup AllFailures \cup Refused
  /\ Revisions \subseteq Nat \ {0} /\ Revisions # {}
  /\ MaxArtifacts \in Nat /\ MaxFailures \in Nat /\ MaxKills \in Nat

VARIABLES
  disk,     \* the last checkpoint
  session,  \* a reviewer's session the log shows as started after it, not settled
  pc,       \* "down", "loop", "enter", "review" or "decided"
  mem,      \* the runtime object and the locals of continueRun
  failures, \* workers that ended in an error
  kills     \* kills so far

vars == <<disk, session, pc, mem, failures, kills>>

(***************************************************************************)
(* Reviews and artifacts                                                   *)
(***************************************************************************)
\* FIX_REVIEW_POLICIES: reviewers, which are also the approvals required
Panel == [investigation_review |-> 1, change_plan_review |-> 2, change_review |-> 1]
Reviews == DOMAIN Panel
Reviewed == [investigation_review |-> "investigation",
             change_plan_review |-> "disposition", change_review |-> "implementation"]
ReviewAt == [INVESTIGATING |-> "investigation_review",
             DISPOSITION |-> "change_plan_review", IMPLEMENTING |-> "change_review"]
ProducedAt == [INTAKE |-> "intake", INVESTIGATING |-> "investigation",
               DISPOSITION |-> "disposition", IMPLEMENTING |-> "implementation",
               VERIFYING |-> "verification"]

Stages == DOMAIN ProducedAt \cup {"WAITING_FOR_USER", "BLOCKED", "ACCEPTED"}
Kinds == {ProducedAt[s] : s \in DOMAIN ProducedAt} \cup Reviews
           \cup {"guard_rejection", "user_decision"}
Verdicts == {"accepted", "rejected", "blocked"} \cup AllPlans \cup AllFailures \cup Refused
Waits == {"none", "final_acceptance", "configuration_wait", "disposition_decision",
          "external_action_completion"}

Artifacts == [kind: Kinds, verdict: Verdicts, rev: Nat, cycle: Nat, who: Nat, n: Nat, of: Nat]
Cycles == [id: Nat, kind: Reviews, approvals: Nat, passed: BOOLEAN, who: SUBSET Nat,
           plan: Nat, at: Nat]
None == [cycle |-> 0]

\* The position of the newest artifact of a kind, 0 when there is none
Newest(arts, kind) ==
  LET places == {i \in DOMAIN arts : arts[i].kind = kind}
  IN  IF places = {} THEN 0 ELSE CHOOSE i \in places : \A j \in places : j <= i
Has(arts, kind) == Newest(arts, kind) # 0
Latest(arts, kind) == arts[Newest(arts, kind)]
VerdictOf(arts, kind) == IF Has(arts, kind) THEN Latest(arts, kind).verdict ELSE "none"
RevOf(arts, kind) == IF Has(arts, kind) THEN Latest(arts, kind).rev ELSE 0
After(arts, later, earlier) == Newest(arts, later) > Newest(arts, earlier)
Greatest(S) == CHOOSE x \in S : \A y \in S : y <= x
NewN(arts) == 1 + Greatest({0} \cup {arts[i].n : i \in DOMAIN arts})
Artifact(arts, kind, verdict) ==
  [kind |-> kind, verdict |-> verdict, rev |-> 0, cycle |-> 0, who |-> 0,
   n |-> NewN(arts), of |-> 0]

RequiresChange(arts) == VerdictOf(arts, "disposition") \in {"repair", "waitRepair"}
Votes(arts, kind, cycle) == {i \in DOMAIN arts : arts[i].kind = kind /\ arts[i].cycle = cycle}
ApprovalsCountVotes(arts, kind, cycle) == Cardinality(Votes(arts, kind, cycle))
Approvals(arts, kind, cycle) ==
  Cardinality({i \in Votes(arts, kind, cycle) : arts[i].verdict = "accepted"})
Voters(arts, kind, cycle) == {arts[i].who : i \in Votes(arts, kind, cycle)}

(***************************************************************************)
(* Gates and acceptance                                                    *)
(***************************************************************************)
\* The newest review of a kind passed and came after what it reviews
PassedReview(arts, kind) ==
  VerdictOf(arts, kind) = "accepted" /\ After(arts, kind, Reviewed[kind])

InvestigationGate(arts) ==
  PassedReview(arts, "investigation_review") /\ VerdictOf(arts, "investigation") = "accepted"

ChangeReviewBindsRevision(arts) ==
  Has(arts, "implementation") /\ RevOf(arts, "change_review") = RevOf(arts, "implementation")

ChangeReviewBinds(arts) ==
  /\ After(arts, "change_review", "implementation") /\ Has(arts, "implementation")
  /\ RevOf(arts, "change_review") = RevOf(arts, "implementation")

\* deriveCycleFacts: the ledger record says what the archived votes say
Backed(arts, c) ==
  LET votes == Votes(arts, c.kind, c.id)
  IN  /\ c.approvals = Approvals(arts, c.kind, c.id)
      /\ c.passed = (c.approvals >= Panel[c.kind])
      /\ c.who = Voters(arts, c.kind, c.id)
      /\ c.at = IF votes = {} THEN 0 ELSE Greatest(votes)

PlanReviewCycleBacked(arts, cycles) ==
  \E i \in DOMAIN cycles :
    LET c == cycles[i]
    IN  /\ c.kind = "change_plan_review" /\ c.id = Latest(arts, c.kind).cycle
        /\ \A j \in DOMAIN cycles : cycles[j].id = c.id => j <= i
        /\ c.plan = Newest(arts, "disposition") /\ Backed(arts, c)
        /\ c.passed /\ Cardinality(c.who) >= Panel[c.kind]

PlanGate(arts, cycles) ==
  RequiresChange(arts) =>
    PassedReview(arts, "change_plan_review") /\ PlanReviewCycleBacked(arts, cycles)

\* The revisions of the newest implementation, its review and its verification
Bound(arts) ==
  {RevOf(arts, k) : k \in {"implementation", "change_review", "verification"}} \ {0}

AcceptanceWithoutPlan(arts, cycles) ==
  /\ Has(arts, "intake") /\ InvestigationGate(arts) /\ Has(arts, "disposition")
  /\ VerdictOf(arts, "verification") = "accepted" /\ Cardinality(Bound(arts)) <= 1
  /\ RequiresChange(arts) =>
       ChangeReviewBinds(arts) /\ VerdictOf(arts, "change_review") = "accepted"

\* evaluateAcceptance for an approval
Acceptance(arts, cycles) ==
  /\ Has(arts, "intake") /\ InvestigationGate(arts) /\ Has(arts, "disposition")
  /\ VerdictOf(arts, "verification") = "accepted" /\ Cardinality(Bound(arts)) <= 1
  /\ RequiresChange(arts) =>
       /\ PlanGate(arts, cycles) /\ ChangeReviewBinds(arts)
       /\ VerdictOf(arts, "change_review") = "accepted"
       /\ RevOf(arts, "verification") = RevOf(arts, "implementation")

(***************************************************************************)
(* The checkpoint and restore                                              *)
(***************************************************************************)
Blank == [stage |-> "INTAKE", arts |-> <<>>, cycles |-> <<>>, progress |-> None,
          cycle |-> 0, wait |-> "none", ret |-> "none"]

\* transition(): the new stage, without reviewProgress
Transitioned(m, to) ==
  [stage |-> to, arts |-> m.arts, cycles |-> m.cycles, progress |-> None, cycle |-> m.cycle,
   wait |-> IF to = "WAITING_FOR_USER" THEN m.wait ELSE "none",
   ret |-> IF to = "BLOCKED" THEN m.ret ELSE "none"]

AfterFailureWithoutWork(m, cycle) == [Blank EXCEPT !.stage = m.stage, !.cycle = cycle]

\* executeNode after a worker's error: the artifacts, and no ledger
AfterFailure(m, cycle) == [Blank EXCEPT !.stage = m.stage, !.arts = m.arts, !.cycle = cycle]

\* runReview after a participant, and after the cycle is recorded
AfterVote(m) == [Blank EXCEPT !.stage = m.stage, !.arts = m.arts, !.cycles = m.cycles,
                              !.progress = m.progress, !.cycle = m.cycle]

RevisionsAgree(cp) ==
  /\ Cardinality(Bound(cp.arts)) <= 1
  /\ (RequiresChange(cp.arts) /\ cp.stage \in {"VERIFYING", "WAITING_FOR_USER", "ACCEPTED"}) =>
       /\ RevOf(cp.arts, "implementation") # 0 /\ RevOf(cp.arts, "change_review") # 0
       /\ cp.stage # "VERIFYING" => RevOf(cp.arts, "verification") # 0

\* A wait is backed by the verification or the disposition that asked for it
WaitIsBacked(cp) ==
  LET plan == VerdictOf(cp.arts, "disposition")
      check == VerdictOf(cp.arts, "verification")
      asks == CASE plan \in {"wait", "waitRepair"} -> "disposition_decision"
                [] plan = "external" -> "external_action_completion"
                [] OTHER -> "none"
  IN  /\ asks # "none" \/ check \in {"accepted", "configuration"}
      /\ asks # "none" => cp.wait = asks
      /\ cp.wait \in {"disposition_decision", "external_action_completion"} => asks # "none"
      /\ cp.wait = "final_acceptance" => check = "accepted"
      /\ cp.wait = "configuration_wait" => check = "configuration"

Restores(cp) ==
  /\ RevisionsAgree(cp)
  /\ \A i \in DOMAIN cp.cycles : Backed(cp.arts, cp.cycles[i])
  /\ \A i, j \in DOMAIN cp.cycles : cp.cycles[i].id = cp.cycles[j].id => i = j
  /\ cp.stage = "WAITING_FOR_USER" => WaitIsBacked(cp)
  /\ cp.stage = "ACCEPTED" => Acceptance(cp.arts, cp.cycles)

\* The runtime restore() builds, and the review continueRun takes up again
Restored(cp, attempt) ==
  [stage |-> cp.stage, arts |-> cp.arts, cycles |-> cp.cycles, progress |-> cp.progress,
   cycle |-> cp.cycle, wait |-> cp.wait, ret |-> cp.ret, attempt |-> attempt,
   resume |-> \E i \in DOMAIN cp.cycles : cp.cycles[i].id = cp.cycle,
   recovered |-> IF attempt = None THEN "none" ELSE attempt.kind,
   next |-> 0, passed |-> FALSE]

Idle == Restored(Blank, None)

TypeOK ==
  /\ \A r \in {disk, mem} :
       /\ r.stage \in Stages /\ r.wait \in Waits /\ r.cycle \in Nat
       /\ r.arts \in Seq(Artifacts) /\ r.cycles \in Seq(Cycles)
       /\ r.ret \in {"none", "INVESTIGATING", "DISPOSITION", "VERIFYING"}
  /\ pc \in {"down", "loop", "enter", "review", "decided"}
  /\ pc = "down" => mem = Idle
  /\ pc \in {"enter", "review", "decided"} => mem.stage \in DOMAIN ReviewAt
  /\ failures \in 0..MaxFailures /\ kills \in 0..MaxKills

Init ==
  /\ disk = Blank /\ session = None /\ pc = "down" /\ mem = Idle
  /\ failures = 0 /\ kills = 0

(***************************************************************************)
(* Steps of the loop                                                       *)
(***************************************************************************)
Save(checkpoint) == disk' = checkpoint /\ session' = None

\* Any error: continueRun returns "paused" and the runtime object is lost
Stop == pc' = "down" /\ mem' = Idle

Move(m, to, then) ==
  /\ Save(Transitioned(m, to))
  /\ pc' = IF to = "ACCEPTED" THEN "down" ELSE then
  /\ mem' = IF pc' = "down" THEN Idle
            ELSE [m EXCEPT !.stage = to, !.attempt = None, !.cycle = 0, !.resume = FALSE,
                           !.wait = IF to = "WAITING_FOR_USER" THEN @ ELSE "none"]

\* The artifacts without the note that the run is blocked: there is at most one
WithoutNote(arts) ==
  IF Has(arts, "guard_rejection") THEN RemoveAt(arts, Newest(arts, "guard_rejection"))
  ELSE arts

\* recordBlocker, and a guard_rejection that takes the place of an earlier one
Block(m, ret) ==
  Move([m EXCEPT !.ret = ret,
                 !.arts = Append(WithoutNote(@), Artifact(@, "guard_rejection", "blocked"))],
       "BLOCKED", "loop")

Wait(m, kind) == Move([m EXCEPT !.wait = kind], "WAITING_FOR_USER", "loop")
Review(m) == pc' = "enter" /\ mem' = m /\ UNCHANGED <<disk, session>>

\* The first round of the loop takes up a review whose reviewer never settled
Recovers ==
  /\ mem.stage \in DOMAIN ReviewAt /\ mem.recovered = ReviewAt[mem.stage]
  /\ Has(mem.arts, Reviewed[mem.recovered])
  /\ mem.stage = "DISPOSITION" => RequiresChange(mem.arts)

ReturnStage == IF mem.ret = "none" THEN "INVESTIGATING" ELSE mem.ret
Working == pc = "loop" /\ ~Recovers /\ mem.stage \notin {"WAITING_FOR_USER", "ACCEPTED"}
Executing(stage) == Working /\ mem.stage = stage /\ Len(mem.arts) < MaxArtifacts
With(artifact) == [mem EXCEPT !.arts = Append(@, artifact)]
Submitted(kind, verdict) == With(Artifact(mem.arts, kind, verdict))

\* What a worker may conclude, within the bounds
Possible(verdicts) ==
  LET detoured == \E i \in DOMAIN mem.arts : mem.arts[i].verdict \in Detours
  IN  verdicts \cap (Usual \cup (IF detoured THEN {} ELSE Detours))
Verified(verdict) ==
  With([Artifact(mem.arts, "verification", verdict)
          EXCEPT !.rev = RevOf(mem.arts, "implementation")])

TakeUpReview ==
  /\ pc = "loop" /\ Recovers
  /\ Review([mem EXCEPT !.recovered = "none"])
  /\ UNCHANGED <<failures, kills>>

Intake ==
  /\ Executing("INTAKE")
  /\ Move(Submitted("intake", "accepted"), "INVESTIGATING", "loop")
  /\ UNCHANGED <<failures, kills>>

Investigate ==
  /\ Executing("INVESTIGATING")
  /\ \/ Review(Submitted("investigation", "accepted"))
     \/ Block(Submitted("investigation", "blocked"), "INVESTIGATING")
  /\ UNCHANGED <<failures, kills>>

Dispose ==
  /\ Executing("DISPOSITION")
  /\ \E plan \in Possible(AllPlans) :
       LET m == Submitted("disposition", plan)
       IN  CASE plan = "insufficient" -> Block(m, "DISPOSITION")
             [] plan \in {"wait", "waitRepair"} -> Wait(m, "disposition_decision")
             [] plan = "external" -> Wait(m, "external_action_completion")
             [] plan = "repair" -> Review(m)
             [] plan = "explain" -> Move(m, "VERIFYING", "loop")
  /\ UNCHANGED <<failures, kills>>

Implement ==
  /\ Executing("IMPLEMENTING")
  /\ \E r \in Revisions :
       Review(With([Artifact(mem.arts, "implementation", "accepted") EXCEPT !.rev = r]))
  /\ UNCHANGED <<failures, kills>>

Verify ==
  /\ Executing("VERIFYING")
  /\ \E verdict \in {"accepted"} \cup Possible(AllFailures) :
       CASE verdict = "accepted" -> Wait(Verified(verdict), "final_acceptance")
         [] verdict = "configuration" -> Wait(Verified(verdict), "configuration_wait")
         [] verdict = "external" -> Block(Verified(verdict), "VERIFYING")
         [] verdict = "implementation" -> Move(Verified(verdict), "IMPLEMENTING", "loop")
  /\ UNCHANGED <<failures, kills>>

\* guardVerification refuses what the verifier submitted, which stays among the artifacts:
\* it is asked once more, and a second refusal ends the loop
VerifyAgain ==
  /\ Executing("VERIFYING")
  /\ \/ \E verdict \in Possible(Refused) : mem' = Verified(verdict) /\ UNCHANGED pc
     \/ VerdictOf(mem.arts, "verification") \in Refused /\ Stop
  /\ UNCHANGED <<disk, session, failures, kills>>

\* The user adds information and the worker of the return stage runs with it
Unblock ==
  /\ Executing("BLOCKED")
  /\ LET kind == ProducedAt[ReturnStage]
     IN  \E verdict \in CASE kind = "investigation" -> {"accepted", "blocked"}
                          [] kind = "disposition" -> Possible(AllPlans)
                          [] kind = "verification" ->
                               {"accepted"} \cup Possible(AllFailures \cup Refused) :
           Move(IF kind = "verification" THEN Verified(verdict) ELSE Submitted(kind, verdict),
                ReturnStage, "loop")
  /\ UNCHANGED <<failures, kills>>

(***************************************************************************)
(* runReview                                                               *)
(***************************************************************************)
NewCycle ==
  1 + Greatest({0, mem.cycle, mem.progress.cycle}
                 \cup {mem.arts[i].cycle : i \in DOMAIN mem.arts}
                 \cup {mem.cycles[i].id : i \in DOMAIN mem.cycles})

\* The cycle to continue, or a new one
CycleOf(kind) ==
  LET recorded == {i \in DOMAIN mem.cycles : mem.cycles[i].kind = kind}
  IN  IF mem.attempt # None THEN mem.attempt.cycle
      ELSE IF mem.progress # None THEN mem.progress.cycle
      ELSE IF mem.resume /\ recorded # {} THEN mem.cycles[Greatest(recorded)].id
      ELSE NewCycle

FirstReviewerAgain(kind, cycle) == IF mem.attempt # None THEN mem.attempt.index ELSE 0

FirstReviewer(kind, cycle) ==
  IF mem.attempt # None THEN mem.attempt.index
  ELSE IF mem.progress.cycle = cycle THEN mem.progress.next
  ELSE Cardinality(Votes(mem.arts, kind, cycle))

EnterReview ==
  /\ pc = "enter"
  /\ LET kind == ReviewAt[mem.stage]
         cycle == CycleOf(kind)
         first == FirstReviewer(kind, cycle)
         recorded == {i \in DOMAIN mem.cycles : mem.cycles[i].id = cycle
                                               /\ mem.cycles[i].kind = kind}
         m == [mem EXCEPT !.cycle = cycle, !.resume = FALSE, !.next = first]
     IN  IF recorded # {} /\ Cardinality(Votes(mem.arts, kind, cycle)) >= Panel[kind]
         THEN pc' = "decided" /\ mem' = [m EXCEPT !.progress = None, !.passed =
                \E i \in recorded : mem.cycles[i].passed /\ \A j \in recorded : i <= j]
         ELSE IF mem.attempt # None /\ (first >= Panel[kind] \/ mem.attempt.kind # kind)
         THEN Stop
         ELSE pc' = "review" /\ mem' = m
  /\ UNCHANGED <<disk, session, failures, kills>>

\* One participant's artifact, the cursor and the cleared attempt, in one checkpoint
Vote ==
  /\ pc = "review" /\ mem.next < Panel[ReviewAt[mem.stage]] /\ Len(mem.arts) < MaxArtifacts
  /\ \E verdict \in {"accepted", "rejected"} :
       LET kind == ReviewAt[mem.stage]
           subject == Latest(mem.arts, Reviewed[kind])
           vote == [Artifact(mem.arts, kind, verdict)
                      EXCEPT !.cycle = mem.cycle, !.who = mem.next + 1, !.of = subject.n,
                             !.rev = IF kind = "change_review" THEN subject.rev ELSE 0]
           m == [With(vote) EXCEPT !.attempt = None, !.next = @ + 1,
                                   !.progress = [cycle |-> mem.cycle, next |-> mem.next + 1]]
       IN  mem' = m /\ Save(AfterVote(m))
  /\ UNCHANGED <<pc, failures, kills>>

\* Every participant has answered: the cycle enters the ledger
FinishReview ==
  /\ pc = "review" /\ mem.next >= Panel[ReviewAt[mem.stage]]
  /\ LET kind == ReviewAt[mem.stage]
         approvals == Approvals(mem.arts, kind, mem.cycle)
         passed == approvals >= Panel[kind]
         record == [id |-> mem.cycle, kind |-> kind, approvals |-> approvals,
                    passed |-> passed, who |-> Voters(mem.arts, kind, mem.cycle),
                    plan |-> Newest(mem.arts, "disposition"), at |-> Len(mem.arts)]
         m == [mem EXCEPT !.cycles = Append(@, record), !.attempt = None,
                          !.progress = None, !.passed = passed]
     IN  mem' = m /\ Save(AfterVote(m))
  /\ pc' = "decided"
  /\ UNCHANGED <<failures, kills>>

\* A rejected review returns with its first artifact, which must be a rejection
MayReturn ==
  LET votes == Votes(mem.arts, ReviewAt[mem.stage], mem.cycle)
  IN  \E i \in votes : mem.arts[i].verdict = "rejected" /\ \A j \in votes : i <= j

LeaveReview ==
  /\ pc = "decided"
  /\ LET m == [mem EXCEPT !.passed = FALSE, !.next = 0]
         Go(to, gate) == IF gate THEN Move(m, to, "loop")
                         ELSE Stop /\ UNCHANGED <<disk, session>>
     IN  CASE ~mem.passed -> Go(mem.stage, MayReturn)
           [] mem.passed /\ mem.stage = "INVESTIGATING" ->
                Go("DISPOSITION", InvestigationGate(mem.arts))
           [] mem.passed /\ mem.stage = "DISPOSITION" ->
                Go("IMPLEMENTING", PlanGate(mem.arts, mem.cycles))
           [] mem.passed /\ mem.stage = "IMPLEMENTING" ->
                Go("VERIFYING", /\ VerdictOf(mem.arts, "change_review") = "accepted"
                                /\ ChangeReviewBinds(mem.arts))
  /\ UNCHANGED <<failures, kills>>

(***************************************************************************)
(* The user's decisions                                                    *)
(***************************************************************************)
Requests == {"root_cause_or_impact", "requirement_disposition_error",
             "fix_incomplete_or_regression", "missing_external_condition"}
Decisions == {"approve", "reject", "continue_verification", "continue_disposition"}
               \cup Requests
DispositionWaits == {"disposition_decision", "external_action_completion"}

\* decideCore: where a decision leads, "none" when it is refused
Leads(m, decision) ==
  CASE decision = "approve" -> IF Acceptance(m.arts, m.cycles) THEN "ACCEPTED" ELSE "none"
    [] decision = "continue_verification" ->
         IF VerdictOf(m.arts, "verification") = "configuration" THEN "VERIFYING" ELSE "none"
    [] decision = "continue_disposition" ->
         IF m.wait \notin DispositionWaits THEN "none"
         ELSE IF m.wait = "disposition_decision" \/ RequiresChange(m.arts)
         THEN "DISPOSITION" ELSE "VERIFYING"
    [] decision = "root_cause_or_impact" -> "INVESTIGATING"
    [] decision = "requirement_disposition_error" -> "DISPOSITION"
    [] decision = "fix_incomplete_or_regression" -> "IMPLEMENTING"
    [] decision \in {"missing_external_condition", "reject"} -> "BLOCKED"

Offered(wait) ==
  CASE wait \in DispositionWaits -> {"continue_disposition", "reject"} \cup Requests
    [] wait = "configuration_wait" -> {"continue_verification", "reject"}
    [] OTHER -> {"approve", "reject"} \cup Requests

Decide(m, decision, then) ==
  LET to == Leads(m, decision)
      approved == [m EXCEPT !.arts = Append(@, Artifact(@, "user_decision", "accepted"))]
  IN  to # "none" /\ Move(IF to = "ACCEPTED" THEN approved ELSE m, to, then)

\* The choice continueRun offers while it runs
AskUser ==
  /\ pc = "loop" /\ mem.stage = "WAITING_FOR_USER"
  /\ \E decision \in Offered(mem.wait) : Decide(mem, decision, "loop")
  /\ UNCHANGED <<failures, kills>>

\* /fix review <runId> <action>, which names any action
ReviewCommand ==
  /\ pc = "down" /\ disk.stage = "WAITING_FOR_USER" /\ Restores(disk)
  /\ \E decision \in Decisions : Decide(Restored(disk, session), decision, "down")
  /\ UNCHANGED <<failures, kills>>

\* No decision, or no further information: the run waits for another call
Leave ==
  /\ pc = "loop" /\ mem.stage \in {"WAITING_FOR_USER", "BLOCKED"}
  /\ Stop /\ UNCHANGED <<disk, session, failures, kills>>

(***************************************************************************)
(* Failures, kills and resumption                                          *)
(***************************************************************************)
Reviewing == pc = "review" /\ mem.next < Panel[ReviewAt[mem.stage]]

\* A worker throws, which is a checkpoint, or submits what its contract refuses, which is
\* none; then a business node has a second try, or the loop ends
WorkerFails ==
  /\ Working \/ Reviewing
  /\ failures < MaxFailures /\ failures' = failures + 1
  /\ \/ Save(AfterFailure(mem, IF Reviewing THEN mem.cycle ELSE 0))
     \/ UNCHANGED <<disk, session>>
  /\ Stop \/ (Working /\ UNCHANGED <<pc, mem>>)
  /\ UNCHANGED kills

\* The process dies: loadLast may find the session of the worker that was out
Kill ==
  /\ pc # "down" /\ kills < MaxKills /\ kills' = kills + 1
  /\ Stop
  /\ session' \in {session} \cup (IF Working THEN {None} ELSE {})
       \cup (IF Reviewing THEN {[cycle |-> mem.cycle, kind |-> ReviewAt[mem.stage],
                                 index |-> mem.next]} ELSE {})
  /\ UNCHANGED <<disk, failures>>

Resume ==
  /\ pc = "down" /\ disk.stage # "ACCEPTED" /\ Restores(disk)
  /\ pc' = "loop" /\ mem' = Restored(disk, session)
  /\ UNCHANGED <<disk, session, failures, kills>>

Next ==
  \/ TakeUpReview \/ Intake \/ Investigate \/ Dispose \/ Implement \/ Verify \/ VerifyAgain
  \/ Unblock \/ EnterReview \/ Vote \/ FinishReview \/ LeaveReview
  \/ AskUser \/ ReviewCommand \/ Leave
  \/ WorkerFails \/ Kill \/ Resume

Spec == Init /\ [][Next]_vars

(***************************************************************************)
(* What the gates promise together                                         *)
(***************************************************************************)
\* Every reviewer of the panel accepted in the cycle of the newest plan review,
\* and whoever answered last had the current disposition in front of it
PlanApproved(arts) ==
  LET last == Latest(arts, "change_plan_review")
  IN  /\ Has(arts, "change_plan_review")
      /\ Cardinality({arts[i].who : i \in
           {j \in Votes(arts, "change_plan_review", last.cycle) : arts[j].verdict = "accepted"}}) >= 2
      /\ last.of = Latest(arts, "disposition").n

\* The newest review of a kind accepted the newest piece of work of that kind
ReviewedAsItIs(arts, kind) ==
  /\ Has(arts, kind) /\ Has(arts, Reviewed[kind])
  /\ Latest(arts, kind).verdict = "accepted"
  /\ Latest(arts, kind).of = Latest(arts, Reviewed[kind]).n

\* A run that is ACCEPTED has earned it, whatever was killed, retried, sent back or
\* decided by /fix review on the way: its newest investigation was accepted by its own
\* review, its newest verification passed, and if the disposition changes the repository
\* then the plan was approved, the implementation as it is was reviewed, and the
\* verification came later (evaluateAcceptance, index.ts)
AcceptedIsEarned ==
  disk.stage = "ACCEPTED" =>
    /\ ReviewedAsItIs(disk.arts, "investigation_review")
    /\ VerdictOf(disk.arts, "verification") = "accepted"
    /\ RequiresChange(disk.arts) =>
         /\ PlanApproved(disk.arts) /\ ReviewedAsItIs(disk.arts, "change_review")
         /\ After(disk.arts, "verification", "implementation")

\* No step from DISPOSITION to IMPLEMENTING without two acceptances from two reviewers in
\* one cycle, also when the cycle was interrupted and continued by another process
\* (assertChangePlanReviewGate, index.ts)
NoPlanIsImplementedUnapproved ==
  [][disk.stage = "DISPOSITION" /\ disk'.stage = "IMPLEMENTING" => PlanApproved(disk'.arts)]_vars

\* No step from IMPLEMENTING to VERIFYING without an acceptance of the implementation as it
\* is: a review of an earlier one, of the same revision or not, does not do
\* (assertVerificationEntryBound, index.ts)
NoChangeIsVerifiedUnreviewed ==
  [][disk.stage = "IMPLEMENTING" /\ disk'.stage = "VERIFYING" =>
       ReviewedAsItIs(disk'.arts, "change_review")]_vars

\* Nobody votes twice in a cycle, however often the panel is interrupted: a completed
\* reviewer is never started again in its cycle (runReview, index.ts)
OneVotePerReviewer ==
  \A i, j \in DOMAIN mem.arts :
    LET a == mem.arts[i]
        b == mem.arts[j]
    IN  (a.who # 0 /\ a.kind = b.kind /\ a.cycle = b.cycle /\ a.who = b.who) => i = j

\* Work once saved is never lost or reordered by a later checkpoint: only the note that a
\* run is blocked may give way to a newer one (applyTransition, runReview and the failure
\* checkpoint of executeNode, index.ts)
WorkIsKept == [][IsPrefix(WithoutNote(disk.arts), WithoutNote(disk'.arts))]_vars

=============================================================================
