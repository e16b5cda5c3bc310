--------------------------- MODULE AsyncCompaction ---------------------------
(***************************************************************************)
(* Background compaction of one Pi session                                 *)
(* (packages/async-compaction/src/controller.ts and index.ts): a summary   *)
(* is generated ahead of time from a snapshot of the history, offered when *)
(* the host compacts, and adopted only if nothing it stands for changed.   *)
(*                                                                         *)
(* A step is one run of the JavaScript event loop up to the next await.    *)
(* A session has an extension instance of its own, so one session is       *)
(* modelled.  The generation number is compared for equality only and only *)
(* grows: an attempt keeps whether its snapshot's generation is current.   *)
(* Token counts, settings and the environment digest are data: "fitting"   *)
(* says that they still allow the candidate.                               *)
(***************************************************************************)
EXTENDS Naturals, FiniteSets, Sequences, SequencesExt

CONSTANTS
  History,      \* messages of the session when it starts
  MaxAttempts,  \* bound: background requests ever started
  MaxEntries,   \* bound: session entries ever appended
  MaxInputs,    \* bound: user inputs ever accepted
  Changes       \* bound: which changes around the controller a run contains

Surroundings == {"preference", "environment", "edit", "navigation"}

ASSUME AsyncAssumption ==
  /\ History \in Nat \ {0}
  /\ MaxAttempts \in Nat \ {0} /\ MaxEntries \in Nat \ {0} /\ MaxInputs \in Nat
  /\ Changes \subseteq Surroundings

VARIABLES
  branch,    \* the active branch of the session, oldest entry first
  nextEntry, \* id of the next entry
  disk,      \* the machine preference "asyncCompaction" on disk
  enabled,   \* Controller.enabled
  bound,     \* Controller.session is this session
  attempts,  \* every Attempt ever created
  slot,      \* Controller.attempt (0: null)
  starts,    \* Controller.starts
  cooling,   \* lastStart lies less than 60 seconds back
  failedAt,  \* Controller.failedAt is set
  committed, \* Controller.lastCompactId
  host,      \* where the host's compaction stands
  prepared,  \* the branch the handler holds the host's compaction to (empty: none)
  offerOf,   \* Controller.activeOfferId, or the attempt the host is offered
  aborted,   \* the host aborted the compaction's signal while the handler waits
  inputs,    \* stage of every user input
  fence      \* preflight, pendingInputs and materializingInputs of index.ts

control == <<enabled, bound, slot, starts, cooling, failedAt, committed>>
session == <<branch, nextEntry, prepared>>
vars == <<session, disk, control, attempts, host, offerOf, aborted, inputs, fence>>

Ids == 1..MaxAttempts
InputIds == 1..MaxInputs
Entry == [id : Nat, kind : {"message", "edit", "compaction"}, by : 0..MaxAttempts]
Reasons == {"none", "stop", "retire"}
  \* cancelReason: user, host and scope stop the host's compaction too;
  \* off, deadline, native and unknown only retire the attempt
Outcomes == {"none", "adopted", "discarded", "cancelled", "failed"}
Attempt == [source : Seq(Entry), cut : Nat,     \* the snapshot: branch and first kept entry
            used : BOOLEAN, current : BOOLEAN,  \* created; snapshot.generation is current
            fitting : BOOLEAN, request : BOOLEAN,
            settled : BOOLEAN, summary : BOOLEAN, offered : BOOLEAN, cancelled : BOOLEAN,
            nativeFallback : BOOLEAN, reason : Reasons, boundary : Nat, recorded : Outcomes]
Unused == [source |-> <<>>, cut |-> 0, used |-> FALSE, current |-> FALSE, fitting |-> FALSE,
           request |-> FALSE, settled |-> FALSE, summary |-> FALSE, offered |-> FALSE,
           cancelled |-> FALSE, nativeFallback |-> FALSE, reason |-> "none", boundary |-> 0,
           recorded |-> "none"]
NoFence == [preflight |-> FALSE, pending |-> 0, seen |-> {}]
HostPcs == {"idle", "waiting", "offered", "native", "committed", "failing", "closed"}

TypeOK ==
  /\ branch \in Seq(Entry) /\ prepared \in Seq(Entry) /\ nextEntry \in Nat
  /\ disk \in BOOLEAN /\ enabled \in BOOLEAN /\ bound \in BOOLEAN
  /\ attempts \in [Ids -> Attempt] /\ slot \in 0..MaxAttempts /\ offerOf \in 0..MaxAttempts
  /\ starts \in 0..2 /\ cooling \in BOOLEAN /\ failedAt \in BOOLEAN /\ committed \in Nat
  /\ host \in HostPcs /\ aborted \in BOOLEAN
  /\ inputs \in [InputIds -> {"none", "accepted", "queued", "seen", "stored"}]
  /\ fence \in [preflight : BOOLEAN, pending : 0..MaxInputs, seen : SUBSET InputIds]

Message(id) == [id |-> id, kind |-> "message", by |-> 0]

Init ==
  /\ branch = [k \in 1..History |-> Message(k)] /\ nextEntry = History + 1 /\ prepared = <<>>
  /\ disk \in BOOLEAN /\ enabled = FALSE /\ bound = FALSE
  /\ attempts = [a \in Ids |-> Unused] /\ slot = 0 /\ offerOf = 0
  /\ starts = 0 /\ cooling = FALSE /\ failedAt = FALSE /\ committed = 0
  /\ host = "idle" /\ aborted = FALSE
  /\ inputs = [i \in InputIds |-> "none"]
  /\ fence = NoFence

-----------------------------------------------------------------------------
(* The session branch.                                                     *)
IdsOf(entries) == {entries[k].id : k \in DOMAIN entries}
Leaf(entries) == Last(entries).id
LastCompaction(entries) ==
  LET k == SelectLastInSeq(entries, LAMBDA e : e.kind = "compaction")
  IN  IF k = 0 THEN 0 ELSE entries[k].id
AppendEntry(kind, by) ==
  /\ nextEntry <= MaxEntries
  /\ branch' = Append(branch, [id |-> nextEntry, kind |-> kind, by |-> by])
  /\ nextEntry' = nextEntry + 1

(* sameSnapshotBranch: the leaf of the snapshot is still on the branch.    *)
OnBranch(a, entries) == Leaf(attempts[a].source) \in IdsOf(entries)
SameBranch(a) == OnBranch(a, branch)

(* Slip: the entries still on the branch are taken to be unchanged.        *)
ValidByIds(a) ==
  /\ attempts[a].fitting
  /\ LastCompaction(branch) = LastCompaction(attempts[a].source)
  /\ attempts[a].cut \in IdsOf(branch)

(* valid: same latest compaction, the cut still there, the projection of   *)
(* everything before it unchanged, the same environment.                   *)
Valid(a) ==
  /\ attempts[a].fitting
  /\ LastCompaction(branch) = LastCompaction(attempts[a].source)
  /\ attempts[a].cut \in IdsOf(branch)
  /\ \A e \in Range(branch) : e.kind = "edit" => e \in Range(attempts[a].source)

HasPendingMessages == \E i \in InputIds : inputs[i] = "queued"

-----------------------------------------------------------------------------
(* The controller's helpers, each from a table of attempts to the next.    *)
Record(table, a, outcome) ==
  IF table[a].recorded = "none" /\ SameBranch(a)
  THEN [table EXCEPT ![a].recorded = outcome] ELSE table

(* Nobody holds an attempt that left the slot and has no answer to come;   *)
(* its outcome stays in the history of the session.                        *)
Forget(table) ==
  [a \in Ids |-> IF table[a].settled \/ ~table[a].request
                 THEN [Unused EXCEPT !.used = table[a].used, !.source = table[a].source,
                                     !.recorded = table[a].recorded]
                 ELSE table[a]]

NewGeneration(table) == [a \in Ids |-> [table[a] EXCEPT !.current = FALSE]]

(* cancel: nothing happens twice; a settled candidate is recorded at once  *)
(* and starts the cooldown (fence).                                        *)
Cancel(table, a, reason) ==
  IF a \notin {b \in Ids : ~table[b].cancelled} THEN table ELSE
  LET marked == [table EXCEPT ![a].cancelled = TRUE,
                              ![a].reason = IF @ = "none" THEN reason ELSE @]
  IN  IF table[a].settled THEN Record(marked, a, "cancelled") ELSE marked

CancelFences(table, a) ==
  a # 0 /\ ~table[a].cancelled /\ table[a].settled /\ bound /\ SameBranch(a)

Cooldown(fences) ==
  /\ failedAt' = (failedAt \/ fences)
  /\ cooling' = (cooling \/ fences)

(* The preference as read: what is on disk, or off when it is unreadable.  *)
Preference(on) == on = disk \/ (on = FALSE /\ "preference" \in Changes)

(* set, with first and then with on: leaving the feature retires the       *)
(* snapshot and the attempt.                                               *)
ApplyBoth(first, on) ==
  LET off == bound /\ (enabled \/ first) /\ ~(first /\ on)
      retired == NewGeneration(attempts)
  IN  /\ bound' = TRUE /\ enabled' = on
      /\ attempts' = IF off THEN Cancel(retired, slot, "retire")
                     ELSE IF bound THEN attempts ELSE retired
      /\ Cooldown(off /\ CancelFences(attempts, slot))

ApplyPreference(on) == ApplyBoth(on, on)

(* stop: a user Escape, an aborted agent run, a manual compaction.         *)
StopAttempt(reason) ==
  LET named == [a \in Ids |-> IF a = slot /\ ~attempts[a].cancelled
                              THEN [attempts[a] EXCEPT !.reason = reason] ELSE attempts[a]]
  IN  /\ attempts' = Cancel(NewGeneration(named), slot, reason)
      /\ Cooldown(CancelFences(attempts, slot))

(* Slip: the first message seen is taken for all of them.                  *)
FenceDropsOnFirst ==
  /\ fence.preflight /\ fence.pending > 0 /\ fence.seen # {}
  /\ ~HasPendingMessages
  /\ \A i \in fence.seen : inputs[i] = "stored"

(* inputStillPending: the fence drops only when as many messages were seen *)
(* as inputs accepted, and every one of them is on the branch.             *)
FenceDrops ==
  /\ fence.preflight /\ fence.pending > 0 /\ Cardinality(fence.seen) = fence.pending
  /\ ~HasPendingMessages
  /\ \A i \in fence.seen : inputs[i] = "stored"
InputStillPending == fence.preflight /\ ~FenceDrops
CheckFence == fence' = IF FenceDrops THEN NoFence ELSE fence

-----------------------------------------------------------------------------
(* turn_start, input and turn_end handlers read the preference first.      *)
Refresh ==
  /\ host # "closed"
  /\ \E on \in BOOLEAN : Preference(on) /\ ApplyPreference(on)
  /\ UNCHANGED <<session, disk, slot, starts, committed, host, offerOf, aborted, inputs,
                 fence>>

Input(i) ==
  /\ host # "closed" /\ inputs[i] = "none" /\ \A j \in InputIds : j < i => inputs[j] # "none"
  /\ inputs' = [inputs EXCEPT ![i] = "accepted"]
  /\ fence' = [fence EXCEPT !.preflight = TRUE, !.pending = @ + 1]
  /\ UNCHANGED <<session, disk, control, attempts, host, offerOf, aborted>>

(* The host may queue an input, then emits message_end for it and only     *)
(* then appends it to the branch.                                          *)
QueueInput(i) ==
  /\ host # "closed" /\ inputs[i] = "accepted"
  /\ inputs' = [inputs EXCEPT ![i] = "queued"]
  /\ UNCHANGED <<session, disk, control, attempts, host, offerOf, aborted, fence>>

MessageEnd(i) ==
  /\ host # "closed" /\ inputs[i] \in {"accepted", "queued"}
  /\ inputs' = [inputs EXCEPT ![i] = "seen"]
  /\ fence' = IF fence.preflight THEN [fence EXCEPT !.seen = @ \cup {i}] ELSE fence
  /\ UNCHANGED <<session, disk, control, attempts, host, offerOf, aborted>>

StoreInput(i) ==
  /\ host # "closed" /\ inputs[i] = "seen"
  /\ inputs' = [inputs EXCEPT ![i] = "stored"]
  /\ AppendEntry("message", 0)
  /\ UNCHANGED <<prepared, disk, control, attempts, host, offerOf, aborted, fence>>

-----------------------------------------------------------------------------
(* schedule: at most one physical request, two per native compaction, 60   *)
(* seconds apart, and never while a valid candidate is ready.              *)
ReadyCandidate == slot # 0 /\ attempts[slot].summary /\ ~attempts[slot].cancelled /\ Valid(slot)
SlotBusy == slot # 0 /\ ~attempts[slot].settled
MaySchedule ==
  /\ ~HasPendingMessages
  /\ ~SlotBusy /\ ~ReadyCandidate
  /\ starts < 2 /\ ~cooling

(* plan chooses the first kept entry: a message with something before and  *)
(* something after it.                                                     *)
Plan(a, k) ==
  [Unused EXCEPT !.source = branch, !.cut = branch[k].id, !.used = TRUE, !.current = TRUE,
                 !.fitting = TRUE, !.request = TRUE, !.boundary = Leaf(branch)]

Superseded == Forget(IF slot = 0 THEN attempts ELSE Record(attempts, slot, "discarded"))

(* turn_end reads the preference, then schedules.  A session that is not   *)
(* bound has no attempt for set to reset.                                  *)
Start(a) ==
  /\ host = "idle" /\ disk /\ MaySchedule
  /\ ~attempts[a].used /\ \A b \in Ids : b < a => attempts[b].used
  /\ \E k \in 2..Len(branch) - 1 :
       /\ branch[k].kind = "message"
       /\ \/ attempts' = [Superseded EXCEPT ![a] = Plan(a, k)]
          \/ attempts' = [Superseded EXCEPT ![a] =      \* streamSimple or result threw
               [Plan(a, k) EXCEPT !.request = FALSE, !.cancelled = TRUE, !.recorded = "failed"]]
  /\ slot' = a /\ starts' = starts + 1 /\ cooling' = TRUE
  /\ enabled' = TRUE /\ bound' = TRUE
  /\ UNCHANGED <<session, disk, failedAt, committed, host, offerOf, aborted,
                 inputs, fence>>

(* The physical response: then and finally.  The summary is kept only for  *)
(* a live, current, enabled attempt; a failure starts the cooldown.        *)
Reply(a) ==
  /\ attempts[a].request /\ ~attempts[a].settled
  /\ \E completed \in BOOLEAN :
       LET kept == completed /\ enabled /\ ~attempts[a].cancelled /\ attempts[a].current
           live == bound /\ SameBranch(a)
           done == [attempts EXCEPT ![a].settled = TRUE, ![a].summary = kept]
       IN  /\ attempts' = IF live /\ ~kept
                          THEN Record(done, a, IF attempts[a].cancelled THEN "cancelled" ELSE "failed")
                          ELSE done
           /\ Cooldown(/\ live /\ slot # 0 /\ SameBranch(slot)
                       /\ attempts[a].nativeFallback \/ ~kept)
  /\ UNCHANGED <<session, disk, enabled, bound, slot, starts, committed, host, offerOf,
                 aborted, inputs, fence>>

(* The generation budget of 600 seconds is over.                           *)
Deadline(a) ==
  /\ attempts[a].request /\ ~attempts[a].settled /\ ~attempts[a].cancelled
  /\ attempts' = [attempts EXCEPT ![a].cancelled = TRUE, ![a].reason = "retire"]
  /\ UNCHANGED <<session, disk, control, host, offerOf, aborted, inputs, fence>>

-----------------------------------------------------------------------------
(* session_before_compact.  The host has prepared a compaction of the      *)
(* branch; anything but a threshold compaction stops the attempt.  Where   *)
(* the handler returns nothing, it does not hold the host to that branch.  *)
ManualCompact ==
  /\ host = "idle" /\ host' = "native" /\ prepared' = <<>>
  /\ \E on \in BOOLEAN :
       /\ Preference(on)
       /\ IF bound /\ enabled /\ ~on THEN ApplyPreference(FALSE)
          ELSE StopAttempt("retire") /\ enabled' = on /\ bound' = TRUE
  /\ UNCHANGED <<branch, nextEntry, disk, slot, starts, committed, offerOf, aborted, inputs,
                 fence>>

MayOffer ==
  /\ slot # 0 /\ ~attempts[slot].cancelled /\ ~attempts[slot].offered
  /\ attempts[slot].current /\ Valid(slot) /\ ~HasPendingMessages

(* offer returns the summary: the attempt is marked before the host asks.  *)
Offered(a) ==
  /\ attempts' = [attempts EXCEPT ![a].offered = TRUE, ![a].boundary = Leaf(branch)]
  /\ host' = "offered" /\ offerOf' = a

NoOffer == host' = "native" /\ offerOf' = 0 /\ UNCHANGED attempts

ThresholdCompact ==
  /\ host = "idle"
  /\ \/ /\ Preference(FALSE) /\ ApplyPreference(FALSE) /\ UNCHANGED fence
        /\ host' = "native" /\ offerOf' = 0 /\ prepared' = <<>>
     \/ /\ disk /\ ApplyPreference(TRUE) /\ CheckFence
        /\ InputStillPending \/ ~MayOffer
        /\ host' = "native" /\ offerOf' = 0
        /\ prepared' = IF InputStillPending THEN <<>> ELSE branch
     \/ /\ disk /\ bound /\ prepared' = branch /\ enabled' = TRUE /\ CheckFence
        /\ ~InputStillPending /\ MayOffer
        /\ IF attempts[slot].summary THEN Offered(slot)
           ELSE IF attempts[slot].settled THEN NoOffer
           ELSE host' = "waiting" /\ offerOf' = slot /\ UNCHANGED attempts
        /\ UNCHANGED <<bound, cooling, failedAt>>
  /\ UNCHANGED <<branch, nextEntry, disk, slot, starts, committed, aborted, inputs>>

(* The host goes on with its own compaction, or needs nothing of the       *)
(* handler's any more.                                                     *)
FallsBack == host' = "native" /\ offerOf' = 0
HostDone(place) == host' = place /\ prepared' = <<>> /\ offerOf' = 0 /\ aborted' = FALSE

(* The wait ends with the response, with an abort, or with the budget.     *)
(* A response is validated once more; an input that came in the meantime   *)
(* discards the offer, which stays marked.                                 *)
FinallyValid(a) ==
  /\ enabled /\ bound /\ attempts[a].current /\ attempts[a].summary
  /\ Valid(a) /\ ~HasPendingMessages

WakeSettled ==
  LET a == offerOf IN
  /\ host = "waiting" /\ attempts[a].settled /\ ~attempts[a].cancelled /\ ~aborted
  /\ IF FinallyValid(a)
     THEN /\ attempts' = [attempts EXCEPT ![a].offered = TRUE, ![a].boundary = Leaf(branch)]
          /\ IF InputStillPending THEN FallsBack ELSE host' = "offered" /\ UNCHANGED offerOf
     ELSE UNCHANGED attempts /\ FallsBack
  /\ CheckFence
  /\ UNCHANGED <<session, disk, control, aborted, inputs>>

(* Slip: a stop ends the wait only.                                        *)
WakeInterruptedFallsBack ==
  LET a == offerOf IN
  /\ host = "waiting" /\ (attempts[a].cancelled \/ aborted)
  /\ attempts' = Cancel(attempts, slot, "stop")
  /\ Cooldown(~attempts[a].cancelled /\ CancelFences(attempts, slot))
  /\ FallsBack /\ aborted' = FALSE
  /\ UNCHANGED <<session, disk, enabled, bound, slot, starts, committed, inputs, fence>>

(* A user, host or scope cancellation cancels the host's compaction too.   *)
WakeInterrupted ==
  LET a == offerOf
      reason == IF aborted THEN "stop" ELSE attempts[a].reason IN
  /\ host = "waiting" /\ (attempts[a].cancelled \/ aborted)
  /\ LET named == [attempts EXCEPT ![a].reason = reason]
     IN  attempts' = IF attempts[a].cancelled THEN named ELSE Cancel(named, slot, reason)
  /\ Cooldown(~attempts[a].cancelled /\ CancelFences(attempts, slot))
  /\ IF reason = "stop" THEN HostDone("failing")
                        ELSE FallsBack /\ UNCHANGED <<prepared, aborted>>
  /\ UNCHANGED <<branch, nextEntry, disk, enabled, bound, slot, starts, committed, inputs,
                 fence>>

(* Slip: the deadline does not wake the host.                              *)
WakeNeverExpires == FALSE

WakeExpired ==
  LET a == offerOf IN
  /\ host = "waiting" /\ ~attempts[a].settled /\ ~attempts[a].cancelled /\ ~aborted
  /\ attempts' = Cancel([attempts EXCEPT ![a].reason = "retire"], slot, "retire")
  /\ FallsBack
  /\ UNCHANGED <<session, disk, control, aborted, inputs, fence>>

(* The getters the host reads after every handler: a changed projection    *)
(* cancels the compaction; canAdopt is asked once, with everything the     *)
(* offer depended on read again.                                           *)
Stale == prepared # <<>> /\ branch # prepared

CanAdopt(a) ==
  /\ a = slot /\ ~attempts[a].cancelled /\ attempts[a].offered /\ attempts[a].current
  /\ ~HasPendingMessages /\ Valid(a)

DropStale ==
  /\ host \in {"offered", "native"} /\ Stale
  /\ HostDone("failing")
  /\ UNCHANGED <<branch, nextEntry, disk, control, attempts, inputs, fence>>

Decline ==
  /\ host = "offered" /\ ~Stale /\ CheckFence
  /\ \/ InputStillPending /\ UNCHANGED <<enabled, bound, attempts, cooling, failedAt>>
     \/ ~InputStillPending /\ Preference(FALSE) /\ ApplyPreference(FALSE)
     \/ ~InputStillPending /\ disk /\ ~CanAdopt(offerOf) /\ ApplyPreference(TRUE)
  /\ FallsBack
  /\ UNCHANGED <<session, disk, slot, starts, committed, aborted, inputs>>

Adopt ==
  /\ host = "offered" /\ ~Stale /\ CheckFence
  /\ ~InputStillPending /\ disk /\ bound /\ CanAdopt(offerOf)
  /\ enabled' = TRUE
  /\ AppendEntry("compaction", offerOf)
  /\ HostDone("committed")
  /\ UNCHANGED <<disk, bound, slot, starts, cooling, failedAt, committed, attempts, inputs>>

(* The host's own compaction, or its failure or abort at any moment.       *)
NativeCommit ==
  /\ host = "native" /\ ~Stale
  /\ AppendEntry("compaction", 0)
  /\ HostDone("committed")
  /\ UNCHANGED <<disk, control, attempts, inputs, fence>>

HostAborts ==
  /\ \/ /\ host = "waiting" /\ ~aborted /\ aborted' = TRUE
        /\ UNCHANGED <<host, prepared, offerOf>>
     \/ host \in {"offered", "native"} /\ HostDone("failing")
  /\ UNCHANGED <<branch, nextEntry, disk, control, attempts, inputs, fence>>

-----------------------------------------------------------------------------
(* Slip: any compaction after the offer is taken for the attempt's.        *)
OwnsNextCommit(a) ==
  /\ ~attempts[a].cancelled /\ attempts[a].offered /\ attempts[a].current
  /\ \E k \in DOMAIN branch :
       /\ branch[k].id = LastCompaction(branch)
       /\ attempts[a].boundary \in IdsOf(SubSeq(branch, 1, k - 1))

(* session_compact: what was committed decides the attempt's outcome, and  *)
(* every snapshot is out of date.                                          *)
OwnsCommit(a) ==
  /\ ~attempts[a].cancelled /\ attempts[a].offered /\ attempts[a].current
  /\ \E k \in DOMAIN branch :
       /\ branch[k].id = LastCompaction(branch) /\ branch[k].by = a
       /\ attempts[a].boundary \in IdsOf(SubSeq(branch, 1, k - 1))

AfterNative(adopted) ==
  /\ starts' = 0
  /\ failedAt' = (failedAt /\ ~adopted)
  /\ cooling' = (cooling /\ failedAt /\ ~adopted)

Compact ==
  /\ host = "committed" /\ HostDone("idle")
  /\ IF LastCompaction(branch) = committed
     THEN UNCHANGED <<attempts, slot, starts, failedAt, cooling, committed>>
     ELSE
       /\ committed' = LastCompaction(branch)
       /\ IF slot = 0 \/ (slot # 0 /\ attempts[slot].nativeFallback)
          THEN /\ attempts' = NewGeneration(attempts)
               /\ AfterNative(FALSE) /\ UNCHANGED slot
          ELSE LET adopted == OwnsCommit(slot) IN
               /\ attempts' = NewGeneration(
                    IF ~attempts[slot].settled
                    THEN Cancel([attempts EXCEPT ![slot].nativeFallback = TRUE], slot, "retire")
                    ELSE Record(attempts, slot, IF adopted THEN "adopted" ELSE "discarded"))
               /\ slot' = IF attempts[slot].settled THEN 0 ELSE slot
               /\ AfterNative(adopted)
  /\ UNCHANGED <<branch, nextEntry, disk, enabled, bound, inputs, fence>>

(* session_compact_failed: an offered candidate is given up.               *)
Failed ==
  /\ host = "failing" /\ HostDone("idle")
  /\ LET offered == slot # 0 /\ attempts[slot].offered IN
     /\ attempts' = IF offered THEN Record(attempts, slot, "discarded") ELSE attempts
     /\ slot' = IF offered THEN 0 ELSE slot
     /\ Cooldown(offered /\ bound /\ SameBranch(slot))
  /\ UNCHANGED <<branch, nextEntry, disk, enabled, bound, starts, committed, inputs, fence>>

-----------------------------------------------------------------------------
(* The user and the host around it.                                        *)
Escape ==
  /\ enabled /\ StopAttempt("stop")
  /\ UNCHANGED <<session, disk, enabled, bound, slot, starts, committed, host, offerOf,
                 aborted, inputs, fence>>

AgentAborted ==
  /\ host # "closed" /\ StopAttempt("stop")
  /\ UNCHANGED <<session, disk, enabled, bound, slot, starts, committed, host, offerOf,
                 aborted, inputs, fence>>

(* /async-compact reads the preference, sets the wanted one and saves it;  *)
(* a save that fails leaves it set in this instance only.                  *)
Command ==
  /\ host # "closed" /\ "preference" \in Changes
  /\ \E first, on \in BOOLEAN :
       Preference(first) /\ ApplyBoth(first, on) /\ disk' \in {disk, on}
  /\ UNCHANGED <<session, slot, starts, committed, host, offerOf, aborted, inputs, fence>>

(* /async-compact in another Pi instance, or an edit of the settings file. *)
ChangePreference ==
  /\ host # "closed" /\ "preference" \in Changes /\ disk' = ~disk
  /\ UNCHANGED <<session, control, attempts, host, offerOf, aborted, inputs, fence>>

(* Model, tools, system prompt or token counts no longer fit a snapshot.   *)
Drift ==
  /\ host # "closed" /\ "environment" \in Changes
  /\ \E a \in Ids : attempts[a].fitting
  /\ attempts' = [a \in Ids |-> [attempts[a] EXCEPT !.fitting = FALSE]]
  /\ UNCHANGED <<session, disk, control, host, offerOf, aborted, inputs, fence>>

(* The agent's messages, and context edits of other extensions.            *)
BranchGrows ==
  /\ host \in {"idle", "waiting", "offered", "native"}
  /\ \E kind \in {"message"} \cup (Changes \cap {"edit"}) : AppendEntry(kind, 0)
  /\ UNCHANGED <<prepared, disk, control, attempts, host, offerOf, aborted, inputs, fence>>

CooldownEnds ==
  /\ cooling /\ cooling' = FALSE
  /\ host = "idle" /\ ~SlotBusy /\ starts < 2   \* bound: schedule alone reads the clock,
  /\ \E a \in Ids : ~attempts[a].used           \* and only for another request
  /\ UNCHANGED <<session, disk, enabled, bound, slot, starts, failedAt, committed, attempts,
                 host, offerOf, aborted, inputs, fence>>

Zeroed == starts' = 0 /\ cooling' = FALSE /\ failedAt' = FALSE /\ committed' = 0

(* session_tree: the user navigates back on an idle session; resetTree     *)
(* cancels the attempt but keeps an unsettled request in its slot.         *)
Navigate ==
  /\ "navigation" \in Changes
  /\ host = "idle" /\ \A i \in InputIds : inputs[i] \in {"none", "stored"}
  /\ \E k \in 1..Len(branch) - 1 :
       /\ branch' = SubSeq(branch, 1, k)
       /\ attempts' = [a \in Ids |->
            IF a # slot THEN [attempts[a] EXCEPT !.current = FALSE]
            ELSE [attempts[a] EXCEPT !.current = FALSE, !.cancelled = TRUE,
                    !.reason = IF attempts[a].cancelled THEN @ ELSE "stop",
                    !.recorded = IF /\ attempts[a].settled /\ @ = "none"
                                    /\ OnBranch(a, SubSeq(branch, 1, k))
                                 THEN "cancelled" ELSE @]]
  /\ slot' = IF SlotBusy THEN slot ELSE 0
  /\ bound' = TRUE /\ enabled' = FALSE /\ Zeroed
  /\ fence' = NoFence
  /\ UNCHANGED <<nextEntry, prepared, disk, host, offerOf, aborted, inputs>>

(* reset, at session_start; leave and shutdown, at session_shutdown.       *)
Reset(table) ==
  /\ attempts' = Forget(NewGeneration(table))
  /\ slot' = 0 /\ bound' = FALSE /\ enabled' = FALSE /\ Zeroed
  /\ fence' = NoFence

SessionStart ==
  /\ host = "idle" /\ \A i \in InputIds : inputs[i] \in {"none", "stored"}
  /\ Reset(Cancel(attempts, slot, "stop"))
  /\ UNCHANGED <<session, disk, host, offerOf, aborted, inputs>>

Shutdown ==
  /\ host # "closed" /\ HostDone("closed")
  /\ LET left == Cancel(attempts, slot, "stop")
     IN  Reset(IF slot = 0 THEN left ELSE Record(left, slot, "cancelled"))
  /\ UNCHANGED <<branch, nextEntry, disk, inputs>>

Next ==
  \/ Refresh
  \/ \E i \in InputIds : Input(i) \/ QueueInput(i) \/ MessageEnd(i) \/ StoreInput(i)
  \/ \E a \in Ids : Start(a) \/ Reply(a) \/ Deadline(a)
  \/ ManualCompact \/ ThresholdCompact
  \/ WakeSettled \/ WakeInterrupted \/ WakeExpired
  \/ DropStale \/ Decline \/ Adopt \/ NativeCommit \/ HostAborts \/ Compact \/ Failed
  \/ Escape \/ AgentAborted \/ Command \/ ChangePreference \/ Drift \/ BranchGrows \/ CooldownEnds
  \/ Navigate \/ SessionStart \/ Shutdown

Spec == Init /\ [][Next]_vars

(* Timers fire and promise continuations run.                              *)
FairSpec == Spec /\ WF_vars(WakeSettled) /\ WF_vars(WakeInterrupted) /\ WF_vars(WakeExpired)

-----------------------------------------------------------------------------
(* An adopted summary stands for the history it was made from: the branch  *)
(* has no edit and no compaction its snapshot did not contain, nothing the *)
(* user typed is still on its way, and nobody cancelled it or turned the   *)
(* feature off.                                                            *)
AdoptsOnlyUnchanged ==
  [][\A a \in Ids :
       (Len(branch') > Len(branch) /\ Last(branch').by = a) =>
         /\ \A e \in Range(branch) : e.kind # "message" => e \in Range(attempts[a].source)
         /\ attempts[a].cut \in IdsOf(branch)
         /\ \A i \in InputIds : inputs[i] \in {"none", "stored"}
         /\ disk /\ ~attempts[a].cancelled /\ attempts[a].fitting]_vars

(* Billing: an attempt is accounted as adopted only by the event of the    *)
(* compaction it produced, never as failed or discarded while its summary is*)
(* in the history, and an outcome once recorded never changes; whichever   *)
(* compactions, navigation and later attempts come between.                *)
OutcomeIsHonest ==
  [][\A a \in Ids : attempts'[a].recorded # attempts[a].recorded =>
       /\ attempts[a].recorded = "none"
       /\ attempts'[a].recorded = "adopted" =>
            \E e \in Range(branch) : e.id = LastCompaction(branch) /\ e.by = a
       /\ attempts'[a].recorded \in {"discarded", "failed"} =>
            \A e \in Range(branch) : e.by # a]_vars

(* Escape, or a host abort, while the host waits for the candidate cancels *)
(* the compaction: the wait does not fall through to native compaction.    *)
CancelIsNotFallback ==
  [][host = "waiting" /\ host' = "native" =>
       ~aborted /\ attempts'[offerOf].reason # "stop"]_vars

(* The host never waits for ever for a candidate, even if the provider     *)
(* never answers.                                                          *)
WaitEnds == host = "waiting" ~> host # "waiting"

=============================================================================
