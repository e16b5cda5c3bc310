# my-pi-extension in TLA+

Models of the stateful parts of this repository, checked with TLC on small
instances, and theorems about some of them checked with TLAPS for instances of
any size. Paths are relative to the repository; `packages/` stands for
`src/packages/`.

Contents: [the system](#1-the-system) ·
[modules and the code they model](#2-modules-and-the-code-they-model) ·
[runs](#3-what-the-runs-show) · [proofs](#4-what-is-proved) ·
[where the code falls short](#5-where-the-code-falls-short) ·
[what is not modelled](#6-what-is-not-modelled) · [plan](#7-plan)

## 1. The system

Pi is a terminal coding agent; the repository holds extensions that run inside
a Pi process. Several Pi processes may work on the same machine, user and
repository, and share nothing but files. Inside one process the code is
single-threaded JavaScript: interleaving happens at every `await`, and between
processes at every system call.

### Components, their state, and what makes them correct

| Component | State | Operations | Correct when |
| --- | --- | --- | --- |
| Identity lock, `subagent/src/session-lock.ts` | a lock file per session key: owner, token, state of its child | create exclusively, examine and take over a dead owner's lock, register a child, release | one writer per session history; a live owner keeps its lock; a dead one's lock does not stay for ever |
| Child session dispatch, `subagent/src/dispatcher.ts` | registry file, session file, tombstones | create, resume, attempt, retry, fall back, quarantine, cancel | a handle has one history; it is never continued over a damaged one; quarantine is final |
| Child session collection, `subagent/src/gc.ts`, pins in `bridge.ts` | tombstones, pins, ages | list, recover a tombstone, bury, erase | nothing fresh or pinned is deleted; an interrupted deletion is finished |
| Child runner, `subagent/src/runner.ts` | the child process | spawn, watch, terminate, settle | no child is left behind when its attempt settles |
| Async compaction, `async-compaction/src/controller.ts`, `index.ts` | one attempt, its snapshot, generation, preference, input fence | schedule, generate, settle, offer, wait, adopt, discard | a summary replaces only the history it was made from; the wait ends; costs are booked once |
| Workflow runtime, `workflow-runtime/src/index.ts` | stage, artifacts, ledger of review cycles, review cursor, waits | execute a node, review by a panel, transition through gates, decide, checkpoint, restore | nothing is implemented, verified or accepted without the evidence the gates demand, whatever was interrupted |
| Run control log, `workflow-runtime/src/run-control-wal.ts`, `run-gc.ts` | `control.wal`, writer lease, operation lock, tombstone, trash | open, take over, append, fence, import, release, collect | one writer at a time; what was acknowledged stays; a log can always be replayed; deleted runs stay deleted |
| Worker interaction (not modelled), `workflow-runtime/src/interaction.ts` | queue, supplements, versions, per worker | submit a supplement, start and complete a model call, bind the artifact, close | a supplement reaches the artifact the worker closes with, or is refused |
| Fix workflow, `fix/src/extension-v2.ts`, `definition.ts` | the run it drives | the loop, `/fix review`, `/resume` | follows the stage graph of its definition |
| Delegation v2, `subagent/src/delegation-*.ts`, `execution-supervisor.ts`, `action-ledger.ts`, `side-effect-fence*.ts`, `owner-cleanup.ts` | a write-ahead log per call, owner claims, child bindings, action ledger | claim, transfer, spawn, bind, fence actions, interrupt, recover, reattach, cancel, settle, clean up | a child follows the proved death of the one before; no tool call in doubt is passed over; one terminal outcome, of the last child |
| Delivery, cleanup of a call, adoption (not modelled), `delivery.ts`, `cleanup.ts`, `adoption.ts` | receipts, deletion journals | deliver, delete, adopt | at most one delivery |
| Project metrics outbox, `project-metrics/src/client.ts`, `worker.ts` | a file per event, a lock with a reaper guard per directory, blocked markers; a server table | submit, flush, acknowledge, block, forget | an event is removed only when the server has it; none is counted twice |
| Fix metrics service, `fix-metrics-cloudflare/src/store.ts`, `ingest.ts`, `projection.ts`, `public-api.ts` | events, quarantine, immutable snapshots, a pointer, history | ingest, build, store, publish, serve | what is acknowledged is stored; evidence backs what it should; the pointer never goes back to an earlier point; what was served stays so |
| Codex usage and Fast, `codex-usage-status/src/usage.ts`, `fast.ts` | requests in flight, generation, lease | start, answer, end of scope | an answer for another account or an ended scope is not shown |

### How they interact

- A dispatch holds the identity lock of its session key from before it reads
  the registry until its last write. So does a collection for one key at a
  time, and the creation or release of a pin. The child process is not a party
  to the lock: its process id is recorded in the lock file, which is how a
  later dispatcher finds out that a dead owner's child is still writing.
- The driver of `/fix` calls the runtime, the runtime calls workers (the only
  long `await`s) and saves a checkpoint at every commit point. A checkpoint is
  one record of the run control log. The log takes the operation lock around
  each operation, and checks the writer lease inside it. A collection of runs
  takes the same operation lock.
- The host asks the async compaction extension before it compacts. The answer
  may be a promise, and the host looks at the result of the hook only after
  other extensions ran.
- The extensions do not call each other, except that subagent asks
  codex-usage-status for the Fast setting of its parent, and that both Fast and
  compaction put events into the metrics outbox.
- Parents of one v2 delegation share its log under the call lock. A child talks to
  the parent that executes it over a socket, the side-effect fence, and outlives it.
- The outbox posts events to a service over HTTP; an answer may be lost, or arrive
  when the file it is about has been removed and submitted again. The fix metrics
  service keeps everything in one database and is many requests at a time.

### What is hard

Takeovers of locks whose owner looks dead; kills between any two writes and in
the middle of one; snapshots judged after an `await`; a review by several
reviewers that is interrupted between two of them; handles that were valid
before somebody took the run over; deletions that stop halfway; failures of a
single step of several; answers for a state that is gone; a child process that
outlives the parent which recorded it. `PROJECT.json` lists these hazards at their
lines, with the properties that watch them.

## 2. Modules and the code they model

| Module | Uses | Models |
| --- | --- | --- |
| `Mutex` | | abstract: at most one live client between taking a lock and giving it back |
| `Delivery` | | abstract: what is submitted is kept until the service has that very record; the service has one row of an event |
| `PublicationLog` | | abstract: a current revision whose as-of point never goes back, and a record of all that were current |
| `FencedLog` | | abstract: one holder at a time adds lines, under a number past all before it; nothing is taken away before the end |
| `Succession` | | abstract: children that follow one another, of which only the last is bound, and an end that is final |
| `IdentityLock`, `MCIdentityLock` | | `session-lock.ts`, and of `runner.ts` the life of a child |
| `ChildSession`, `MCChildSession` | | `dispatcher.ts`, `gc.ts`, pins of `bridge.ts` |
| `ChildSessionProofs` | `ChildSession` | its safety theorems |
| `Delegation`, `MCDelegation` | implements `Succession` | `execution-supervisor.ts`, `delegation-control.ts`, `action-ledger.ts`, `side-effect-fence.ts`, `side-effect-fence-extension.ts`, `owner-cleanup.ts`, the fenced lifecycle of `runner.ts`, the rules of `wal-replay.ts` |
| `DelegationProofs` | `Delegation` | its safety theorems and the refinement |
| `AsyncCompaction` | | `controller.ts`, `index.ts`, the validity rules of `compaction.ts` |
| `OperationLock` | implements `Mutex` | `withRunOperationLock` of `run-control-wal.ts` |
| `RunControlWal` | implements `FencedLog` | the rest of `run-control-wal.ts`, and `run-gc.ts` |
| `RunControlWalProofs` | `RunControlWal` | its safety theorems and the refinement |
| `WorkflowRun` | | the runtime (`workflow-runtime/src/index.ts`), the driver (`fix/src/extension-v2.ts`), the stage graph (`fix/src/definition.ts`), `loadLast` |
| `WorkflowRunProofs` | `WorkflowRun` | its safety theorems |
| `OutboxLock`, `MCOutboxLock` | implements `Mutex` | `withLock` of `project-metrics/src/client.ts` |
| `LockProofs` | the three locks, `Mutex` | their safety theorems and the two refinements |
| `MetricOutbox`, `MCMetricOutbox` | implements `Delivery` | submission and flush of `client.ts`, the insertion of `worker.ts` |
| `MetricOutboxProofs` | `MetricOutbox` | its bound and the refinement |
| `Publication`, `MCPublication` | implements `PublicationLog` | `ingest.ts`, `store.ts`, `projection.ts`, `public-api.ts` of `fix-metrics-cloudflare` |
| `PublicationProofs` | `Publication` | its safety theorems and the refinement |
| `UsageController` | | the controller of `codex-usage-status/src/usage.ts`: its record and its methods |
| `UsageScope` | `UsageController` | the events, answers and timers that call them |
| `ExtensionProofs` | `AsyncCompaction`, `UsageController`, `UsageScope` | their safety theorems |

The models come in two layers. `IdentityLock`, `OperationLock` and `OutboxLock` go
down to single system calls and show that the lock excludes; `ChildSession`,
`RunControlWal` and `MetricOutbox` use the lock as one variable (`holder`, `locks`)
and take a step per durable write of whoever holds it. What they assume is `Mutex`,
which `OperationLock` and `OutboxLock` are shown to implement; `IdentityLock` also
answers for children that outlive their dispatcher, which no mutex speaks of, and
states its exclusion over the children. `WorkflowRun` in turn takes a checkpoint
of `RunControlWal` as one step; that this may be done is what `FencedLog` says: the
lines on record are only added to, one writer at a time.

**IdentityLock.** One key. `lock` is the lock file: owner, whether its payload
has been written yet, and the child record (idle, starting, running). A
dispatcher's program counter stands at an `await` of `acquireIdentityLock`,
`markChildStarting`, `setChildProcess` or the release. The takeover reads the
record (`ReadExisting`), probes the owner (`ProbeOwner`), inspects its child
with the record it read (`InspectClear`, `InspectBusy`), unlinks whatever is at
the path by then (`Reclaim`) and creates a file of its own. A child is
`forked`, then `visible` to a process scan; `grace` holds the owners whose
starting window is over. `Stubborn` are the dispatchers whose child may outlive
its attempt. `RacyTakeover` says whether other processes may move while
somebody is between reading a stale lock and creating a new one.

**ChildSession.** One logical handle. `registry`, `tombs`, `files`, `age`, `pin`
are the files of the handle; `run` the locals of `execute`, `sweep` the locals
of a collection. Every write may be rejected (`Throw`, `AttemptUnrecorded`,
`RmFails`), a child may leave nothing, part of a record or a valid file, and
survives its dispatcher. Retention elapses between collections.

**Delegation.** One delegation of a call. `d` is the record `wal-replay.ts` computes:
state, owner and its generation, cycle, spawn, binding, death proof, undecided
action, integrity pause, the state before a cancellation, cleanup, outcome. A step
is one append under the call lock, with the checks in front of it and those of
replay. `exec` is what a parent process executes (the loop of
`runAttemptsWithIdentityLock`), `kids` are the child processes, which live on when
their parent is killed; `known` children were bound durably. A child asks before
each tool call (`ActionIntent` appends the intent, then the answer travels), may run
the tool once the answer arrived (`ToolRuns`) even if nobody listens any more, reports
(`ActionResult`) and takes its leave (`Goodbye`). Proofs are compared as the code does,
by owner generation and spawn (`DeathProved`, `LiveProof`); a transfer of an
unbound execution needs the death of the child on record, and a lost fence pauses
whatever has no end yet, as the code looks no closer. `Succession` sees of it the
children (`Seen`: whether each lives, was bound, is a retry, answered), how it ended
(`Ending`) and the outcome. Who owns and executes, how deaths are proved and what is in
doubt is hidden; what is left must hold whoever does it.

**AsyncCompaction.** One session with its branch of entries. An attempt keeps its
snapshot (`source`, `cut`), whether its generation is current and whether token
counts, settings and environment still fit it. The host's compaction goes through
`waiting`, `offered`, `native`, `committed`; where the handler holds it to the branch
it was prepared for, `prepared` is that branch, and empty where the handler returns
nothing (a manual compaction, the preference off, an input under way). User inputs go
through their stages separately, as `index.ts` counts and matches them. Changes of the
preference, edits by other extensions, drift of the environment and navigation happen
at any await.

**OperationLock.** The directory, the owner file, and a program counter per
process at each system call; a kill between any two. A contender reads `owner.json`
(`ReadOwner`, what it read is `seen`), probes that process in another call (`Probe`), and
removes whatever is at the two paths by then. `RacyReclaim` says whether the lock may
change hands meanwhile. If not, no process reads the name of a dead one that
another judges or whose lock another takes apart (`SecondJudge`), and no process ends
while it is judged and has given the lock back, or while two judge it (`DiesJudged`).

**RunControlWal.** `log`, `torn` (part of a line at the end), `lease`, `marker`,
`trash`, and per writer the handle object with its cached counters. `open` is
four steps (`Open`, `Replay`, `AcquireLease`, `WriteHeader`; a header that is refused,
`HeaderFails`, leaves the lease with a live process that has no handle), a collection four
(`Collect`, `UnlinkLease`, `Mark`, `Rename`) and a `DeleteTrash` later; an append
is one step, which a kill may tear (`KillInAppend`, `KillInHeader`,
`KillInLease`) and a failing write may leave undone, half done or done
(`AppendFails`, on where a run names it in `FailedWrites`; `"start"` adds the fence
that a refused start of a worker has already reopened). For `FencedLog` the holder is
the nonce and the epoch of the lease (`Lessee`), and nobody if the lease file is absent
or cannot be read; a half-written tail is no line; the log ends with its tombstone.

**WorkflowRun.** `disk` is the last checkpoint, `session` what the log shows of a
reviewer that never settled, `mem` the runtime object and the locals of
`continueRun`, `pc` where the driver stands. Artifacts are kept in order with
their verdict, candidate revision, review cycle and reviewer, since order and
binding is what the gates compare; their text is gone. A step goes from a
worker's answer to the next checkpoint, so that kills fall between any two. A
review is `EnterReview` (which cycle, which reviewer is next), a `Vote` per
reviewer, `FinishReview` (the ledger record) and `LeaveReview` (the transition).
The gates are operators named for what they demand: `InvestigationGate`,
`PlanGate` with `PlanReviewCycleBacked`, `ChangeReviewBinds`, `Acceptance`; a
verification that breaks its contract is asked for once more (`VerifyAgain`), then the
run stops;
`Restores` is what `restore` accepts. Two fields, `n` and `of`, are history: they
say which piece of work a reviewer really had in front of it, and no guard reads
them. The note of a blocked run (`guard_rejection`) is replaced by the next one, the
only artifact that ever goes (`WithoutNote`).

**OutboxLock.** `lock` and `guard` are the files `.lock` and `.lock-reaper`; a call of
`withLock` stands at each system call, and a process has several calls in flight, all
of which die with it. A client stands for the inode and the nonce of the file it
linked, which is what the code compares before it unlinks anything.

**MetricOutbox.** `files` are the events of all targets, `blocked` the markers, `locks`
the two levels of locks, `wire` the requests on their way, `table` the rows of the
service. A submission takes the outbox lock, then its target's, counts, writes; a
flush selects a batch (`Select`), posts one event at a time, and on the answer takes
the lock again, compares the file with what it sent (`Forget`) and removes it. An
answer may be lost, late, permanent (`Block`) or transient; a scope may close and a
process be killed at any await; a service that was asked answers even if nobody
waits.

**Publication.** `events`, `quarantine`, `snapshots`, `pointer`, `history` are the
tables; `post` and `publish` the requests in flight with what they have read. An
event request goes item by item through `Check` (validation and the gates, which look
evidence up) and `Insert` or `SetAside`; a publish request through `PublishBegin` (it
reads the rows), `Build`, `Store` (verification of content and lineage), `Target` and
`Write` (compare-and-swap with the history row). Requests interleave at every database
call and may be cut at any. A snapshot is its content: the code names it by a hash of
it. `alone` is history: the publisher nobody interfered with.

**UsageController, UsageScope.** The controller as one record and its methods as
functions on it; a handler or the continuation of an await is one action, which calls
several of them. A request in flight carries whether the generation it captured is still
the controller's. `Own` is `isEligible`: the model chosen (`Meant`), and a login that is
looked at each time.

In every module a few operators stand before the definition they vary, named for
a slip (`ProvedGoneWithoutScan`, `ApprovalsCountVotes`, `UnguardForgotten`). Nothing
uses them. They are the bugs the properties are there for: with one in place of the
original the property fails.

## 3. What the runs show

| Run | Instance | Shows |
| --- | --- | --- |
| `lock` | 3 dispatchers, 2 mortal, one whose child outlives its attempt; takeovers not interleaved | one child per history (`SingleWriter`), only a dead owner without children is evicted (`EvictsOnlyTheDead`), a dead dispatcher's lock is replaced (`StaleLockReclaimed`) |
| `session` | 2 dispatchers and 1 collection, one of each mortal; 2 candidates, 2 retries, 3 session ids | `OneHistory`, `NeverOverLostHistory`, `QuarantineIsFinal`, and deletions are finished (`DeletionCompletes`) |
| `delegation` | 2 parents, 4 children, 2 attempts, 2 recovery cycles, 2 faults, any number of kills | a child is started when the death of the one before is proved (`ChildrenFollowDeath`), nothing goes on over a tool call in doubt (`NoDoubtCarriedOn`), a settled delegation has no bound child left (`SettledIsQuiet`), and all of it implements `Succession` (`IsSuccession`) |
| `compaction` | 1 attempt on a history of 3 messages, 2 more entries (a message, an edit, a stored input, the compaction), 2 user inputs, preference changes | `AdoptsOnlyUnchanged`, `CancelIsNotFallback`, `WaitEnds` |
| `compaction_two_attempts` | 2 attempts on a history of 3 messages, 2 more entries, navigation, drift of the environment | `OutcomeIsHonest`, over up to two compactions |
| `oplock` | 4 processes, all mortal; no lock changes hands while it is judged or taken apart | the lock implements `Mutex` (`IsMutex`), `DeadHolderIsReplaced` |
| `wal` | 2 writers, one mortal in the middle of an append, one confirming takeovers, and a mortal collection whose every step may throw; appends may be refused, those of headers included; 5 lines, 2 handles, 3 epochs | the run implements `FencedLog` (`IsFencedLog`); `FenceHolds`, `AckedIsDurable`, `CollectionSparesWriters`, `NoResurrection` |
| `workflow` | 12 artifacts, repairs and failed verifications, 1 detour of any kind (one kind is a verification that breaks its contract), 1 failing worker, 1 kill | `AcceptedIsEarned`, `NoPlanIsImplementedUnapproved`, `NoChangeIsVerifiedUnreviewed`, `OneVotePerReviewer`, `WorkIsKept` |
| `outbox_lock` | 4 calls in 3 mortal processes | the lock implements `Mutex` (`IsMutex`), `DeadLockIsReclaimed` |
| `outbox` | 2 processes that each submit and flush, 2 targets, one event submitted with two bodies, an outbox of 2, a batch of 1, 1 fault | the outbox implements `Delivery` (`Delivers`: also with an event sent again after a lost acknowledgement the service has one row of it), stays `Bounded`, and gets the last event through (`Delivered`) |
| `publication` | 2 event and 2 publish requests in flight, 2 of each in all, 2 as-of points, late and conflicting and unsafe items, 1 cut or database failure | `AckIsDurable`, `EvidenceBacked`; a revision once served stays served unless a row of its past is stored late (`PublishedStays`); publishing implements `PublicationLog` (`Publishes`); an undisturbed publish repairs what was left (`Heals`) |
| `usage` | 2 accounts, 2 contexts, unbounded behaviours | `OwnFigures`, `RefreshIsNotLost`, `Recovers` |

### Bounds, and why they are enough

- *Lock.* The interesting patterns take an owner, its successor and a third
  process that acts on what it read earlier; three dispatchers give all of them.
  One of them stays alive, since a lock nobody asks for any more is not replaced
  by anybody; that one may have the child that ignores SIGTERM.
- *Session.* `MaxIds = 3` lets the handle be created, deleted and created again
  twice; two candidates with two retries reach every branch of the retry loop,
  including the second budget after a fallback.
- *Delegation.* Two parents suffice for an owner and its successor, in both
  directions, since kills are not bounded and a killed owner is succeeded by the
  other. Four children are a first attempt and its retry, then a recovery and its
  retry; the cycle limit is reached with two. Two faults put an unreadable
  observation or a refused append before or after an abort. The two parents are
  interchangeable.
- *Compaction.* An attempt needs history before and after its cut, hence three messages
  from the start. `MaxEntries = 5` leaves room for two more: a change after the snapshot
  (an edit, a stored input, a native compaction) and then the adoption it must prevent.
  Two inputs are the least that can be miscounted, one of them stored and the other
  still on its way. In the second run the two entries are two compactions, so that the
  event of one meets an attempt that was offered for another, also after the user has
  navigated back in between. Each run has the changes its properties depend on; the
  others (drift in the first, edits and inputs in the second) only make a snapshot
  invalid in further ways, and the proofs have no such bound.
- *Log.* `MaxHandles = 2` is one nonce per writer: one recovery after a death,
  takeovers back and forth (`TakeOver` keeps the nonce and raises the epoch).
  `MaxLeases = 3` lets the first writer come back after a takeover.
  Five lines hold a header, a worker's start, a fence, a supplement and one more.
- *Workflow.* An accepted repair takes nine artifacts of workers (intake,
  investigation, its review, disposition, two plan reviews, implementation, its
  review, verification), then the user's decision. `MaxArtifacts = 12` leaves room to
  work once more on a change that a review, the verification or the user sent back, up
  to the gate it failed at. One kill interrupts a review, which is then continued.
  Repairs and verifications that send the change back (`Usual`) may occur any number
  of times; of the other plans and failures (`Detours`: an explanation, a wait for the
  decision to repair, insufficient evidence, a configuration to change, a verification
  that breaks its contract) a run takes at most one, which is a path of its own out of
  the main line and back. The two left out to keep the run short, `wait` and
  `external`, may be added with `MaxArtifacts = 11`; the properties hold there as
  well.
- *Outbox lock.* A dead holder, the call that reclaims its lock, one that publishes in
  between and one that waits for the guard: four calls, two of which die together.
- *Outbox.* Two submissions may fill the outbox across two targets, the third finds it
  full or comes in after a removal and under a name used before. With a batch of one a
  refused or unanswered event can only be passed if the selection rotates. One fault
  is a kill, a closed scope, a lost answer or a refusal, at any place.
- *Publication.* Two points are the least that has an earlier and a later one; two
  publishers of the same point, or of both, and rows inserted between the reads of one
  make every race of the compare-and-swap. The three batches have evidence in the wrong
  order across requests, a conflict, a resend and an item for quarantine. Requests of
  one kind are interchangeable.
- *Usage.* Nothing is bounded but the number of accounts and contexts: each is compared
  with the one before, so two are enough.

`CHECK_DEADLOCK FALSE` stands in the configurations where the system may
really stop: everybody was killed, the session was closed, or a bound was used up.

### Fairness, and why the code justifies it

- `IdentityLock!FairSpec`: live dispatchers go on with what they started; a child
  ends; the starting window is a timer. Strong fairness of `InspectClear` says
  that a process scan is not inconclusive every single time; strong fairness of
  `Finish`, that a release is not postponed for ever by other people's takeovers.
- `ChildSession!Fairness`: a dispatch ends (its attempts are bounded and a child is
  settled by force), orphans exit, and every start of a Pi process runs a
  collection, hence strong fairness of the steps of a collection: not every
  collection is killed or fails at the same `rm`.
- `AsyncCompaction!FairSpec`: timers fire and continuations of promises run. No
  fairness for the provider's reply or for the user.
- `OperationLock!FairSpec`, `OutboxLock!FairSpec`: system calls return; an operation
  that found the lock busy is asked for again by its caller.
- `MetricOutbox!Fairness`: what was begun goes on, requests are served, the next
  session opens a scope. Strong fairness of `StartFlush`: every metric submitted
  starts a flush, so that flushes do not cease. An answer need not come.
- `UsageScope!Fairness`: requests are answered, since a fetch is aborted after five
  seconds, and timers fire. `Recovers` states what else it needs as its premise: the
  login is stable, answers succeed, and events keep coming (`Undisturbed`).
- `RunControlWal`, `WorkflowRun`, `Delegation` and `Publication` have no fairness and no
  liveness property: every wait is a wait for a model, a person or a request. That a
  publish request repairs what others left is an action property (`Heals`).

## 4. What is proved

All theorems are proved by TLAPS for every value of the constants that satisfies
the assumptions of the module.

**LockProofs.** The three locks, each with its own variables: the identity lock is the
module extended, the operation lock is the instance `Op`, the lock of the metrics
outbox the instance `Out`. What their constants must satisfy is restated as a hypothesis
of the theorems, since the assumption of an instance is no fact.

*The identity lock.* Assumption: `NoRace`, takeovers do not race
(`RacyTakeover => Takers = {}`). Without it, `EvictsOnlyTheDead` is false (section 5).
`EvictionIsSafe` assumes besides that a dispatcher whose child may outlive its attempt
is not killed (`Stubborn \cap Mortal = {}`, as in the run `lock`): after such an attempt
has settled its lock is free, and if the dispatcher takes it again and dies, the lock
records nothing of the old child, so it is evicted with that child still running.

- `Invariance`: the inductive invariant `IInv`. `SingleWriter` alone is not
  inductive: nothing in it prevents a takeover while a child exists. `IInv` adds
  that a live dispatcher in a holding place is the owner in the file
  (`HolderWrote`), that whoever is in a takeover is alone in it (`TakeoverAlone`)
  and what it read is still what is there and, past the probe and past the
  inspection, is dead and without a child that did not outlive its attempt
  (`TakeoverKnows`), that every other child belongs to the owner in the lock file,
  with a child record that says so (`ChildrenUnderLock`), and that a child not yet
  visible to a scan, of whatever dispatcher, is protected by the starting window
  (`ForkIsProtected`). The children that may have outlived an attempt are `Outlives`.
- `MutualExclusion` (`SingleWriter`), `LiveLockIsKept` (`HolderKeepsLock`),
  `TypeCorrect` (`TypeOK`) follow from it, and `EvictionIsSafe`
  (`EvictsOnlyTheDead`) from it and the two steps that remove a file.

*The operation lock.* Assumption: `JudgedInTime` (`RacyReclaim = FALSE`), no lock changes
hands between the read of its name and its removal. It is an assumption on the
scheduling of other processes, and the code has nothing that enforces it (section 5).

- `OperationLockInvariance`: `OpIInv` adds to the goal that the directory has no name in
  it exactly between `mkdir` and the owner file, and between the two halves of the
  release (`HoldersHaveDirectory`), that at most one live process is between
  `mkdir` and `rmdir` (`OneHolder`), and that while a process
  judges a dead one or takes a lock apart it is alone in that and no holder lives
  (`ReclaimIsSafe`), which is what makes the unconditional `unlink` harmless.
- `OperationLockExcludes` (`MutualExclusion`), `OperationLockNamesHolder`
  (`HolderIsNamed`), `OperationLockTyped`, and `OperationLockIsMutex` (`IsMutex`): under the
  invariant a step enters the abstract critical section, leaves it, or stutters.

*The lock of the outbox.* `OutboxTypes`, no assumption beyond the types of the
constants: the second lock, the reaper's guard, is what the other two locks lack.

- `OutboxLockInvariance`: whoever published its lock and did not release it still has it
  (`HolderHasLock`); one call at a time is under the guard (`Guarded`); and, which
  makes both inductive, between its confirmation and its unlink a reclaiming call
  looks at the lock of a dead call (`UnlinkIsSafe`). That holds because nobody but the
  holder of the guard or the lock's own, dead, call would remove it.
- `OutboxLockTyped`, and `OutboxLockIsMutex` (`IsMutex`).

**ChildSessionProofs.** For any number of dispatchers, collections, candidates,
retries and session ids, with kills anywhere.

- `Invariance`: `OneHistory` is a matter of who may touch what when. `IInv` says that
  whoever is in the middle of a dispatch or a deletion holds a lock that was not taken
  over (`Held`); that there is a registry or a tombstone, never both, and every file
  belongs to it (`Disk`); that a child writes the session of the registry, and its
  dispatcher waits for it or nobody gets the lock before it is gone (`Children`); what a
  dispatch still knows of the registry and of its session at each place of its loop
  (`Works`, `Stage`); and that what a collection has erased is gone until it removes
  its tombstone (`Erased`).
- From it: `SingleHistory` (`OneHistory`), `HistoryIsValid` (`NeverOverLostHistory`),
  `TypeCorrect` (`TypeOK`).
- `QuarantineStays` (`QuarantineIsFinal`) under `OneCollection`: what a collection has
  listed as a tombstone is one when it is taken up (`Swept`). With two collections at
  once this fails, see section 5; the other theorems hold all the same.

**DelegationProofs.** For any number of parent processes, children, attempts, recovery
cycles and faults, with kills anywhere. Assumption: that of the module, by which `None`
is not a process, a state or a proof.

- `DelegationIInv`. Each of the four invariants speaks of the record or of the children;
  none is inductive, because what may happen next depends on what a parent process
  believes. `IInv` ties the three together. A process that executes is the live owner,
  by the claim it started with, and its child is the last one and the only one alive
  (`Executes`): this is what lets it append without looking again. What the record
  says of deaths is true (`Deaths`): a proof of death, a reservation made from one, a
  cancellation that was proved and a terminal state each leave nobody alive that was
  bound. A tool call that may run is the unresolved one of the record and belongs
  to a child of the last spawn (`Doubts`), so that a recovery which waits for the
  action waits for the right one. An outcome is that of the last child, dead and final, with
  nobody executing (`Outcome`). Everywhere the exception is the `Stray`, a child of a
  retry that was not bound before its parent died: the code does not know of it, and
  `ChildrenFollowDeath` does not promise its death (section 5).
- From it: `DelegationChildrenFollowDeath`, `DelegationNoDoubtCarriedOn`,
  `DelegationSettledIsQuiet`, `DelegationOutcomeIsLatest`, `DelegationTyped`; and two
  that no run checks: `DelegationOneExecutes` (no two processes execute a delegation at
  once, and the one that does holds a claim still current) and
  `DelegationSettledForGood` (a returned or cancelled delegation keeps its state and its
  outcome, whatever is appended later).
- `DelegationIsSuccession` (`IsSuccession`), from `IInv` and that a returned delegation
  has an outcome (`Returns`). The steps are sorted by what they change. Of the
  children, all but three actions change nothing the succession sees
  (`ChildrenChange`); `StartAttempt` is its start, because an execution about to start
  has only strays alive and keeps the delegation from being returned (`StartIsStart`);
  `Bind` binds the last child, since the executing process started it
  (`BindIsBind`). Of the end, only a commit and the two ends of a cancellation make
  one (`OpenUntilSettled`), and no step changes it (`SettledStep`); a commit finds the last
  child bound, dead and with its answer because `Executes` has said so since the
  child was given its task (`CommitIsReturn`). Everything else is a stutter (`Unseen`).

**RunControlWalProofs.** Two invariants.

- `Stands` says who may be inside which operation and what the tombstone and the
  lease are then: the part of the design that garbage collection depends on. It
  needs no hypothesis, and gives `SparesWriters` (`CollectionSparesWriters`) and
  `FinalTombstone` (`NoResurrection`) however appends and collections fail.
- `IInv` is about the log, under the hypothesis `FailedAppendsLeaveNothing`
  (`FailedWrites \subseteq {"nothing", "start"}`: an append succeeds, or is refused
  with nothing written, or its writer is killed in the middle of it). Only what is
  said of the fence needs more, `NoStartThrows` (`"start" \notin FailedWrites`): no
  start of a worker is refused. The run `wal` satisfies both. What is wanted, that an
  owner's cached counters are those of a replay (`OwnerIsCurrent`), is not inductive
  alone. A takeover makes an owner of whoever replayed, hence the same of a draft
  between its replay and its lease (`DraftIsCurrent`). Only one handle may match the
  lease: nonces differ (`NoncesDiffer`), and an epoch is given once, since the lease
  is at least as new as every line (`LeaseIsNewest`) and a new one is past both. A
  half-written tail is never behind a handle that may append (`TornIsUnowned`),
  because the writer it tore for is dead. A run without a file has no handle and
  nothing acknowledged (`NothingYet`), which is what makes writing a header safe.
  `Numbered` says that the greatest number, which a replay picks, exists. The lemmas
  about what a replay computes when one line is added (`GrownReplay`, `LineKeepsLog`)
  carry the step of an append.
- From `IInv`: `Invariance`, `Replayable` (`LogIsReplayable`), `Fenced`
  (`EpochsFenceWriters`), `OwnerCounters` (`WriterIsCurrent`, with `NoStartThrows`), `Durable`
  (`AckedIsDurable`), `TypeCorrect` (`TypeOK`). Without the hypothesis the
  replayable log, the counters and the durability fail, see section 5.

- `FenceInv` adds to `FenceHolds` that the next number a replay would give is one
  more than the count of supplements (`Counted`), which a single greatest number does
  not say of itself, and that every prefix of the log has a last fence or start, if
  any (`PrefixesNumbered`). With `IInv`, whose owners go on with the counters of a
  replay, it gives `FenceKept` (`FenceHolds`), under both hypotheses.
- `ImplementsFencedLog` (`IsFencedLog`), from `IInv` and `Stands`. Every line comes from
  the owner of the lease, whose handle is current (`LineIsWrite`), so it carries the
  holder's nonce and epoch and the next index. A lease is given by `AcquireLease` alone,
  past the epoch of the draft that replayed the log and of the lease it replaces
  (`AcquireIsGrant`); that this is past every line is `LeaseIsNewest` and
  `DraftIsCurrent`. A lease that is removed, or cannot be read, is a holder lost. A
  tombstone is written by a collection that has removed the lease, which is
  what `Stands` knows, and under a tombstone nothing is written.

**MetricOutboxProofs.** No assumption beyond the types of the constants.

- `ImplementsDelivery` (`Delivers`), from `DeliverInv`. The step that could break the
  promise is the removal of a file: the code checks only that the file is still the one
  it read before the request. The invariant says that an acknowledging reply, and a flush about to
  remove, speak of a record that is stored (`Fits`); that a request under way carries a
  record still kept or already stored, and that its flush, unless it has given up or
  been killed, waits with this very record and no reply (`OnItsWay`); and that a name
  has one file (`FilesInv`), so that the file removed is the one acknowledged. The rows of
  the service are the sequence `stored` of `Delivery`, which grows only by a record whose
  event has none: a second row of a record sent again would be no step of it.
- `WithinBound` (`Bounded`), from `BoundInv`: a submission under way holds the lock of
  the outbox, alive (`Alone`), and between the count and the write there is room
  (`Room`), because what others do meanwhile only removes files.

**PublicationProofs.** For any number of requests, items and faults.

- `Acknowledged` (`AckIsDurable`) and, from `EvidenceInv`, `Evidence` (`EvidenceBacked`):
  what a request found at its gate is still there when it inserts, however many
  other requests ran in between, because rows are never removed (`GatePassed`).
- `ImplementsLog` (`Publishes`), under `NoneIsApart`: the value that stands for no
  pointer is not a record. `PublishInv` says that the pointer a request expects is the
  current one or of an older generation, and leads elsewhere than what the request has
  built (`Fit`). A write that lands therefore moves the pointer, and what others
  expect falls behind.
- `ServedStaysServed` (`PublishedStays`), under `NoneIsApart`, from `TimeInv`: what is
  stored, built and published is of an as-of point that has come, and every row is
  dated. A snapshot verifies as long as no row of its past is added (`StaysVerified`), and
  its ancestors are of earlier points, so that the same rows spare them (`LineageStays`).
- `RepairHeals` (`Heals`), under `NoneIsApart`, from `HealInv`. A publish request consists
  of many calls for each of many points; that it ends well is a statement about all
  of them. `Chained`: every stored snapshot counts rows that are there, and its parent is
  stored, of the point before, and verifies whenever the snapshot does. The last part
  is the surprising one, since rows arrive late and snapshots cease to verify: a late
  row that an early point counts is counted by the later ones as well
  (`EarlierPointsStay`; a run's start is itself a row of every point that counts the run).
  Hence a snapshot that verifies has a whole lineage that does. `Undisturbed`: a request
  nobody interfered with knows the rows and the pointer as they are, finds an
  anchor at each point, and has built, then stored, what verifies. It can end only with the
  pointer at the last point that has come: points are a `Period` apart (`GridGap`), so
  a pointer beyond the request's point would be beyond its time.

**WorkflowRunProofs.** For runs of any length, with any number of revisions, failures
and kills. No assumption beyond the types of the constants.

- `Earns` (`AcceptedIsEarned`), `VotesOnce` (`OneVotePerReviewer`), `ApprovesPlans`
  (`NoPlanIsImplementedUnapproved`), `ReviewsChanges` (`NoChangeIsVerifiedUnreviewed`),
  `KeepsWork` (`WorkIsKept`), `TypeCorrect` (`TypeOK`), all from `IInv`.
- The gates compare the order of artifacts and count votes, and what they read was
  written in cycles that failures and kills may have cut anywhere. So the invariant
  speaks of three things. Of a history, wherever it stands (`Good`): there is at most one
  note (`OneNote`), the voters of a cycle are the first of its panel, in order and once
  (`Votings`), and a review newer than what it reviews had the newest of it in front of
  it (`Informed`). Of the checkpoint and the runtime apart (`RunInv`): a saved review
  progress is that of the plan review, with the first reviewer's vote in its cycle
  (`Own`), except at the stages where it may have been left by another review
  (`Foreign`), and a verification that is not awaited is newer than the
  implementation (`Verifies`); an interrupted attempt finds the votes before it
  (`Counted`). And of the two together: the same stage and votes, and all of the saved
  work in memory (`Together`).
- A new cycle is one more than the greatest on record, in memory or in the log, and
  it must be fresh: that nobody has voted in it. That the greatest exists comes from the
  minimum principle of well-founded orders (`WellFoundedInduction`), used once for the
  newest artifact of a kind and once for the greatest cycle.

**ExtensionProofs.** Two components, each with its own variables: background compaction
is the module extended, the usage display the instance `Usage`; `OwnFigures` speaks of
the controller alone and belongs to `UsageController`, which is extended as well.

*Background compaction.* For any number of attempts, inputs and entries. No assumption
beyond the types of the constants.

- `AdoptsOwnHistory` (`AdoptsOnlyUnchanged`), `OutcomesStand` (`OutcomeIsHonest`),
  `StopStops` (`CancelIsNotFallback`), `TypeCorrect` (`TypeOK`), from `IInv`.
- What `canAdopt` and `valid` look at when the host asks is less than what is claimed of
  the history. `canAdopt` asks that the fence is down, not that every input is stored:
  `FenceInv` says that the fence counts the inputs under way, and may be down only when
  there are none. `valid` compares the newest compaction, not those before it: `HistoryInv`
  says that entries are numbered in the order they were made and that a branch and a
  snapshot which meet in an entry are the same up to it, however often the branch was cut
  back and grew again; with the newest compaction they share all of them. An attempt that
  was not cancelled has no reason to stop, and one that was not started has no outcome
  (`Table`); the slot holds an attempt in use (`SlotUsed`); and while the host waits, it
  waits for that one (`HostInv`).
- An outcome is recorded by many steps, of which only `session_compact` knows what was
  committed. That none of the others books an adopted summary as discarded or failed is
  `AdoptedInv`: each compaction of the branch that came from an attempt follows its
  snapshot, and the attempt has its outcome or is still in the slot with the event that
  gives it one under way (`Awaited`). It rests on `LiveInv`: the snapshot of a current
  attempt, and the leaf it was offered at, are on the branch.
- The helpers of the controller (`record`, `cancel`, `fail`, `set`) are shown once to
  keep the table and every outcome in it, and to book an attempt as lost only if it may be
  (`Follows`, `MayBeLost`); the actions cite those lemmas.

*The usage display.* For any number of accounts and contexts, with requests answered in
any order. Hypothesis: `Apart`, which restates the assumption of its module.

- `OnlyOwnFigures` (`OwnFigures`), from `UsageInvariance`. The display alone is not
  inductive: figures come from a request that captured the account long ago. `Sound` says
  that a request counts only while the display is meant for the model chosen
  (`Request`), that an account on record comes with a lease, and that the figures
  kept are those of that account; `Shows` that figures on display are of the
  account on record and the controller's own. Every method of the controller, of which a
  handler calls several, is shown to keep both.

Each `IInv` was checked by TLC on the instance of its run (for the log with
`FailedWrites = {"nothing"}`) before it was proved.

`HolderKeepsLock`, `MutualExclusion`, `HolderIsNamed`, `LogIsReplayable`,
`EpochsFenceWriters`, `WriterIsCurrent`, `OutcomeIsLatest`, `OneExecutes`,
`SettledForGood` and the `TypeOK` of the three locks,
of `RunControlWal`, `ChildSession`, `Delegation`, `WorkflowRun` and `AsyncCompaction`
are proved and in no run: a proof for every instance leaves a run nothing to add, and
each is a step towards a property that a run does have. The `TypeOK` of the other
modules documents the variables; TLC has checked it on their instances.

Only model-checked: the liveness properties, `StaleLockReclaimed`,
`DeletionCompletes`, `WaitEnds`, `DeadHolderIsReplaced`, `DeadLockIsReclaimed`,
`Delivered`, `RefreshIsNotLost` and `Recovers`. Liveness rests on fairness and
`ENABLED`, which this prover does not handle. Every other property of a run is a
theorem; `IsMutex` of the two locks under the name of an instance
(`OperationLockIsMutex`, `OutboxLockIsMutex`).

## 5. Where the code falls short

Each of these was met while modelling; the models state them as a constant, a bound,
a guard or an exception in a property, named here.

*Locks*

- `subagent/src/runner.ts:991`. After `SIGTERM` the child counts as killed, the
  `SIGKILL` five seconds later is skipped, the attempt settles and the lock is
  released while the child may still write. `SingleWriter` excepts such children
  (`Stubborn`). The design (`subagent-dispatcher-技术设计.md:122`) asks for the opposite.
- `session-lock.ts:191`, `:189`: between probing a dead owner and unlinking its
  file, another process may have completed the same takeover, or the owner may
  have started a child and died. With `RacyTakeover = TRUE`, `EvictsOnlyTheDead`
  fails.
- `run-control-wal.ts:93` to `:95`: the operation lock is judged in three calls, and
  what is removed is not compared with what was read. Two processes that reclaim the
  same dead lock: the slower one removes the lock the faster one has just made. One
  reclaimer is enough: it reads the name of a live owner; the owner gives the lock
  back and exits, another process takes it; the probe (`:94`) finds the owner dead and
  the fresh lock is removed. With `RacyReclaim = TRUE`, `IsMutex` fails both ways. A
  process killed between `mkdir` and the owner file, or between the two halves of the
  release, leaves a lock that names nobody and stays busy for ever (`KilledUnnamed`).
- `project-metrics/src/client.ts`: a process killed while it reclaims leaves
  `.lock-reaper`, which nobody removes; stale locks of that directory then stay
  (the exception in `DeadLockIsReclaimed`).

*Child sessions*

- `gc.ts:70`: with two collections, a tombstone from an old listing may be one that
  the other collection has finished; a session created since is deleted with it.
  With two collections `QuarantineIsFinal` fails; `session` has one.

*Background compaction*

- An Escape, or anything else that cancels the attempt, between the host's commit of its
  summary and the `session_compact` event books the adopted summary as `cancelled`.
  `OutcomeIsHonest` excludes `discarded` and `failed` for it, not `cancelled`.

*Usage display*

- `usage.ts:533`: a confirmation asked for while another is under way is not made if
  nobody is logged in when that one is answered; the flag stays until the next event.
  `RefreshIsNotLost` excepts it, `Recovers` says that events cure it.

*Delegation*

- A retry is bound by a durable append of its own after it was started. An owner
  killed between the two leaves a child nobody knows: recovery proves the death of
  the child on record, the attempt before, and starts another beside the live one.
  `ChildrenFollowDeath` excepts unbound retries. The same gap lets a cancellation that
  arrives while attempt 1 ends transiently settle on the death of child 1 while child 2
  is being started; `SettledIsQuiet` speaks of the children that were ever bound (the
  design, `subagent-dispatcher-技术设计.md:429`, speaks of all).
- Proofs are for a spawn and an owner generation. A transfer in `recovery_ready` raises
  the generation, a new intent recorded in `cycle_ready` without its start the spawn;
  the death already proved no longer matches, and the execution cannot start. After a
  transfer a cancellation cannot prove the death either (`ProveDeath`, the termination
  must name the generation that spawned), and stays `cancel_requested`.
- An execution that is interrupted transiently by its own executor comes to
  `recovery_ready` without a death proof and never recovers. An abort before the start
  pauses in `paused_uncertainty`, whose cancellation never settles, nor does one of a
  delegation that has no child identity on record. A continuation accepted in
  `paused_configuration` leads nowhere but to cancellation.
- "Still unknown" is the last word on a doubtful action: replay accepts one disposition.
- `side-effect-fence.ts:671` appends `action_intent_prepared` outside the call lock,
  against `execution-supervisor.ts:63`. A refused intent makes the child's and the
  server's lists of blocked calls differ, and the goodbye ends in a durable integrity
  pause, which also blocks a pending cancellation. A fenced child found alive at startup
  without a proof provider always pauses the delegation for good.

*Run control log*

- `run-control-wal.ts:272`: an append that throws halfway leaves part of a line and
  a usable handle. The next append is written behind it and acknowledged, and
  every later `open` finds a broken line inside the log. With `"part"` in
  `FailedWrites`, `AckedIsDurable`, `WriterIsCurrent` and `LogIsReplayable` fail. With
  `"line"` (the line is complete, the sync threw) the cached index is behind, with the
  same effect; with `"start"`, a worker's start that was refused, with nothing
  written, has already reset `closed` (`:302`) and `FenceHolds` fails.
- `run-control-wal.ts:361`: the check for a changed legacy checkpoint reads fields at
  the top of the payload that are written one level below, and never fires: the
  instance has one checksum per source.
- `run-control-wal.ts:201`, `:207`: a kill in the middle of writing the lease or the
  header leaves a file that neither writers nor collections can read any more.
- `run-gc.ts:55`: a run whose tombstone was written and whose rename failed is
  skipped by every later collection.

*Workflow*

- `fix/src/extension-v2.ts:955`. When the two reviewers of a plan disagree, the
  driver returns with the first vote; if that is the acceptance, the guard
  throws (`PLAN_REVIEW_NOT_REJECTED`), in every later resume as well.
- `workflow-runtime/src/index.ts:1031`. The checkpoint after a worker's error has
  no ledger of review cycles. If the plan had been approved before, the run is
  led up to the final acceptance and refuses it (`:1911`).
- `Restores` refuses checkpoints the run itself wrote: a second blocker replaces the
  first and shifts the positions the ledger refers to (`index.ts:796`); a rework
  changes the candidate revision while the review and verification in the checkpoint
  are of the older one; an external action followed by an accepted verification has a
  wait of the wrong kind (`index.ts:2093`). Such a run cannot be resumed.
- A kill after the ledger record of a review and before the transition: the resumed
  loop executes the node again and then takes the recorded cycle for the review of
  the new work, which the gate refuses. A kill between two reviewers of a plan: the
  disposition is made again and the old cycle continued, so that the two approvals
  may be of different plans. `PlanApproved` therefore asks only of the last reviewer
  that it saw the current plan.
- The failure checkpoint of a blocked run has no return stage, and the run goes back
  to the investigation.
- `/fix review <run> approve` in a wait for a disposition is not refused because of
  the wait, only if the acceptance check fails.

*Fix metrics service*

- A publisher that stored its snapshot before a row came in may still publish it over a
  newer revision of the same point, as the compare-and-swap compares the pointer it
  read last; the comment at `store.ts:480` rules that out. `PublicationLog` therefore
  orders points, not revisions of one point.
- A row received at or before a point and inserted after the point was built makes the
  published revision fail its verification on every read until the next publish.
  `Heals` says that the next one repairs it.

## 6. What is not modelled

- Process ids are not reused, and hosts are not mixed: the code compares host names
  and start times where it can, and treats doubt as "alive".
- Formats, parsing, rendering, reports, widgets, token arithmetic, the arithmetic of
  the funnel, canonical JSON, diagnostics, agent files, session identities (a hash):
  pure data. Validation of worker contracts and the independence of reviewers: workers
  submit what the contract accepts, or fail.
- The Pi host, model providers, the process table, the database and the file system are
  environment, modelled by what they may do to the code.
- Supplements on their way to a worker (`interaction.ts`): whether a model call saw one is
  decided by when the Pi SDK reads its steering queue relative to `turn_start`, which is
  not in this repository; a model would have to assume what it is to show. The durable
  side, numbering and the close fence, is in `RunControlWal`.
- Of delegation v2: the delivery outbox (`delivery.ts`), the deletion plan of a whole
  call (`cleanup.ts`), adoption, several delegations of a call, unfenced children,
  replay policies with idempotency keys. All of v2 is behind a capability gate that
  nothing opens in this commit; the control plane was modelled first since everything
  else rests on its record.
- Fast (`fast.ts`): its pricing tickets are matched to messages of the host.
- The older `runNode`/`resume` path of the runtime, and definitions without artifact
  conclusions: `/fix` does not use them.
- How `/resume` selects, rebinds or migrates a store (`extension-v2.ts:218–280`,
  `:1534–1610`).
- Build, release and review scripts.

## 7. Plan

Done: sections 2 to 4. Next, in this order, with the properties each is for:

| Module | Code | To state and check |
| --- | --- | --- |
| `ReceiptDelivery` | `delivery.ts` | At most one send per receipt, uncertainty after a kill between the send and its record. Abstract specification: a message that is sent, recorded, or in doubt |
| `CallCleanup` | `cleanup.ts`, `adoption.ts` | A journal that is finished after any kill; nothing referenced is deleted; a call has one session. Composes with `Delegation` as a set of settled records |
| `FixRecovery` | `extension-v2.ts:218–280, 1534–1610`, rebind and migration of the log | Of several stores the right one is continued; a run is bound to one parent |

Of the modules there are, every safety property of a run is proved. What a proof could
still add is a weaker hypothesis, and each that remains marks a place where the code
falls short (section 5): racing takeovers, two collections at once, an append that throws
halfway, a worker's start that is refused.
