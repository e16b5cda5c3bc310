--------------------------- MODULE RunControlWal ---------------------------
(***************************************************************************)
(* The control log of one Workflow run and its garbage collection          *)
(* (packages/workflow-runtime/src/run-control-wal.ts and run-gc.ts).       *)
(*                                                                         *)
(* Every Pi process keeps at most one handle to the run: a writer nonce,   *)
(* an epoch and counters cached from the log.  The log, the writer lease,  *)
(* the tombstone and the trash are shared files.  All of them change under *)
(* the operation lock, whose mutual exclusion is the subject of            *)
(* OperationLock: here it is one variable, an operation with a single      *)
(* durable write is one step, and one with several is a step per write.    *)
(* A process may be killed between steps or in the middle of a write.      *)
(* Definitions named for a slip precede the one they vary and are used     *)
(* nowhere: they are bugs the properties must see.                         *)
(* Payloads, checksums, permissions and clocks are data: the garbage       *)
(* collector may find any run past its deadline.                           *)
(***************************************************************************)
EXTENDS Naturals, FiniteSets, Sequences, SequencesExt

CONSTANTS
  Writers,       \* Pi processes that use the run
  Collectors,    \* Pi processes that collect garbage
  NoProc,        \* nobody
  Mortal,        \* processes that may be killed
  Confirming,    \* writers whose user confirms taking over a foreign lease
  TornWrites,    \* bound: writes a kill may interrupt ("header", "record", "lease")
  FailedWrites,  \* bound: what a rejected append leaves ("nothing", "part", "line"), and
                 \* whether the start of a worker may be rejected ("start")
  FailedSteps,   \* bound: collection steps that may throw ("unlink", "mark", "rename")
  Checksums,     \* contents of the legacy checkpoint entry over time
  MaxAttempts,   \* the 20 worker sessions a run may start
  MaxRecords,    \* bound: lines of the log
  MaxHandles,    \* bound: writer nonces ever drawn
  MaxLeases      \* bound: epochs ever given

ASSUME WalAssumption ==
  /\ NoProc \notin Writers \cup Collectors /\ Writers \cap Collectors = {}
  /\ IsFiniteSet(Writers) /\ IsFiniteSet(Collectors)
  /\ Mortal \subseteq Writers \cup Collectors /\ Confirming \subseteq Writers
  /\ TornWrites \subseteq {"header", "record", "lease"}
  /\ FailedWrites \subseteq {"nothing", "part", "line", "start"}
  /\ FailedSteps \subseteq {"unlink", "mark", "rename"}
  /\ Checksums \subseteq Nat
  /\ MaxAttempts \in Nat /\ MaxRecords \in Nat /\ MaxHandles \in Nat
  /\ MaxLeases \in Nat

VARIABLES
  exists,   \* the run directory exists
  file,     \* control.wal exists
  log,      \* its lines that end in a newline
  torn,     \* it ends in part of a line
  lease,    \* the writer lease file
  marker,   \* the garbage collection tombstone exists
  trash,    \* renamed run directories not deleted yet
  holder,   \* who holds the operation lock
  dead,     \* processes that were killed
  pc,       \* where each process stands
  handle,   \* each writer's RunControlWal object
  draft,    \* the object open() is constructing, or the one taking over
  nonces,   \* writer nonces drawn so far
  acked     \* records whose append returned to its caller

disk == <<exists, file, log, torn, lease, marker, trash>>
vars == <<disk, holder, dead, pc, handle, draft, nonces, acked>>

Procs == Writers \cup Collectors
Types == {"header", "supplement", "fence", "start", "other", "legacy", "garbage"}
Line == [type : Types, epoch : Nat, index : Nat, by : 0..MaxHandles, data : Nat]
Garbage == [type |-> "garbage", epoch |-> 0, index |-> 0, by |-> 0, data |-> 0]

Lease == [state : {"none", "held", "torn"}, nonce : 0..MaxHandles, pid : Writers \cup {NoProc},
          epoch : Nat]
NoLease == [state |-> "none", nonce |-> 0, pid |-> NoProc, epoch |-> 0]

Handle == [nonce : 0..MaxHandles,  \* instanceNonce
           epoch : Nat,
           next : Nat,             \* nextIndex; lines are counted from 1 here
           seq : Nat,              \* nextSupplementVersion
           closed : BOOLEAN]
NoHandle == [nonce |-> 0, epoch |-> 0, next |-> 1, seq |-> 1, closed |-> FALSE]

Places == {"idle", "opening", "replayed", "leased", "unlinking", "marking", "renaming"}

TypeOK ==
  /\ exists \in BOOLEAN /\ file \in BOOLEAN /\ torn \in BOOLEAN /\ marker \in BOOLEAN
  /\ log \in Seq(Line)
  /\ lease \in Lease
  /\ trash \in Nat
  /\ holder \in Procs \cup {NoProc} /\ dead \subseteq Procs
  /\ pc \in [Procs -> Places]
  /\ handle \in [Writers -> Handle] /\ draft \in [Writers -> Handle]
  /\ nonces \in 0..MaxHandles
  /\ acked \subseteq Line

Init ==
  /\ exists = FALSE /\ file = FALSE /\ log = <<>> /\ torn = FALSE
  /\ lease = NoLease /\ marker = FALSE /\ trash = 0
  /\ holder = NoProc /\ dead = {}
  /\ pc = [p \in Procs |-> "idle"]
  /\ handle = [w \in Writers |-> NoHandle] /\ draft = [w \in Writers |-> NoHandle]
  /\ nonces = 0 /\ acked = {}

-----------------------------------------------------------------------------
(* What a replay reads from the log.                                       *)
Has(type) == \E k \in DOMAIN log : log[k].type = type
Readable == \A k \in DOMAIN log : log[k].type # "garbage" /\ log[k].index = k
Whole == Readable /\ ~torn   \* readRunControlRecords returns

Highest(S) == CHOOSE n \in S : \A m \in S : m <= n
MaxEpoch == Highest({0} \cup {log[k].epoch : k \in DOMAIN log})
Supplements == {k \in DOMAIN log : log[k].type = "supplement"}
NextSequence == Highest({1} \cup {log[k].data + 1 : k \in Supplements})
Closed ==
  LET k == SelectLastInSeq(log, LAMBDA r : r.type \in {"fence", "start"})
  IN  k # 0 /\ log[k].type = "fence"

ReplayedSequenceRestarts(h) ==
  [h EXCEPT !.epoch = Highest({h.epoch, MaxEpoch}), !.next = Len(log) + 1, !.closed = Closed]

Replayed(h) ==
  [h EXCEPT !.epoch = Highest({h.epoch, MaxEpoch}), !.next = Len(log) + 1, !.seq = NextSequence,
            !.closed = Closed]

-----------------------------------------------------------------------------
FreeDespiteTombstone(p) == p \notin dead /\ pc[p] = "idle" /\ holder = NoProc

(* withOperationLock: a tombstoned run refuses every operation.            *)
Free(p) == p \notin dead /\ pc[p] = "idle" /\ holder = NoProc /\ ~marker
Inside(p, place) == p \notin dead /\ pc[p] = place
Enter(p, place) == holder' = p /\ pc' = [pc EXCEPT ![p] = place]
Goto(p, place) == UNCHANGED holder /\ pc' = [pc EXCEPT ![p] = place]
Leave(p) == holder' = NoProc /\ pc' = [pc EXCEPT ![p] = "idle"]

(* assertLease.                                                            *)
Owns(p) ==
  /\ handle[p].nonce # 0
  /\ lease.state = "held" /\ lease.nonce = handle[p].nonce /\ lease.epoch = handle[p].epoch

Mine(p) == Free(p) /\ Owns(p)

-----------------------------------------------------------------------------
(* open and takeOverConfirmed: replay, check, take the lease, and write    *)
(* the header of a new log.                                                *)
Open(p) ==
  /\ Free(p) /\ nonces < MaxHandles
  /\ nonces' = nonces + 1
  /\ draft' = [draft EXCEPT ![p] = [NoHandle EXCEPT !.nonce = nonces + 1]]
  /\ exists' = TRUE
  /\ Enter(p, "opening")
  /\ UNCHANGED <<file, log, torn, lease, marker, trash, dead, handle, acked>>

TakeOver(p) ==
  /\ Free(p) /\ p \in Confirming /\ handle[p].nonce # 0
  /\ draft' = [draft EXCEPT ![p] = handle[p]]
  /\ Enter(p, "opening")
  /\ UNCHANGED <<disk, dead, handle, nonces, acked>>

ReplayShortens(p) ==
  /\ Inside(p, "opening")
  /\ torn' = FALSE
  /\ log' = IF torn /\ log # <<>> THEN Front(log) ELSE log
  /\ draft' = [draft EXCEPT ![p] = Replayed(draft[p])]
  /\ Goto(p, "replayed")
  /\ UNCHANGED <<exists, file, lease, marker, trash, dead, handle, nonces, acked>>

(* replayLocked: a partial last line is cut off, before the lease is read. *)
Replay(p) ==
  /\ Inside(p, "opening") /\ Readable
  /\ torn' = FALSE
  /\ draft' = [draft EXCEPT ![p] = Replayed(draft[p])]
  /\ Goto(p, "replayed")
  /\ UNCHANGED <<exists, file, log, lease, marker, trash, dead, handle, nonces, acked>>

(* Corruption, a missing header, a lease that is not JSON or that a live   *)
(* owner holds, a mismatched parent: open throws.                          *)
GiveUp(p) ==
  /\ Inside(p, "opening") \/ Inside(p, "replayed")
  /\ draft' = [draft EXCEPT ![p] = NoHandle]
  /\ Leave(p)
  /\ UNCHANGED <<disk, dead, handle, nonces, acked>>

MayAcquire(p) ==
  /\ file => Has("header")
  /\ \/ lease.state = "none"
     \/ lease.state = "held" /\ (lease.nonce = draft[p].nonce \/ lease.pid \in dead
                                 \/ p \in Confirming)

NextEpochOfLease(p) == lease.epoch + 1

(* Past every epoch of the log and of the lease that is replaced.          *)
NextEpoch(p) == Highest({draft[p].epoch, lease.epoch}) + 1

AcquireLease(p) ==
  /\ Inside(p, "replayed") /\ MayAcquire(p) /\ NextEpoch(p) <= MaxLeases
  /\ LET h == [draft[p] EXCEPT !.epoch = NextEpoch(p)] IN
     /\ lease' = [state |-> "held", nonce |-> h.nonce, pid |-> p, epoch |-> h.epoch]
     /\ IF file THEN /\ handle' = [handle EXCEPT ![p] = h]
                     /\ draft' = [draft EXCEPT ![p] = NoHandle] /\ Leave(p)
                ELSE draft' = [draft EXCEPT ![p] = h] /\ Goto(p, "leased") /\ UNCHANGED handle
  /\ UNCHANGED <<exists, file, log, torn, marker, trash, dead, nonces, acked>>

LineOf(h, type, data) ==
  [type |-> type, epoch |-> h.epoch, index |-> h.next, by |-> h.nonce, data |-> data]

WriteHeader(p) ==
  LET line == LineOf(draft[p], "header", 0) IN
  /\ Inside(p, "leased")
  /\ file' = TRUE /\ log' = Append(log, line) /\ acked' = acked \cup {line}
  /\ handle' = [handle EXCEPT ![p] = [draft[p] EXCEPT !.next = @ + 1]]
  /\ draft' = [draft EXCEPT ![p] = NoHandle]
  /\ Leave(p)
  /\ UNCHANGED <<exists, torn, lease, marker, trash, dead, nonces>>

(* Text after a partial line makes one broken line of the two.             *)
Written(line) ==
  /\ log' = Append(log, IF torn THEN Garbage ELSE line)
  /\ torn' = FALSE

(* What a rejected append leaves of its line.                              *)
Leaves(line) ==
  \E left \in FailedWrites \ {"start"} :
    CASE left = "nothing" -> UNCHANGED <<log, torn>>
      [] left = "part" -> torn' = TRUE /\ UNCHANGED log
      [] left = "line" -> Written(line)

(* Its append is rejected: open throws, and the object is lost whose lease *)
(* names this live process.  An empty file may have been created.          *)
HeaderFails(p) ==
  /\ Inside(p, "leased")
  /\ Leaves(LineOf(draft[p], "header", 0))
  /\ file' \in {TRUE, torn' \/ log' # log}
  /\ draft' = [draft EXCEPT ![p] = NoHandle]
  /\ Leave(p)
  /\ UNCHANGED <<exists, lease, marker, trash, dead, handle, nonces, acked>>

-----------------------------------------------------------------------------
(* appendLocked by handle h, the writer's own or one with "closed" reset.  *)
Write(p, h, type, data) ==
  LET line == LineOf(h, type, data) IN
  /\ Len(log) < MaxRecords
  /\ Written(line) /\ acked' = acked \cup {line}
  /\ handle' = [handle EXCEPT ![p] =
       [h EXCEPT !.next = @ + 1, !.seq = IF type = "supplement" THEN @ + 1 ELSE @,
                 !.closed = @ \/ type = "fence"]]
  /\ UNCHANGED <<exists, file, lease, marker, trash, holder, dead, pc, draft, nonces>>

(* recordSupplement: once the fence is written, a rejected delivery.       *)
RecordSupplement(p) ==
  /\ Mine(p)
  /\ IF handle[p].closed THEN Write(p, handle[p], "other", 0)
                         ELSE Write(p, handle[p], "supplement", handle[p].seq)

CloseFence(p) ==
  /\ Mine(p) /\ ~handle[p].closed
  /\ Write(p, handle[p], "fence", 0)

MayBegin == Whole /\ Cardinality({k \in DOMAIN log : log[k].type = "start"}) < MaxAttempts

BeginWorker(p) ==
  /\ Mine(p) /\ MayBegin
  /\ Write(p, [handle[p] EXCEPT !.closed = FALSE], "start", 0)

(* recordCheckpoint, recordDelivery, recordWorker, markShutdown.           *)
RecordOther(p) ==
  /\ Mine(p)
  /\ Write(p, handle[p], "other", 0)

(* migrateLegacyCheckpoint: an import of the same source and checksum is   *)
(* reused.  The check for the same source with another checksum looks for  *)
(* fields at the top of the payload that are written one level below.      *)
MigrateLegacy(p) ==
  /\ Mine(p) /\ Whole
  /\ \E c \in Checksums :
       /\ \A k \in DOMAIN log : log[k].type = "legacy" => log[k].data # c
       /\ Write(p, handle[p], "legacy", c)

(* A rejected append leaves the counters as they were, whatever reached    *)
(* the disk; beginWorker has reset "closed" by then.                       *)
Reopened == {FALSE : f \in {f \in FailedWrites : f = "start" /\ MayBegin}}

AppendFails(p) ==
  /\ Mine(p) /\ Len(log) < MaxRecords
  /\ Leaves(LineOf(handle[p], "other", 0))
  /\ \E closed \in {handle[p].closed} \cup Reopened :
       handle' = [handle EXCEPT ![p].closed = closed]
  /\ UNCHANGED <<exists, file, lease, marker, trash, holder, dead, pc, draft, nonces, acked>>

ReleaseLease(p) ==
  /\ Mine(p)
  /\ lease' = NoLease
  /\ UNCHANGED <<exists, file, log, torn, marker, trash, holder, dead, pc, handle, draft, nonces,
                 acked>>

-----------------------------------------------------------------------------
CollectableDespiteLease ==
  exists /\ file /\ Whole /\ Has("header")

(* RunGarbageCollector.collectOne, with everything read under the lock.    *)
Collectable ==
  /\ exists /\ file /\ Whole /\ Has("header")
  /\ lease.state # "torn"
  /\ lease.state = "held" => lease.pid \in dead /\ lease.epoch >= MaxEpoch

Collect(g) ==
  /\ Free(g) /\ Collectable
  /\ Enter(g, IF lease.state = "held" THEN "unlinking" ELSE "marking")
  /\ UNCHANGED <<disk, dead, handle, draft, nonces, acked>>

UnlinkLease(g) ==
  /\ Inside(g, "unlinking")
  /\ lease' = NoLease
  /\ Goto(g, "marking")
  /\ UNCHANGED <<exists, file, log, torn, marker, trash, dead, handle, draft, nonces, acked>>

Mark(g) ==
  /\ Inside(g, "marking")
  /\ marker' = TRUE
  /\ Goto(g, "renaming")
  /\ UNCHANGED <<exists, file, log, torn, lease, trash, dead, handle, draft, nonces, acked>>

Rename(g) ==
  /\ Inside(g, "renaming")
  /\ exists' = FALSE /\ file' = FALSE /\ log' = <<>> /\ torn' = FALSE
  /\ trash' = trash + 1
  /\ Leave(g)
  /\ UNCHANGED <<lease, marker, dead, handle, draft, nonces, acked>>

(* A step that throws returns false and leaves what was done before it.    *)
CollectFails(g) ==
  /\ \/ Inside(g, "unlinking") /\ "unlink" \in FailedSteps
     \/ Inside(g, "marking") /\ "mark" \in FailedSteps
     \/ Inside(g, "renaming") /\ "rename" \in FailedSteps
  /\ Leave(g)
  /\ UNCHANGED <<disk, dead, handle, draft, nonces, acked>>

(* The deletion scheduled by a collection, or retryTrash of a later one:   *)
(* it needs no lock, and may fail.                                         *)
DeleteTrash(g) ==
  /\ g \notin dead /\ pc[g] = "idle" /\ trash > 0
  /\ trash' = trash - 1
  /\ UNCHANGED <<exists, file, log, torn, lease, marker, holder, dead, pc, handle, draft, nonces,
                 acked>>

-----------------------------------------------------------------------------
(* A process is killed.  Its operation lock is taken apart by whoever      *)
(* wants it next; its handle is gone.                                      *)
Dies(p) ==
  /\ p \in Mortal \ dead
  /\ dead' = dead \cup {p}
  /\ holder' = IF holder = p THEN NoProc ELSE holder
  /\ pc' = [pc EXCEPT ![p] = "idle"]
  /\ handle' = [w \in Writers |-> IF w = p THEN NoHandle ELSE handle[w]]
  /\ draft' = [w \in Writers |-> IF w = p THEN NoHandle ELSE draft[w]]
  /\ UNCHANGED <<exists, marker, trash, nonces, acked>>

Kill(p) == Dies(p) /\ UNCHANGED <<file, log, torn, lease>>

(* The append is interrupted, or complete but not acknowledged.            *)
KillInAppend(p) ==
  /\ "record" \in TornWrites
  /\ Mine(p) /\ Dies(p) /\ Len(log) < MaxRecords
  /\ \/ torn' = TRUE /\ UNCHANGED log
     \/ Written(LineOf(handle[p], "other", 0))
  /\ UNCHANGED <<file, lease>>

(* The file exists from the open on; nothing or part of the header follows.*)
KillInHeader(p) ==
  /\ "header" \in TornWrites
  /\ Inside(p, "leased") /\ Dies(p)
  /\ file' = TRUE /\ torn' \in BOOLEAN
  /\ UNCHANGED <<log, lease>>

(* writeJsonDurably truncates the lease file before it writes it.          *)
KillInLease(p) ==
  /\ "lease" \in TornWrites
  /\ Inside(p, "replayed") /\ MayAcquire(p) /\ Dies(p)
  /\ lease' = [NoLease EXCEPT !.state = "torn"]
  /\ UNCHANGED <<file, log, torn>>

Opening(p) == Replay(p) \/ AcquireLease(p) \/ WriteHeader(p) \/ HeaderFails(p)

Appending(p) ==
  \/ RecordSupplement(p) \/ CloseFence(p) \/ BeginWorker(p) \/ RecordOther(p) \/ MigrateLegacy(p)
  \/ AppendFails(p) \/ ReleaseLease(p)

Collecting(g) == UnlinkLease(g) \/ Mark(g) \/ Rename(g)

Next ==
  \/ \E p \in Writers : Open(p) \/ TakeOver(p) \/ Opening(p) \/ GiveUp(p) \/ Appending(p)
  \/ \E g \in Collectors : Collect(g) \/ Collecting(g) \/ CollectFails(g) \/ DeleteTrash(g)
  \/ \E p \in Procs : Kill(p)
  \/ \E p \in Writers : KillInAppend(p) \/ KillInHeader(p) \/ KillInLease(p)

Spec == Init /\ [][Next]_vars

-----------------------------------------------------------------------------
(* The counters a writer caches are those a replay of the log would give,  *)
(* as long as it holds the lease: its next record is accepted by every     *)
(* later recovery, whatever other processes did before it got the lease.   *)
WriterIsCurrent ==
  \A p \in Writers : Owns(p) /\ ~marker => handle[p] = Replayed(handle[p])

(* No takeover, kill or stale handle leaves a line recovery rejects: what  *)
(* remains after cutting a half-written tail is a gapless log.             *)
LogIsReplayable == Readable

(* The epochs of a log never decrease, and no two writers share one.       *)
EpochsFenceWriters ==
  \A k, l \in DOMAIN log : k < l =>
    /\ log[k].epoch <= log[l].epoch
    /\ log[k].epoch = log[l].epoch => log[k].by = log[l].by

(* Between a worker's close fence and the next worker's start no           *)
(* supplement is recorded, and the supplements of the run are numbered     *)
(* consecutively, across recoveries and takeovers.                         *)
FenceHolds ==
  \A k \in Supplements :
    LET j == SelectLastInSeq(SubSeq(log, 1, k), LAMBDA r : r.type \in {"fence", "start"})
    IN  /\ j # 0 => log[j].type = "start"
        /\ log[k].data = Cardinality({l \in Supplements : l <= k})

(* What was acknowledged stays: truncation and replay never drop a record  *)
(* whose append returned.                                                  *)
AckedIsDurable == exists => acked \subseteq Range(log)

(* A collection takes the lease from dead writers only and tombstones no   *)
(* run a live process holds the lease of, ...                              *)
CollectionSparesWriters ==
  [][/\ holder \in Collectors /\ lease' # lease => lease.pid \in dead
     /\ ~marker /\ marker' => \A p \in Writers \ dead : ~Owns(p)]_vars

(* ... and a tombstone is final: no record is added to the run, no lease   *)
(* given and its directory not created again.                              *)
NoResurrection ==
  [][marker => /\ marker'
               /\ log' \in {log, <<>>}
               /\ lease' = lease
               /\ (exists' => exists)]_vars

(* All of it together: the run is a log with a fenced lease.  A lease file *)
(* that cannot be read is held by nobody, a half-written tail is no line.  *)
Lessee == IF lease.state = "held" THEN [by |-> lease.nonce, epoch |-> lease.epoch]
                                  ELSE [by |-> 0, epoch |-> 0]

Log == INSTANCE FencedLog WITH holder <- Lessee, ended <- marker

IsFencedLog == Log!Spec

=============================================================================
