---------------------------- MODULE MetricOutbox ----------------------------
(***************************************************************************)
(* The project metrics outbox (packages/project-metrics/src/client.ts) and *)
(* the table of the service behind it (worker.ts).  A metric is written as *)
(* a file under the directory of its target; a flush posts the files and   *)
(* removes one when the service has acknowledged it.  Several processes    *)
(* share the outbox.                                                       *)
(*                                                                         *)
(* The locks of the outbox and of a target are the mutex that OutboxLock   *)
(* implements: a lock is free when nobody has it or its holder was killed. *)
(* Steps are taken at every await that another process can act in.         *)
(***************************************************************************)
EXTENDS Integers, FiniteSets, SequencesExt

CONSTANTS
  Process,
  Mortal,      \* processes that may be killed, or end a session
  Submitter,   \* calls of submitMetric in flight at a time
  Flusher,     \* flushes, each for one target
  ProcessOf,   \* the process of each submitter and flusher
  TargetOf,    \* the target of each flusher
  Target,      \* targets: datasets of one namespace, with a directory each
  Event,       \* event ids, in the order of their file names
  Record,      \* metrics: [target, event, body]
  Submits,     \* which of them a submitter submits
  NoRecord,
  Nobody,      \* holds a lock, waits for an answer
  MaxEvents,   \* MAX_EVENTS, of the outbox as a whole
  MaxBatch,    \* MAX_BATCH
  MaxSubmits,  \* bound: submissions of a behaviour
  MaxFaults    \* bound: kills, sessions that end, lost answers, refusals

ASSUME MetricOutboxAssumption ==
  /\ ProcessOf \in [Submitter \cup Flusher -> Process]
  /\ TargetOf \in [Flusher -> Target]
  /\ Mortal \subseteq Process
  /\ Event \subseteq Nat
  /\ Record \subseteq [target : Target, event : Event, body : STRING]
  /\ Submits \in [Submitter -> SUBSET Record]
  /\ Submitter \cap Flusher = {} /\ Nobody \notin Submitter \cup Flusher
  /\ "outbox" \notin Target
  /\ NoRecord \notin Record
  /\ {MaxEvents, MaxBatch} \subseteq Nat \ {0}
  /\ {MaxSubmits, MaxFaults} \subseteq Nat

VARIABLES
  files,    \* the records in the outbox
  blocked,  \* the markers of permanent rejection: <<target, event>>
  locks,    \* which task holds the lock of the outbox and of each target
  submit,   \* submissions: [at, record]
  flush,    \* flushes: [at, all, todo, sent, reply]
  wire,     \* requests on their way to the service: [by, record]
  table,    \* the rows of the service, in the order of ingest_seq
  closed,   \* processes whose metric scope is closed
  dead,     \* processes that were killed
  submits, faults

vars == <<files, blocked, locks, submit, flush, wire, table, closed, dead, submits, faults>>
world == <<closed, dead, submits, faults>>

Root == "outbox"
Task == Submitter \cup Flusher
NoFlush == [at |-> "idle", all |-> FALSE, todo |-> <<>>, sent |-> NoRecord, reply |-> "none"]
NoSubmit == [at |-> "idle", record |-> NoRecord]

TypeOK ==
  /\ files \subseteq Record
  /\ blocked \subseteq Target \X Event
  /\ locks \in [Target \cup {Root} -> Task \cup {Nobody}]
  /\ submit \in [Submitter -> [at : {"idle", "target", "count", "write"},
                               record : Record \cup {NoRecord}]]
  /\ flush \in [Flusher ->
       [at : {"idle", "select", "next", "waiting", "forget", "clear", "block"},
        all : BOOLEAN,
        todo : UNION {[1..n -> Event] : n \in 0..MaxBatch},
        sent : Record \cup {NoRecord},
        reply : {"none", "accepted", "duplicate", "conflict", "refused", "busy"}]]
  /\ wire \subseteq [by : Flusher \cup {Nobody}, record : Record]
  /\ ToSet(table) \subseteq Record
  /\ closed \subseteq Process /\ dead \subseteq Process

Init ==
  /\ files = {} /\ blocked = {} /\ wire = {} /\ table = <<>>
  /\ locks = [l \in Target \cup {Root} |-> Nobody]
  /\ submit = [s \in Submitter |-> NoSubmit]
  /\ flush = [f \in Flusher |-> NoFlush]
  /\ closed = {} /\ dead = {} /\ submits = 0 /\ faults = 0

-----------------------------------------------------------------------------
Live(task) == ProcessOf[task] \notin dead
Closed(f) == ProcessOf[f] \in closed
Fault == faults < MaxFaults /\ faults' = faults + 1

(* withLock.                                                               *)
Free(l) == IF locks[l] = Nobody THEN TRUE ELSE ~Live(locks[l])

Take(l, task) == Free(l) /\ locks' = [locks EXCEPT ![l] = task]

Released(task) == [l \in DOMAIN locks |-> IF locks[l] = task THEN Nobody ELSE locks[l]]

File(t, e) == {r \in files : r.target = t /\ r.event = e}

-----------------------------------------------------------------------------
(* submitMetric, from where it takes the lock of the outbox; one that does *)
(* not get it, outbox_locked, has changed nothing.                         *)
SubmitMetricUnlocked(s, r) ==
  /\ Live(s) /\ submit[s].at = "idle" /\ submits < MaxSubmits
  /\ submit' = [submit EXCEPT ![s] = [at |-> "target", record |-> r]]
  /\ submits' = submits + 1
  /\ UNCHANGED <<files, blocked, locks, flush, wire, table, closed, dead, faults>>

SubmitMetric(s, r) ==
  /\ Live(s) /\ submit[s].at = "idle" /\ submits < MaxSubmits
  /\ Take(Root, s)
  /\ submit' = [submit EXCEPT ![s] = [at |-> "target", record |-> r]]
  /\ submits' = submits + 1
  /\ UNCHANGED <<files, blocked, flush, wire, table, closed, dead, faults>>

TakeTarget(s) ==
  /\ Live(s) /\ submit[s].at = "target"
  /\ Take(submit[s].record.target, s)
  /\ submit' = [submit EXCEPT ![s].at = "count"]
  /\ UNCHANGED <<files, blocked, flush, wire, table, world>>

EndSubmit(s) ==
  /\ submit' = [submit EXCEPT ![s] = NoSubmit]
  /\ locks' = Released(s)

(* outbox_locked.                                                          *)
LockTimesOut(s) ==
  /\ Live(s) /\ submit[s].at = "target" /\ ~Free(submit[s].record.target)
  /\ EndSubmit(s)
  /\ UNCHANGED <<files, blocked, flush, wire, table, world>>

(* countOutboxEvents, or outbox_full.                                      *)
Count(s) ==
  /\ Live(s) /\ submit[s].at = "count"
  /\ IF Cardinality(files) >= MaxEvents
     THEN EndSubmit(s)
     ELSE submit' = [submit EXCEPT ![s].at = "write"] /\ UNCHANGED locks
  /\ UNCHANGED <<files, blocked, flush, wire, table, world>>

(* scheduleFlush.  A flush in progress is told to run again, which         *)
(* StartFlush does here.                                                   *)
Scheduled(s, t) ==
  [f \in Flusher |->
    IF ProcessOf[f] = ProcessOf[s] /\ TargetOf[f] = t /\ flush[f].at = "idle" /\ ~Closed(f)
    THEN [NoFlush EXCEPT !.at = "select"] ELSE flush[f]]

(* writeExclusive refuses when the event has a file already.               *)
Write(s) ==
  LET r == submit[s].record IN
  /\ Live(s) /\ submit[s].at = "write"
  /\ IF File(r.target, r.event) = {}
     THEN files' = files \cup {r} /\ flush' = Scheduled(s, r.target)
     ELSE UNCHANGED <<files, flush>>
  /\ EndSubmit(s)
  /\ UNCHANGED <<blocked, wire, table, world>>

-----------------------------------------------------------------------------
At(f, place) == Live(f) /\ flush[f].at = place

(* flushMetricQueue from the command line, a rerun, or a later submission; *)
(* the user may ask for the blocked records too, if there are any.         *)
StartFlush(f, all) ==
  /\ At(f, "idle") /\ ~Closed(f) /\ (all => blocked # {})
  /\ \E r \in files : r.target = TargetOf[f]
  /\ flush' = [flush EXCEPT ![f] = [NoFlush EXCEPT !.at = "select", !.all = all]]
  /\ UNCHANGED <<files, blocked, locks, submit, wire, table, world>>

Selectable(t, e, all) == File(t, e) # {} /\ (all \/ <<t, e>> \notin blocked)

FirstOf(events) ==
  LET names == SetToSortSeq(events, <)
  IN SubSeq(names, 1, IF Len(names) < MaxBatch THEN Len(names) ELSE MaxBatch)

BatchWithBlocked(t, all) == FirstOf({e \in Event : File(t, e) # {}})

(* The batch: the first names of the directory, of those that may be sent. *)
Batch(t, all) == FirstOf({e \in Event : Selectable(t, e, all)})

Select(f) ==
  /\ At(f, "select") /\ Free(TargetOf[f])
  /\ LET batch == Batch(TargetOf[f], flush[f].all) IN
     flush' = [flush EXCEPT ![f] = IF batch = <<>> THEN NoFlush
                                   ELSE [@ EXCEPT !.at = "next", !.todo = batch]]
  /\ UNCHANGED <<files, blocked, locks, submit, wire, table, world>>

Go(f, at) == flush' = [flush EXCEPT ![f].at = at]

Ahead(q, rest) ==
  [q EXCEPT !.at = "next", !.todo = rest, !.sent = NoRecord, !.reply = "none"]

Skip(f) ==
  LET rest == Tail(flush[f].todo) IN
  flush' = [flush EXCEPT ![f] = IF rest = <<>> THEN NoFlush ELSE Ahead(flush[f], rest)]

Stop(f) ==
  /\ At(f, "next") /\ Closed(f)
  /\ flush' = [flush EXCEPT ![f] = NoFlush]
  /\ UNCHANGED <<files, blocked, locks, submit, wire, table, world>>

(* A name is passed over when it is blocked by now, or gone.               *)
PassOver(f) ==
  /\ At(f, "next") /\ ~Closed(f)
  /\ ~Selectable(TargetOf[f], flush[f].todo[1], flush[f].all)
  /\ Skip(f)
  /\ UNCHANGED <<files, blocked, locks, submit, wire, table, world>>

(* The record is read, then posted.                                        *)
Post(f) ==
  /\ At(f, "next") /\ ~Closed(f)
  /\ Selectable(TargetOf[f], flush[f].todo[1], flush[f].all)
  /\ \E r \in File(TargetOf[f], flush[f].todo[1]) :
       /\ flush' = [flush EXCEPT ![f] = [@ EXCEPT !.at = "waiting", !.sent = r]]
       /\ wire' = wire \cup {[by |-> f, record |-> r]}
  /\ UNCHANGED <<files, blocked, locks, submit, table, world>>

Abandoned(fs) == {IF q.by \in fs THEN [q EXCEPT !.by = Nobody] ELSE q : q \in wire}

(* The deadline of five seconds, a transport error, an answer that is not  *)
(* an acknowledgement.  The request may reach the service all the same.    *)
NoAnswer(f) ==
  /\ At(f, "waiting") /\ Fault
  /\ Skip(f) /\ wire' = Abandoned({f})
  /\ UNCHANGED <<files, blocked, locks, submit, table, closed, dead, submits>>

(* Only an acknowledgement of this event removes it; of the refusals only  *)
(* the permanent ones block it.                                            *)
Answered(f) ==
  /\ At(f, "waiting") /\ flush[f].reply # "none"
  /\ \/ flush[f].reply \in {"accepted", "duplicate"} /\ Go(f, "forget")
     \/ flush[f].reply \in {"conflict", "refused"} /\ Go(f, "block")
     \/ flush[f].reply = "busy" /\ Skip(f)
  /\ UNCHANGED <<files, blocked, locks, submit, wire, table, world>>

Block(f) ==
  /\ At(f, "block") /\ Free(TargetOf[f])
  /\ blocked' = IF Closed(f) THEN blocked
                ELSE blocked \cup {<<TargetOf[f], flush[f].sent.event>>}
  /\ Skip(f)
  /\ UNCHANGED <<files, locks, submit, wire, table, world>>

(* The file must still be the one that was read before the request.        *)
MayForget(r) == r \in files

(* The unlink and clearBlocked, under the lock of the target.              *)
Forget(f) ==
  LET r == flush[f].sent IN
  /\ At(f, "forget")
  /\ IF ~Closed(f) /\ MayForget(r)
     THEN /\ Take(TargetOf[f], f)
          /\ files' = files \ File(r.target, r.event) /\ Go(f, "clear")
     ELSE /\ Free(TargetOf[f]) /\ Skip(f) /\ UNCHANGED <<files, locks>>
  /\ UNCHANGED <<blocked, submit, wire, table, world>>

Clear(f) ==
  /\ At(f, "clear")
  /\ blocked' = blocked \ {<<TargetOf[f], flush[f].sent.event>>}
  /\ locks' = Released(f) /\ Skip(f)
  /\ UNCHANGED <<files, submit, wire, table, world>>

-----------------------------------------------------------------------------
(* The service: one INSERT that does nothing when the event has a row, then*)
(* a comparison with the row there is.                                     *)
Rows(e) == {r \in ToSet(table) : r.event = e}

Answer(q, reply) ==
  /\ wire' = wire \ {q}
  /\ flush' = IF q.by = Nobody THEN flush ELSE [flush EXCEPT ![q.by].reply = reply]

ServeResent(q) ==
  /\ IF Rows(q.record.event) \subseteq {q.record}
     THEN table' = Append(table, q.record) /\ Answer(q, "accepted")
     ELSE UNCHANGED table /\ Answer(q, "conflict")
  /\ UNCHANGED <<files, blocked, locks, submit, world>>

Serve(q) ==
  /\ IF Rows(q.record.event) = {}
     THEN table' = Append(table, q.record) /\ Answer(q, "accepted")
     ELSE /\ Answer(q, IF q.record \in ToSet(table) THEN "duplicate" ELSE "conflict")
          /\ UNCHANGED table
  /\ UNCHANGED <<files, blocked, locks, submit, world>>

(* Unauthorized or switched off, which the client takes for permanent; over*)
(* the quota of the day, or unavailable, which it does not.                *)
Refuse(q) ==
  /\ Fault
  /\ \E reply \in {"refused", "busy"} : Answer(q, reply)
  /\ UNCHANGED <<files, blocked, locks, submit, table, closed, dead, submits>>

-----------------------------------------------------------------------------
Of(p) == {f \in Flusher : ProcessOf[f] = p}

(* MetricScope.close at the end of a session cancels requests and keeps    *)
(* what is on its way from touching the outbox; the next session's scope   *)
(* is a new one.                                                           *)
CloseScope(p) ==
  /\ p \in Mortal \ (dead \cup closed) /\ Fault
  /\ closed' = closed \cup {p}
  /\ flush' = [f \in Flusher |->
                 IF f \in Of(p) /\ flush[f].at = "waiting" THEN NoFlush ELSE flush[f]]
  /\ wire' = Abandoned(Of(p))
  /\ UNCHANGED <<files, blocked, locks, submit, table, dead, submits>>

OpenScope(p) ==
  /\ p \in closed \ dead /\ \A f \in Of(p) : flush[f] = NoFlush
  /\ closed' = closed \ {p}
  /\ UNCHANGED <<files, blocked, locks, submit, flush, wire, table, dead, submits, faults>>

Kill(p) ==
  /\ p \in Mortal \ dead /\ Fault
  /\ dead' = dead \cup {p}
  /\ submit' = [s \in Submitter |-> IF ProcessOf[s] = p THEN NoSubmit ELSE submit[s]]
  /\ flush' = [f \in Flusher |-> IF f \in Of(p) THEN NoFlush ELSE flush[f]]
  /\ wire' = Abandoned(Of(p))
  /\ UNCHANGED <<files, blocked, locks, table, closed, submits>>

SubmitStep(s) ==
  TakeTarget(s) \/ LockTimesOut(s) \/ Count(s) \/ Write(s)

FlushStep(f) ==
  \/ Select(f) \/ Stop(f) \/ PassOver(f) \/ Post(f) \/ Answered(f) \/ Block(f)
  \/ Forget(f) \/ Clear(f)

Next ==
  \/ \E s \in Submitter : SubmitStep(s) \/ \E r \in Submits[s] : SubmitMetric(s, r)
  \/ \E f \in Flusher :
       FlushStep(f) \/ NoAnswer(f) \/ \E all \in BOOLEAN : StartFlush(f, all)
  \/ \E q \in wire : Serve(q) \/ Refuse(q)
  \/ \E p \in Process : CloseScope(p) \/ OpenScope(p) \/ Kill(p)

Spec == Init /\ [][Next]_vars

(* What was begun goes on; a flush without the blocked records is started  *)
(* now and then, since every metric submitted starts one; sessions follow  *)
(* each other; requests are served.                                        *)
Fairness ==
  /\ WF_vars(\E s \in Submitter : SubmitStep(s))
  /\ WF_vars(\E q \in wire : Serve(q))
  /\ WF_vars(\E p \in Process : OpenScope(p))
  /\ WF_vars(\E f \in Flusher : FlushStep(f))
  /\ SF_vars(\E f \in Flusher : StartFlush(f, FALSE))

FairSpec == Spec /\ Fairness

-----------------------------------------------------------------------------
Outbox == INSTANCE Delivery WITH pending <- files, stored <- table

(* Files and rows implement the delivery the outbox promises: a file goes  *)
(* only when the service has that record, whoever was killed, timed out,   *)
(* was answered late or answered about an older file of the same name; and *)
(* the service has one row of an event, however often it was sent, as it   *)
(* is when its acknowledgement is lost.                                    *)
Delivers == Outbox!Spec

(* The outbox never holds more than MAX_EVENTS records over all targets,   *)
(* however many processes submit.                                          *)
Bounded == Cardinality(files) <= MaxEvents

(* A record the service does not refuse for good is delivered, also the    *)
(* one whose name comes last: records it has refused, and records that go  *)
(* unanswered, do not take the places of the batch for ever.               *)
Delivered ==
  \A r \in {x \in Record : x.event = Max(Event) /\ x.target \in Range(TargetOf)} :
    r \in files ~>
      \/ r \notin files \/ <<r.target, r.event>> \in blocked
      \/ \A f \in Flusher : TargetOf[f] = r.target => ~Live(f)

=============================================================================
