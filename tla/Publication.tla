---- MODULE Publication ----
(* The fix metrics service (packages/fix-metrics-cloudflare): requests store    *)
(* events in an append-only table, other requests build and publish immutable   *)
(* aggregates of one month's runs as of fixed points in time, and reads serve    *)
(* what is published. Every request is a sequence of database calls, and the     *)
(* requests interleave at each of them; only one database call (or one batch) is *)
(* atomic. A request may be cut off between two calls.                           *)
(*                                                                               *)
(* The month is [0, FirstPoint); its as-of points are FirstPoint,                *)
(* FirstPoint + Period, and so on. A snapshot's identity is a hash over its      *)
(* whole content, so a snapshot IS its content here. Two adjacent calls are one  *)
(* step where nothing another request does between them can be observed: the     *)
(* search for the parent with the build, and the verification with the insertion.*)
EXTENDS Naturals, Sequences, FiniteSets

CONSTANTS
  Poster,      \* requests to /api/v1/events that can be in flight together
  Publisher,   \* requests to /api/v1/snapshots/publish in flight together
  Batches,     \* the event sequences a request can carry
  FirstPoint,  \* end of the month, the first as-of point
  Period,      \* distance between two as-of points
  MaxClock,    \* bound on time
  Skew,        \* how far in the future an event may have occurred
  LateWindow,  \* how far in the past
  MaxPosts,    \* bound on event requests
  MaxPublishes,\* bound on publish requests
  MaxFaults,   \* bound on database failures and requests cut off
  None

\* The items requests carry; a request without items has no effect and is left out.
Items == UNION {{b[k] : k \in DOMAIN b} : b \in Batches}

ASSUME PublicationAssumption ==
  /\ FirstPoint \in Nat \ {0} /\ Period \in Nat \ {0}
  /\ MaxClock \in Nat /\ Skew \in Nat /\ LateWindow \in Nat
  /\ MaxPosts \in Nat /\ MaxPublishes \in Nat /\ MaxFaults \in Nat
  /\ None \notin Publisher
  /\ Batches \subseteq Seq(Items) \ {<<>>}
  /\ \A i \in Items : i.occurred \in Nat

VARIABLES
  clock,      \* the server's time
  events,     \* the table of accepted events: [item, at]
  quarantine, \* the table of quarantined events: [item, at]
  snapshots,  \* the snapshots stored
  pointer,    \* the publication row of the month: [snap, gen], or None
  history,    \* the revisions recorded as published
  post,       \* the event request of each poster
  publish,    \* the publish request of each publisher
  acked,      \* the items a client has been told are stored
  posts,      \* event requests so far
  publishes,  \* publish requests so far
  faults,     \* database failures and cuts so far
  alone       \* the publisher nobody has interfered with since it began, or None

vars == <<clock, events, quarantine, snapshots, pointer, history, post, publish,
          acked, posts, publishes, faults, alone>>
tables == <<events, quarantine, snapshots, pointer, history>>

Point == {p \in FirstPoint .. MaxClock : (p - FirstPoint) % Period = 0}
NoPost    == [pc |-> "idle", rest |-> <<>>, at |-> 0]
NoPublish == [pc |-> "idle", now |-> 0, seen |-> {}, point |-> 0,
              built |-> None, expect |-> None]

(* ---- ingest ---------------------------------------------------------------- *)

\* What makes two facts the same business fact, and what is compared to tell a
\* resend from a conflicting fact: everything but the identity of the record.
BusinessKey(i)   == <<i.fact, i.type, i.evidence>>
CanonicalHash(i) == [i EXCEPT !.id = None]

\* The contract of each type: the fields it needs, their union shape and payload.
Malformed(i) == i.form = "malformed"

\* A malformed item is refused; one whose time is outside the windows or whose
\* content is unsafe is set aside; the rest is an event.
Validate(i, now) ==
  IF Malformed(i) THEN "permanent"
  ELSE IF i.occurred > now + Skew \/ now > i.occurred + LateWindow
            \/ i.form = "unsafe" THEN "quarantine"
  ELSE "ok"

\* The latest accepted resolution of the item's run and cycle.
LatestResolution(i) ==
  LET found == {r \in events : /\ r.item.type = "resolution_completed"
                               /\ r.item.run = i.run /\ r.item.cycle = i.cycle}
  IN  {r \in found : \A o \in found : o.item.occurred <= r.item.occurred}

\* Slip: the evidence reference is not compared.
BindingToAnyEvidence(i) == \E r \in LatestResolution(i) : i.occurred >= r.item.occurred

\* The verification names the evidence of the resolution and does not precede it.
BindingIsCoherent(i) ==
  \E r \in LatestResolution(i) :
    /\ i.evidence = r.item.evidence
    /\ i.occurred >= r.item.occurred

HasVerificationPassed(i) ==
  \E r \in events : r.item.type = "verification_passed" /\ r.item.run = i.run

\* The gates in front of the events table.
Gate(i) ==
  CASE i.type = "verification_passed" -> BindingIsCoherent(i)
    [] i.type = "run_accepted"        -> HasVerificationPassed(i)
    [] OTHER                          -> TRUE

\* An insertion meets the row with the same id first, then the one with the same
\* business key.
Clash(table, i) ==
  LET byId == {r \in table : r.item.id = i.id}
  IN  IF byId # {} THEN byId
      ELSE {r \in table : BusinessKey(r.item) = BusinessKey(i)}

\* Slip: whatever has the id or the key counts as a resend.
SameFactByName(r, i) == TRUE

SameFact(r, i) == CanonicalHash(r.item) = CanonicalHash(i)

\* A quarantined item's key and hash are made from the whole of what was sent, so
\* that different invalid items are different records and a resend is the same one.
SameRecord(r, i) == r.item = i

Receive(r, b) ==
  /\ post[r].pc = "idle"
  /\ posts < MaxPosts
  /\ posts' = posts + 1
  /\ post' = [post EXCEPT ![r] = [pc |-> "check", rest |-> b, at |-> clock]]
  /\ alone' = None
  /\ UNCHANGED <<clock, tables, publish, acked, publishes, faults>>

\* The next item of the batch, or the end of the request.
AfterItem(r) ==
  IF Len(post[r].rest) = 1 THEN NoPost
  ELSE [post[r] EXCEPT !.pc = "check", !.rest = Tail(@)]

\* Validation, and for evidence-bound events the lookup of the evidence; a
\* refusal is answered and the next item is taken.
Check(r) ==
  /\ post[r].pc = "check"
  /\ LET i == Head(post[r].rest)
         verdict == Validate(i, post[r].at)
     IN  post' = [post EXCEPT ![r] =
           IF verdict = "quarantine" THEN [@ EXCEPT !.pc = "set_aside"]
           ELSE IF verdict = "ok" /\ Gate(i) THEN [@ EXCEPT !.pc = "insert"]
           ELSE AfterItem(r)]
  /\ alone' = None
  /\ UNCHANGED <<clock, tables, publish, acked, posts, publishes, faults>>

\* The insertion: stored, a duplicate, or a conflict. Only the first two are
\* acknowledged as stored.
Insert(r) ==
  /\ post[r].pc = "insert"
  /\ LET i == Head(post[r].rest)
         clash == Clash(events, i)
     IN  /\ events' = IF clash = {} THEN events \union {[item |-> i, at |-> post[r].at]}
                      ELSE events
         /\ acked' = IF \A c \in clash : SameFact(c, i) THEN acked \union {i} ELSE acked
  /\ post' = [post EXCEPT ![r] = AfterItem(r)]
  /\ alone' = None
  /\ UNCHANGED <<clock, quarantine, snapshots, pointer, history, publish, posts, publishes, faults>>

SetAside(r) ==
  /\ post[r].pc = "set_aside"
  /\ LET i == Head(post[r].rest)
         clash == Clash(quarantine, i)
     IN  /\ quarantine' = IF clash = {} THEN quarantine \union {[item |-> i, at |-> post[r].at]}
                          ELSE quarantine
         /\ acked' = IF \A c \in clash : SameRecord(c, i) THEN acked \union {i} ELSE acked
  /\ post' = [post EXCEPT ![r] = AfterItem(r)]
  /\ alone' = None
  /\ UNCHANGED <<clock, events, snapshots, pointer, history, publish, posts, publishes, faults>>

Fault == faults < MaxFaults /\ faults' = faults + 1

\* The database fails for this item: a retryable answer, and the next item.
StorageError(r) ==
  /\ post[r].pc \in {"check", "insert", "set_aside"}
  /\ Fault
  /\ post' = [post EXCEPT ![r] = AfterItem(r)]
  /\ alone' = None
  /\ UNCHANGED <<clock, tables, publish, acked, posts, publishes>>

(* ---- snapshots ------------------------------------------------------------- *)

\* The runs counted at a point: those that started in the month and were known.
Cohort(rows, p) ==
  {r.item.run : r \in {s \in rows : /\ s.item.type = "run_started"
                                    /\ s.item.occurred < FirstPoint
                                    /\ s.at <= p}}

\* Slip: what a run did up to the point counts whenever it was received.
CohortEventsOccurred(rows, p) ==
  {r \in rows : r.item.run \in Cohort(rows, p) /\ r.item.occurred <= p}

CohortEvents(rows, p) ==
  {r \in rows : r.item.run \in Cohort(rows, p) /\ r.item.occurred <= p /\ r.at <= p}

WindowQuarantines(p) == {q \in quarantine : q.item.occurred < p /\ q.at <= p}

\* A snapshot is its content: the point, the parent, and every row it counts.
BuildSnapshot(rows, p, parent) ==
  [at |-> p, parent |-> parent, rows |-> CohortEvents(rows, p), set_aside |-> WindowQuarantines(p)]

\* A stored snapshot verifies when the tables as they are now reproduce it.
VerifyStored(s) == s = BuildSnapshot(events, s.at, s.parent)

\* Its parent is the stored, verified snapshot of the point just before, and so is the
\* parent's parent, up to the first point.
VerifyLineage(s) ==
  \E chain \in SUBSET snapshots :
    \A t \in chain \union {s} :
      t.parent # None => /\ t.parent \in chain
                         /\ VerifyStored(t.parent)
                         /\ t.parent.at = t.at - Period

SnapshotsAt(p) == {s \in snapshots : s.at = p}

\* The anchors for the next point: verified snapshots of this one.
Verifiable(p) == {s \in SnapshotsAt(p) : VerifyStored(s)}

PublishBegin(p) ==
  /\ publish[p].pc = "idle"
  /\ publishes < MaxPublishes
  /\ publishes' = publishes + 1
  /\ LET started == \E r \in events : r.item.type = "run_started"
     IN  /\ publish' = IF started /\ clock >= FirstPoint
                       THEN [publish EXCEPT ![p] = [NoPublish EXCEPT
                               !.pc = "build", !.now = clock, !.seen = events, !.point = FirstPoint]]
                       ELSE publish
         /\ alone' = IF /\ started /\ clock >= FirstPoint
                        /\ \A q \in Publisher : publish[q].pc = "idle"
                        /\ \A r \in Poster : post[r].pc = "idle"
                     THEN p ELSE None
  /\ UNCHANGED <<clock, tables, post, acked, posts, faults>>

\* Whoever else was running undisturbed no longer is.
Disturb(p) == alone' = IF alone = p THEN p ELSE None

\* A later point is anchored to a verified snapshot of the point before it, and
\* there must be one. The events are those read when the request began.
Build(p) ==
  /\ publish[p].pc = "build"
  /\ LET q == publish[p]
     IN  IF q.point = FirstPoint
         THEN publish' = [publish EXCEPT ![p].pc = "store",
                            ![p].built = BuildSnapshot(q.seen, q.point, None)]
         ELSE IF Verifiable(q.point - Period) = {}
         THEN publish' = [publish EXCEPT ![p] = NoPublish]
         ELSE \E parent \in Verifiable(q.point - Period) :
                publish' = [publish EXCEPT ![p].pc = "store",
                              ![p].built = BuildSnapshot(q.seen, q.point, parent)]
  /\ Disturb(p)
  /\ UNCHANGED <<clock, tables, post, acked, posts, publishes, faults>>

\* The snapshot must still verify, with its lineage, when it is stored.
Store(p) ==
  /\ publish[p].pc = "store"
  /\ LET s == publish[p].built
     IN  IF VerifyStored(s) /\ VerifyLineage(s)
         THEN /\ snapshots' = snapshots \union {s}
              /\ publish' = [publish EXCEPT ![p].pc = "target"]
         ELSE /\ publish' = [publish EXCEPT ![p] = NoPublish]
              /\ UNCHANGED snapshots
  /\ Disturb(p)
  /\ UNCHANGED <<clock, events, quarantine, pointer, history, post, acked, posts, publishes, faults>>

NextPoint(q) ==
  IF q.point + Period <= q.now
  THEN [q EXCEPT !.pc = "build", !.point = @ + Period, !.built = None, !.expect = None]
  ELSE NoPublish

\* Slip: only a later point replaces the pointer.
TargetOnlyForward(p) ==
  /\ publish[p].pc = "target"
  /\ LET q == publish[p]
     IN  publish' = [publish EXCEPT ![p] =
           IF pointer = None THEN [@ EXCEPT !.pc = "write"]
           ELSE IF pointer.snap.at >= q.point THEN NextPoint(@)
           ELSE [@ EXCEPT !.pc = "write", !.expect = pointer]]
  /\ Disturb(p)
  /\ UNCHANGED <<clock, tables, post, acked, posts, publishes, faults>>

\* The pointer is read: nothing to do when it is already there, or beyond.
Target(p) ==
  /\ publish[p].pc = "target"
  /\ LET q == publish[p]
     IN  publish' = [publish EXCEPT ![p] =
           IF pointer = None THEN [@ EXCEPT !.pc = "write"]
           ELSE IF pointer.snap = q.built \/ pointer.snap.at > q.point THEN NextPoint(@)
           ELSE [@ EXCEPT !.pc = "write", !.expect = pointer]]
  /\ Disturb(p)
  /\ UNCHANGED <<clock, tables, post, acked, posts, publishes, faults>>

\* Slip: the update does not compare the generation.
LandsOnAnyGeneration(q) ==
  IF q.expect = None THEN pointer = None
  ELSE pointer # None /\ pointer.snap.at <= q.point

\* The transaction lands only on the pointer that was read: the first insertion
\* on no pointer at all, an update on the same generation and no later a point.
Lands(q) ==
  IF q.expect = None THEN pointer = None
  ELSE /\ pointer # None
       /\ pointer.gen = q.expect.gen
       /\ pointer.snap.at <= q.point

Write(p) ==
  /\ publish[p].pc = "write"
  /\ LET q == publish[p]
     IN  IF Lands(q)
         THEN /\ pointer' = [snap |-> q.built,
                             gen |-> IF pointer = None THEN 0 ELSE pointer.gen + 1]
              /\ history' = history \union {q.built}
         ELSE UNCHANGED <<pointer, history>>
  /\ publish' = [publish EXCEPT ![p] = NextPoint(@)]
  /\ Disturb(p)
  /\ UNCHANGED <<clock, events, quarantine, snapshots, post, acked, posts, publishes, faults>>

(* ---- reads ----------------------------------------------------------------- *)

\* The pointer leads to the revision, or did once.
HasPublishedRevision(s) == (pointer # None /\ pointer.snap = s) \/ s \in history

\* What a read of one snapshot serves: a published revision, not of the future,
\* that still verifies with its lineage.
FunnelServes(s) ==
  /\ s \in snapshots
  /\ HasPublishedRevision(s)
  /\ s.at <= clock
  /\ VerifyStored(s) /\ VerifyLineage(s)

\* What "latest" serves: the pointer's target and nothing else.
LatestServes ==
  /\ pointer # None
  /\ pointer.snap \in snapshots
  /\ pointer.snap.at <= clock
  /\ VerifyStored(pointer.snap) /\ VerifyLineage(pointer.snap)

(* ---- environment ----------------------------------------------------------- *)

Tick ==
  /\ clock < MaxClock
  /\ clock' = clock + 1
  /\ UNCHANGED <<tables, post, publish, acked, posts, publishes, faults, alone>>

\* A request is cut off between two calls; nothing is rolled back.
CutPost(r) ==
  /\ post[r].pc # "idle"
  /\ Fault
  /\ post' = [post EXCEPT ![r] = NoPost]
  /\ alone' = None
  /\ UNCHANGED <<clock, tables, publish, acked, posts, publishes>>

CutPublish(p) ==
  /\ publish[p].pc # "idle"
  /\ Fault
  /\ publish' = [publish EXCEPT ![p] = NoPublish]
  /\ alone' = None
  /\ UNCHANGED <<clock, tables, post, acked, posts, publishes>>

Init ==
  /\ clock = 0
  /\ events = {} /\ quarantine = {} /\ snapshots = {} /\ history = {}
  /\ pointer = None
  /\ post = [r \in Poster |-> NoPost]
  /\ publish = [p \in Publisher |-> NoPublish]
  /\ acked = {}
  /\ posts = 0 /\ publishes = 0 /\ faults = 0
  /\ alone = None

PostStep(r) ==
  \/ \E b \in Batches : Receive(r, b)
  \/ Check(r) \/ Insert(r) \/ SetAside(r) \/ StorageError(r) \/ CutPost(r)

PublishStep(p) ==
  PublishBegin(p) \/ Build(p) \/ Store(p) \/ Target(p) \/ Write(p) \/ CutPublish(p)

Next ==
  \/ Tick
  \/ \E r \in Poster : PostStep(r)
  \/ \E p \in Publisher : PublishStep(p)

Spec == Init /\ [][Next]_vars

(* ---- properties ------------------------------------------------------------ *)

\* An item a client has been told is stored is stored, with that very content:
\* the client removes it from its outbox on this word.
AckIsDurable ==
  \A i \in acked : \E r \in events \union quarantine :
    CanonicalHash(r.item) = CanonicalHash(i)

\* No accepted run without a verification of the run, no verification without the
\* resolution it verifies: of the same run and cycle, with the same evidence, and
\* not later than it; in whatever order requests interleave.
EvidenceBacked ==
  \A r \in events :
    /\ r.item.type = "run_accepted" =>
         \E v \in events : v.item.type = "verification_passed" /\ v.item.run = r.item.run
    /\ r.item.type = "verification_passed" =>
         \E s \in events : /\ s.item.type = "resolution_completed"
                           /\ s.item.run = r.item.run /\ s.item.cycle = r.item.cycle
                           /\ s.item.evidence = r.item.evidence
                           /\ s.item.occurred <= r.item.occurred

\* A revision that has been served is served from then on, whatever is published,
\* stored, refused or cut off later, unless an item received by its point is stored
\* after the fact: what arrives after the point never moves it.
PublishedStays ==
  [][\A s \in history :
       (FunnelServes(s) /\ ~FunnelServes(s)') =>
         \E r \in (events' \ events) \union (quarantine' \ quarantine) : r.at <= s.at]_vars

\* Publishing, by any number of requests, is a publication log: the pointer never
\* goes back to an earlier point and whatever it led to stays on record.
Log == INSTANCE PublicationLog WITH
         current    <- IF pointer = None THEN None ELSE pointer.snap,
         generation <- IF pointer = None THEN 0 ELSE pointer.gen,
         record     <- history
Publishes == Log!Spec

\* A publish request nobody interferes with repairs whatever earlier races and cuts
\* have left: when it ends, "latest" serves, at the last point reached.
Heals ==
  [][\A p \in Publisher :
       (alone = p /\ publish[p].pc # "idle" /\ publish'[p].pc = "idle" /\ alone' = p) =>
         /\ LatestServes'
         /\ \A q \in Point : q <= publish[p].now => q <= pointer'.snap.at]_vars
====
