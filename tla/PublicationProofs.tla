---- MODULE PublicationProofs ----
(* Safety of the fix metrics service for any number of requests, items, faults     *)
(* and points: what is acknowledged is stored, evidence is there before what rests  *)
(* on it, publishing implements the publication log, what has been served stays so, *)
(* and an undisturbed publish request repairs what others have left.                *)
EXTENDS Publication, Integers, SequenceTheorems, TLAPS

\* None stands for no record: it is none.
NoneIsApart ==
  /\ \A snap, gen : None # [snap |-> snap, gen |-> gen]
  /\ \A at, parent, rows, aside :
       None # [at |-> at, parent |-> parent, rows |-> rows, set_aside |-> aside]

(* ---- ingest ---------------------------------------------------------------- *)

\* What the gate has found for an item is there when the item is inserted, since
\* rows are never removed.
Backed(i) ==
  /\ i.type = "run_accepted" =>
       \E v \in events : v.item.type = "verification_passed" /\ v.item.run = i.run
  /\ i.type = "verification_passed" =>
       \E s \in events : /\ s.item.type = "resolution_completed"
                         /\ s.item.run = i.run /\ s.item.cycle = i.cycle
                         /\ s.item.evidence = i.evidence
                         /\ s.item.occurred <= i.occurred

\* Every event request is a record of its place, the items left and its time.
PostShape ==
  post = [r \in Poster |-> [pc |-> post[r].pc, rest |-> post[r].rest, at |-> post[r].at]]

GatePassed == \A r \in Poster : post[r].pc = "insert" => Backed(Head(post[r].rest))

EvidenceInv == PostShape /\ GatePassed /\ EvidenceBacked

\* An item that passes the gates is backed by what is stored.
LEMMA GateBacks ==
  ASSUME NEW i, Gate(i)
  PROVE  Backed(i)
  <1>1. CASE i.type = "verification_passed"
    <2>1. BindingIsCoherent(i)
      BY <1>1 DEF Gate
    <2>2. PICK s \in LatestResolution(i) : i.evidence = s.item.evidence /\ i.occurred >= s.item.occurred
      BY <2>1 DEF BindingIsCoherent
    <2>3. s \in events /\ s.item.type = "resolution_completed"
          /\ s.item.run = i.run /\ s.item.cycle = i.cycle
      BY <2>2 DEF LatestResolution
    <2> QED
      BY <1>1, <2>2, <2>3 DEF Backed
  <1>2. CASE i.type = "run_accepted"
    BY <1>2 DEF Gate, HasVerificationPassed, Backed
  <1> QED
    BY <1>1, <1>2 DEF Backed

\* Whatever is backed stays so while events only grow.
LEMMA StaysBacked ==
  ASSUME events \subseteq events', NEW i, Backed(i)
  PROVE  Backed(i)'
  BY DEF Backed

\* Steps of requests that leave the events alone.
LEMMA OnlyInsertAddsEvents ==
  ASSUME Next
  PROVE  events' = events \/ \E r \in Poster : Insert(r)
  BY DEF Next, Tick, PostStep, PublishStep, Receive, Check, SetAside, StorageError, CutPost,
         PublishBegin, Build, Store, Target, Write, CutPublish, tables

\* After an item a request is idle or at the check of the next item.
LEMMA AfterItemIs ==
  ASSUME PostShape, NEW r \in Poster
  PROVE  /\ AfterItem(r) = [pc |-> AfterItem(r).pc, rest |-> AfterItem(r).rest, at |-> AfterItem(r).at]
         /\ AfterItem(r).pc \in {"idle", "check"}
  <1>1. post[r] = [pc |-> post[r].pc, rest |-> post[r].rest, at |-> post[r].at]
    BY DEF PostShape
  <1> QED
    BY <1>1 DEF AfterItem, NoPost

\* A request that goes to another place keeps the rest.
LEMMA PlaceChanges ==
  ASSUME NEW x, x = [pc |-> x.pc, rest |-> x.rest, at |-> x.at], NEW place
  PROVE  [x EXCEPT !.pc = place] = [pc |-> place, rest |-> x.rest, at |-> x.at]
  <1>1. PICK a, b, c : x = [pc |-> a, rest |-> b, at |-> c]
    OBVIOUS
  <1> QED
    BY <1>1

\* An event request reaches the insertion of an item only through its gate.
LEMMA PostsMove ==
  ASSUME Next, PostShape
  PROVE  /\ PostShape'
         /\ \A r \in Poster : post'[r].pc = "insert" =>
              \/ post'[r] = post[r]
              \/ post'[r].rest = post[r].rest /\ Gate(Head(post[r].rest))
  <1> DEFINE Moved(r) ==
        \/ post'[r] = post[r]
        \/ post'[r].pc \in {"idle", "check", "set_aside"}
        \/ post'[r].rest = post[r].rest /\ Gate(Head(post[r].rest))
  <1> DEFINE Goal == PostShape' /\ \A r \in Poster : Moved(r)
  <1>a. ASSUME NEW r \in Poster
        PROVE  post[r] = [pc |-> post[r].pc, rest |-> post[r].rest, at |-> post[r].at]
    BY DEF PostShape
  <1>0. CASE post' = post
    BY <1>0 DEF PostShape
  <1>1. ASSUME NEW q \in Poster, NEW x, post' = [post EXCEPT ![q] = x],
               x = [pc |-> x.pc, rest |-> x.rest, at |-> x.at],
               x.pc \in {"idle", "check", "set_aside"}
                 \/ (x.rest = post[q].rest /\ Gate(Head(post[q].rest)))
        PROVE  Goal
    BY <1>1 DEF PostShape
  <1>2. ASSUME NEW q \in Poster, NEW b \in Batches, Receive(q, b)  PROVE Goal
    <2> DEFINE x == [pc |-> "check", rest |-> b, at |-> clock]
    <2>1. post' = [post EXCEPT ![q] = x]
      BY <1>2 DEF Receive
    <2> QED
      BY <2>1, <1>1
  <1>3. ASSUME NEW q \in Poster, Check(q)  PROVE Goal
    <2>1. CASE post' = [post EXCEPT ![q] = AfterItem(q)]
      BY <2>1, <1>1, AfterItemIs
    <2>2. CASE post' = [post EXCEPT ![q] = [post[q] EXCEPT !.pc = "set_aside"]]
      <3>1. [post[q] EXCEPT !.pc = "set_aside"]
              = [pc |-> "set_aside", rest |-> post[q].rest, at |-> post[q].at]
        BY <1>a, PlaceChanges
      <3> QED
        BY <2>2, <3>1, <1>1
    <2>3. CASE /\ post' = [post EXCEPT ![q] = [post[q] EXCEPT !.pc = "insert"]]
               /\ Gate(Head(post[q].rest))
      <3>1. [post[q] EXCEPT !.pc = "insert"]
              = [pc |-> "insert", rest |-> post[q].rest, at |-> post[q].at]
        BY <1>a, PlaceChanges
      <3> QED
        BY <2>3, <3>1, <1>1
    <2> QED
      BY <1>3, <2>1, <2>2, <2>3 DEF Check
  <1>4. ASSUME NEW q \in Poster, Insert(q) \/ SetAside(q) \/ StorageError(q)  PROVE Goal
    <2>1. post' = [post EXCEPT ![q] = AfterItem(q)]
      BY <1>4 DEF Insert, SetAside, StorageError
    <2> QED
      BY <2>1, <1>1, AfterItemIs
  <1>5. ASSUME NEW q \in Poster, CutPost(q)  PROVE Goal
    <2>1. post' = [post EXCEPT ![q] = NoPost]
      BY <1>5 DEF CutPost
    <2> QED
      BY <2>1, <1>1 DEF NoPost
  <1>6. ASSUME Tick \/ \E p \in Publisher : PublishStep(p)  PROVE Goal
    BY <1>6, <1>0
       DEF Tick, PublishStep, PublishBegin, Build, Store, Target, Write, CutPublish, tables
  <1>7. Goal
    BY <1>2, <1>3, <1>4, <1>5, <1>6 DEF Next, PostStep
  <1> QED
    BY <1>7

\* What is backed stays backed, and only what is backed is inserted.
LEMMA EvidenceNext ==
  ASSUME EvidenceInv, [Next]_vars
  PROVE  EvidenceInv'
  <1>1. CASE UNCHANGED vars
    BY <1>1 DEF vars, tables, EvidenceInv, PostShape, GatePassed, Backed, EvidenceBacked
  <1>2. CASE Next
    <2>1. events \subseteq events'
      BY <1>2, OnlyInsertAddsEvents DEF Insert
    <2>2. PostShape'
      BY <1>2, PostsMove DEF EvidenceInv
    <2>3. GatePassed'
      <3> SUFFICES ASSUME NEW r \in Poster, post'[r].pc = "insert"
                   PROVE  Backed(Head(post[r].rest))'
        BY DEF GatePassed
      <3>1. Backed(Head(post'[r].rest))
        BY <1>2, PostsMove, GateBacks DEF EvidenceInv, GatePassed
      <3> QED
        BY <2>1, <3>1 DEF Backed
    <2>4. \A e \in events' : e \in events \/ Backed(e.item)
      <3>1. CASE events' = events
        BY <3>1
      <3>2. ASSUME NEW r \in Poster, Insert(r)
            PROVE  \A e \in events' : e \in events \/ Backed(e.item)
        <4>1. Backed(Head(post[r].rest))
          BY <3>2 DEF Insert, EvidenceInv, GatePassed
        <4>2. \A e \in events' : e \in events \/ e = [item |-> Head(post[r].rest), at |-> post[r].at]
          BY <3>2 DEF Insert
        <4> QED
          BY <4>1, <4>2
      <3> QED
        BY <1>2, <3>1, <3>2, OnlyInsertAddsEvents
    <2>5. \A e \in events : Backed(e.item)
      BY DEF EvidenceInv, EvidenceBacked, Backed
    <2>6. \A e \in events' : Backed(e.item)'
      BY <2>1, <2>4, <2>5 DEF Backed
    <2> QED
      BY <2>2, <2>3, <2>6 DEF EvidenceInv, EvidenceBacked, Backed
  <1> QED
    BY <1>1, <1>2

\* Evidence stands before what rests on it, however requests interleave.
THEOREM Evidence == Spec => []EvidenceBacked
  <1>1. Init => EvidenceInv
    BY DEF Init, EvidenceInv, PostShape, GatePassed, EvidenceBacked, NoPost
  <1>2. EvidenceInv => EvidenceBacked
    BY DEF EvidenceInv
  <1> QED
    BY <1>1, <1>2, EvidenceNext, PTL DEF Spec

\* What a request has acknowledged is stored and stays so.
THEOREM Acknowledged == Spec => []AckIsDurable
  <1>1. Init => AckIsDurable
    BY DEF Init, AckIsDurable
  <1>2. AckIsDurable /\ [Next]_vars => AckIsDurable'
    <2> SUFFICES ASSUME AckIsDurable, [Next]_vars
                 PROVE  AckIsDurable'
      OBVIOUS
    <2>1. ASSUME acked' = acked, events \subseteq events', quarantine \subseteq quarantine'
          PROVE  AckIsDurable'
      BY <2>1 DEF AckIsDurable, CanonicalHash
    <2>2. ASSUME NEW r \in Poster, Insert(r)  PROVE AckIsDurable'
      <3> DEFINE i == Head(post[r].rest)
      <3>1. events \subseteq events' /\ quarantine' = quarantine
        BY <2>2 DEF Insert
      <3>2. CASE acked' = acked
        BY <2>1, <3>1, <3>2
      <3>3. CASE acked' = acked \union {i} /\ Clash(events, i) = {}
        <4>1. [item |-> i, at |-> post[r].at] \in events'
          BY <2>2, <3>3 DEF Insert
        <4> QED
          BY <3>1, <3>3, <4>1 DEF AckIsDurable
      <3>4. ASSUME acked' = acked \union {i}, NEW c \in Clash(events, i), SameFact(c, i)
            PROVE  AckIsDurable'
        <4>1. c \in events /\ CanonicalHash(c.item) = CanonicalHash(i)
          BY <3>4 DEF Clash, SameFact
        <4> QED
          BY <3>1, <3>4, <4>1 DEF AckIsDurable
      <3> QED
        BY <2>2, <3>2, <3>3, <3>4 DEF Insert
    <2>3. ASSUME NEW r \in Poster, SetAside(r)  PROVE AckIsDurable'
      <3> DEFINE i == Head(post[r].rest)
      <3>1. quarantine \subseteq quarantine' /\ events' = events
        BY <2>3 DEF SetAside
      <3>2. CASE acked' = acked
        BY <2>1, <3>1, <3>2
      <3>3. CASE acked' = acked \union {i} /\ Clash(quarantine, i) = {}
        <4>1. [item |-> i, at |-> post[r].at] \in quarantine'
          BY <2>3, <3>3 DEF SetAside
        <4> QED
          BY <3>1, <3>3, <4>1 DEF AckIsDurable
      <3>4. ASSUME acked' = acked \union {i}, NEW c \in Clash(quarantine, i), SameRecord(c, i)
            PROVE  AckIsDurable'
        <4>1. c \in quarantine /\ c.item = i
          BY <3>4 DEF Clash, SameRecord
        <4> QED
          BY <3>1, <3>4, <4>1 DEF AckIsDurable
      <3> QED
        BY <2>3, <3>2, <3>3, <3>4 DEF SetAside
    <2>4. CASE \/ Tick
               \/ \E r \in Poster : \/ \E b \in Batches : Receive(r, b)
                                    \/ Check(r) \/ StorageError(r) \/ CutPost(r)
               \/ \E p \in Publisher : PublishStep(p)
      BY <2>1, <2>4 DEF Tick, Receive, Check, StorageError, CutPost, PublishStep, PublishBegin,
                        Build, Store, Target, Write, CutPublish, tables
    <2>5. CASE UNCHANGED vars
      BY <2>1, <2>5 DEF vars, tables
    <2> QED
      BY <2>2, <2>3, <2>4, <2>5 DEF Next, PostStep
  <1> QED
    BY <1>1, <1>2, PTL DEF Spec

(* ---- publishing ------------------------------------------------------------ *)

Request(pc, now, seen, point, built, expect) ==
  [pc |-> pc, now |-> now, seen |-> seen, point |-> point, built |-> built, expect |-> expect]

\* A publish request has built a snapshot of the point it is at; and the pointer it
\* expects is the one there is, or an older generation, and leads elsewhere than to
\* what it has built.
Fit(q) ==
  /\ q = Request(q.pc, q.now, q.seen, q.point, q.built, q.expect)
  /\ q.pc \in {"store", "target", "write"} => q.built # None /\ q.built.at = q.point
  /\ q.pc # "write" => q.expect = None
  /\ q.expect # None =>
       /\ pointer # None
       /\ q.expect.gen \in Nat /\ q.expect.gen <= pointer.gen
       /\ q.expect.gen = pointer.gen => q.expect = pointer
       /\ q.expect.snap # q.built

PointerLeads == pointer # None => pointer.gen \in Nat /\ pointer.snap # None

PublishInv ==
  /\ publish = [p \in Publisher |-> publish[p]]
  /\ \A p \in Publisher : Fit(publish[p])
  /\ PointerLeads

\* The forms a request takes.
LEMMA NoPublishFits == Fit(NoPublish)
  BY DEF Fit, NoPublish, Request

LEMMA NextPointFits ==
  ASSUME NEW q, Fit(q)
  PROVE  Fit(NextPoint(q))
  <1>1. PICK a, b, c, d, e, f : q = Request(a, b, c, d, e, f)
    BY DEF Fit
  <1>2. CASE NextPoint(q) = NoPublish
    BY <1>2, NoPublishFits
  <1>3. CASE NextPoint(q) = Request("build", b, c, d + Period, None, None)
    BY <1>3 DEF Fit, Request
  <1> QED
    BY <1>1, <1>2, <1>3 DEF NextPoint, Request

LEMMA BuiltFits ==
  ASSUME NoneIsApart, NEW q, Fit(q), q.pc = "build", NEW rows, NEW parent
  PROVE  Fit([q EXCEPT !.pc = "store", !.built = BuildSnapshot(rows, q.point, parent)])
  <1>1. PICK a, b, c, d, e, f : q = Request(a, b, c, d, e, f)
    BY DEF Fit
  <1> DEFINE s == BuildSnapshot(rows, d, parent)
  <1>2. s # None /\ s.at = d
    BY DEF BuildSnapshot, NoneIsApart
  <1>3. f = None
    BY <1>1 DEF Fit, Request
  <1>4. Fit(Request("store", b, c, d, s, f))
    BY <1>2, <1>3 DEF Fit, Request
  <1>5. q.point = d
    BY <1>1 DEF Request
  <1>6. [q EXCEPT !.pc = "store", !.built = s] = Request("store", b, c, d, s, f)
    <2>1. [q EXCEPT !.pc = "store"] = Request("store", b, c, d, e, f)
      BY <1>1 DEF Request
    <2>2. [Request("store", b, c, d, e, f) EXCEPT !.built = s] = Request("store", b, c, d, s, f)
      BY DEF Request
    <2>3. [q EXCEPT !.pc = "store", !.built = s] = [[q EXCEPT !.pc = "store"] EXCEPT !.built = s]
      BY <1>1 DEF Request
    <2> QED
      BY <2>1, <2>2, <2>3
  <1> QED
    BY <1>4, <1>5, <1>6

LEMMA StoredFits ==
  ASSUME NEW q, Fit(q), q.pc = "store"
  PROVE  Fit([q EXCEPT !.pc = "target"])
  <1>1. PICK a, b, c, d, e, f : q = Request(a, b, c, d, e, f)
    BY DEF Fit
  <1>2. Fit(Request("target", b, c, d, e, f))
    BY <1>1 DEF Fit, Request
  <1> QED
    BY <1>1, <1>2 DEF Request

LEMMA TargetedFits ==
  ASSUME NEW q, Fit(q), q.pc = "target", PointerLeads
  PROVE  /\ Fit([q EXCEPT !.pc = "write"])
         /\ pointer # None /\ pointer.snap # q.built => Fit([q EXCEPT !.pc = "write", !.expect = pointer])
  <1>1. PICK a, b, c, d, e, f : q = Request(a, b, c, d, e, f)
    BY DEF Fit
  <1>2. e # None /\ e.at = d /\ f = None
    BY <1>1 DEF Fit, Request
  <1>3. Fit(Request("write", b, c, d, e, f))
    BY <1>2 DEF Fit, Request
  <1>4. pointer # None /\ pointer.snap # e => Fit(Request("write", b, c, d, e, pointer))
    BY <1>2 DEF Fit, Request, PointerLeads
  <1>5. q.built = e /\ [q EXCEPT !.pc = "write"] = Request("write", b, c, d, e, f)
    BY <1>1 DEF Request
  <1>6. [q EXCEPT !.pc = "write", !.expect = pointer] = Request("write", b, c, d, e, pointer)
    <2>1. [Request("write", b, c, d, e, f) EXCEPT !.expect = pointer]
            = Request("write", b, c, d, e, pointer)
      BY DEF Request
    <2>2. [q EXCEPT !.pc = "write", !.expect = pointer]
            = [[q EXCEPT !.pc = "write"] EXCEPT !.expect = pointer]
      BY <1>1 DEF Request
    <2> QED
      BY <1>5, <2>1, <2>2
  <1> QED
    BY <1>3, <1>4, <1>5, <1>6

\* A step of one request that leaves the pointer alone.
LEMMA OneMoves ==
  ASSUME PublishInv, UNCHANGED pointer, NEW p \in Publisher, NEW x, Fit(x),
         publish' = [publish EXCEPT ![p] = x]
  PROVE  PublishInv'
  <1>1. \A q \in Publisher : publish'[q] = x \/ publish'[q] = publish[q]
    BY DEF PublishInv
  <1>2. \A q \in Publisher : Fit(publish'[q])
    BY <1>1 DEF PublishInv
  <1>3. \A q \in Publisher : Fit(publish[q])'
    BY <1>2 DEF Fit
  <1> QED
    BY <1>3 DEF PublishInv, PointerLeads

\* A write that lands leaves behind whatever other requests expect.
LEMMA WriteKeeps ==
  ASSUME NoneIsApart, PublishInv, NEW p \in Publisher, Write(p)
  PROVE  PublishInv'
  <1> DEFINE q == publish[p]
             x == NextPoint(q)
  <1>1. publish' = [publish EXCEPT ![p] = x]
    BY DEF Write
  <1>2. Fit(q) /\ Fit(x) /\ x.expect = None
    <2>1. Fit(q) /\ Fit(x)
      BY NextPointFits DEF PublishInv
    <2> QED
      BY <2>1 DEF NextPoint, NoPublish, Fit, Request
  <1>3. CASE UNCHANGED pointer
    BY <1>1, <1>2, <1>3, OneMoves
  <1>4. CASE /\ Lands(q)
             /\ pointer' = [snap |-> q.built, gen |-> IF pointer = None THEN 0 ELSE pointer.gen + 1]
    <2>1. pointer' # None /\ pointer'.snap = q.built /\ q.built # None
      BY <1>2, <1>4 DEF NoneIsApart, Fit, Write
    <2>2. pointer'.gen \in Nat /\ (pointer # None => pointer'.gen > pointer.gen /\ pointer.gen \in Nat)
      BY <1>4 DEF PublishInv, PointerLeads
    <2>3. \A r \in Publisher : publish'[r] = x \/ publish'[r] = publish[r]
      BY <1>1 DEF PublishInv
    <2>4. \A r \in Publisher : Fit(publish'[r])
      BY <1>2, <2>3 DEF PublishInv
    <2>5. ASSUME NEW r \in Publisher  PROVE Fit(publish[r])'
      <3>1. CASE publish'[r].expect = None
        BY <2>4, <3>1 DEF Fit
      <3>2. CASE publish'[r].expect # None
        <4>1. /\ publish'[r].expect.gen \in Nat /\ publish'[r].expect.gen <= pointer.gen
              /\ pointer # None
          BY <2>4, <3>2 DEF Fit
        <4>2. publish'[r].expect.gen <= pointer'.gen /\ publish'[r].expect.gen # pointer'.gen
          BY <2>2, <4>1
        <4> QED
          BY <2>1, <2>4, <3>2, <4>1, <4>2 DEF Fit
      <3> QED
        BY <3>1, <3>2
    <2> QED
      BY <1>1, <2>1, <2>2, <2>5 DEF PublishInv, PointerLeads
  <1> QED
    BY <1>3, <1>4 DEF Write

\* A request begins with the events of now, at the first point.
LEMMA BegunIs ==
  [NoPublish EXCEPT !.pc = "build", !.now = clock, !.seen = events, !.point = FirstPoint]
    = Request("build", clock, events, FirstPoint, None, None)
  <1> DEFINE first  == Request("build", 0, {}, 0, None, None)
             second == Request("build", clock, {}, 0, None, None)
             third  == Request("build", clock, events, 0, None, None)
             last   == Request("build", clock, events, FirstPoint, None, None)
             begun  == [NoPublish EXCEPT
                          !.pc = "build", !.now = clock, !.seen = events, !.point = FirstPoint]
  <1>1. [NoPublish EXCEPT !.pc = "build"] = first
    BY DEF NoPublish, Request
  <1>2. [first EXCEPT !.now = clock] = second
    BY DEF Request
  <1>3. [second EXCEPT !.seen = events] = third
    BY DEF Request
  <1>4. [third EXCEPT !.point = FirstPoint] = last
    BY DEF Request
  <1>5. begun = [[[[NoPublish EXCEPT !.pc = "build"]
                     EXCEPT !.now = clock] EXCEPT !.seen = events] EXCEPT !.point = FirstPoint]
    BY DEF NoPublish
  <1>6. begun = last
    <2> HIDE DEF first, second, third, last, begun
    <2> QED
      BY <1>1, <1>2, <1>3, <1>4, <1>5
  <1> QED
    BY <1>6

\* Every step of every request preserves the invariant.
LEMMA PublishNext ==
  ASSUME NoneIsApart, PublishInv, [Next]_vars
  PROVE  PublishInv'
  <1>1. CASE UNCHANGED <<publish, pointer>>
    BY <1>1 DEF PublishInv, Fit, PointerLeads
  <1>2. ASSUME NEW p \in Publisher, PublishBegin(p)  PROVE PublishInv'
    <2>1. CASE publish' = publish
      BY <1>1, <1>2, <2>1 DEF PublishBegin, tables
    <2>2. CASE publish' = [publish EXCEPT ![p] = [NoPublish EXCEPT
                 !.pc = "build", !.now = clock, !.seen = events, !.point = FirstPoint]]
      <3> DEFINE x == Request("build", clock, events, FirstPoint, None, None)
      <3>1. publish' = [publish EXCEPT ![p] = x]
        BY <2>2, BegunIs
      <3>2. Fit(x)
        BY DEF Fit, Request
      <3> QED
        BY <1>2, <3>1, <3>2, OneMoves DEF PublishBegin, tables
    <2> QED
      BY <1>2, <2>1, <2>2 DEF PublishBegin
  <1>3. ASSUME NEW p \in Publisher, Build(p)  PROVE PublishInv'
    <2> DEFINE q == publish[p]
               At(s) == publish' = [publish EXCEPT ![p] = [q EXCEPT !.pc = "store", !.built = s]]
    <2>1. Fit(q) /\ q.pc = "build" /\ UNCHANGED pointer
      BY <1>3 DEF PublishInv, Build, tables
    <2>2. CASE publish' = [publish EXCEPT ![p] = NoPublish]
      BY <2>1, <2>2, NoPublishFits, OneMoves
    <2>3. ASSUME NEW parent, At(BuildSnapshot(q.seen, q.point, parent))  PROVE PublishInv'
      BY <2>1, <2>3, BuiltFits, OneMoves
    <2>4. ASSUME NEW s, publish' = [publish EXCEPT ![p].pc = "store", ![p].built = s]  PROVE At(s)
      BY <2>4 DEF PublishInv
    <2> QED
      BY <1>3, <2>2, <2>3, <2>4 DEF Build
  <1>4. ASSUME NEW p \in Publisher, Store(p)  PROVE PublishInv'
    <2> DEFINE q == publish[p]
    <2>1. Fit(q) /\ q.pc = "store" /\ UNCHANGED pointer
      BY <1>4 DEF PublishInv, Store
    <2>2. CASE publish' = [publish EXCEPT ![p] = NoPublish]
      BY <2>1, <2>2, NoPublishFits, OneMoves
    <2>3. CASE publish' = [publish EXCEPT ![p].pc = "target"]
      BY <2>1, <2>3, StoredFits, OneMoves
    <2> QED
      BY <1>4, <2>2, <2>3 DEF Store
  <1>5. ASSUME NEW p \in Publisher, Target(p)  PROVE PublishInv'
    <2> DEFINE q == publish[p]
    <2>1. Fit(q) /\ q.pc = "target" /\ UNCHANGED pointer /\ PointerLeads
      BY <1>5 DEF PublishInv, Target, tables
    <2>2. CASE publish' = [publish EXCEPT ![p] = NextPoint(q)]
      BY <2>1, <2>2, NextPointFits, OneMoves
    <2>3. CASE publish' = [publish EXCEPT ![p] = [q EXCEPT !.pc = "write"]]
      BY <2>1, <2>3, TargetedFits, OneMoves
    <2>4. CASE /\ pointer # None /\ pointer.snap # q.built
               /\ publish' = [publish EXCEPT ![p] = [q EXCEPT !.pc = "write", !.expect = pointer]]
      BY <2>1, <2>4, TargetedFits, OneMoves
    <2> QED
      BY <1>5, <2>2, <2>3, <2>4 DEF Target
  <1>6. ASSUME NEW p \in Publisher, CutPublish(p)  PROVE PublishInv'
    BY <1>6, NoPublishFits, OneMoves DEF CutPublish, tables
  <1>7. ASSUME Tick \/ \E r \in Poster : PostStep(r)  PROVE PublishInv'
    BY <1>1, <1>7 DEF Tick, PostStep, Receive, Check, Insert, SetAside, StorageError, CutPost, tables
  <1>8. CASE UNCHANGED vars
    BY <1>1, <1>8 DEF vars, tables
  <1> QED
    BY <1>2, <1>3, <1>4, <1>5, <1>6, <1>7, <1>8, WriteKeeps DEF Next, PublishStep

\* A step publishes a new revision of the same or a later point, or none.
LEMMA NextPublishes ==
  ASSUME NoneIsApart, PublishInv, [Next]_vars
  PROVE  [Log!Publish]_(Log!vars)
  <1>1. CASE UNCHANGED <<pointer, history>>
    BY <1>1 DEF Log!vars
  <1>2. ASSUME NEW p \in Publisher, Write(p), Lands(publish[p])  PROVE Log!Publish
    <2> DEFINE q == publish[p]
               gen == IF pointer = None THEN 0 ELSE pointer.gen + 1
    <2>1. /\ pointer' = [snap |-> q.built, gen |-> gen]
          /\ history' = history \union {q.built}
      BY <1>2 DEF Write
    <2>2. /\ q.built # None /\ q.built.at = q.point
          /\ Fit(q) /\ PointerLeads
      BY <1>2 DEF PublishInv, Fit, Write
    <2>3. pointer' # None /\ pointer'.snap = q.built /\ pointer'.gen = gen
      BY <2>1 DEF NoneIsApart
    <2>4. CASE pointer = None
      BY <2>1, <2>2, <2>3, <2>4 DEF Log!Publish
    <2>5. CASE pointer # None
      <3>1. q.expect # None /\ q.expect = pointer /\ pointer.snap.at <= q.point
        BY <1>2, <2>2, <2>5 DEF Lands, Fit
      <3>2. pointer.snap # q.built /\ pointer.snap # None
        BY <2>2, <2>5, <3>1 DEF Fit, PointerLeads
      <3> QED
        BY <2>1, <2>2, <2>3, <2>5, <3>1, <3>2 DEF Log!Publish
    <2> QED
      BY <2>4, <2>5
  <1>3. CASE \E p \in Publisher : Write(p)
    BY <1>1, <1>2, <1>3 DEF Write
  <1>4. CASE Tick \/ \E r \in Poster : PostStep(r)
    BY <1>1, <1>4 DEF Tick, PostStep, Receive, Check, Insert, SetAside, StorageError, CutPost, tables
  <1>5. CASE \E p \in Publisher :
               PublishBegin(p) \/ Build(p) \/ Store(p) \/ Target(p) \/ CutPublish(p)
    BY <1>1, <1>5 DEF PublishBegin, Build, Store, Target, CutPublish, tables
  <1>6. CASE UNCHANGED vars
    BY <1>1, <1>6 DEF vars, tables
  <1> QED
    BY <1>3, <1>4, <1>5, <1>6 DEF Next, PublishStep

\* Publishing by any number of requests implements the publication log.
THEOREM ImplementsLog == ASSUME NoneIsApart PROVE Spec => Publishes
  <1>1. Init => PublishInv /\ Log!Init
    BY NoPublishFits DEF Init, PublishInv, PointerLeads, Log!Init
  <1>2. PublishInv /\ [Next]_vars => PublishInv'
    BY PublishNext
  <1>3. PublishInv /\ [Next]_vars => [Log!Publish]_(Log!vars)
    BY NextPublishes
  <1> QED
    BY <1>1, <1>2, <1>3, PTL DEF Spec, Publishes, Log!Spec

(* ---- points in time -------------------------------------------------------- *)

\* The as-of points, without the bound on time.
OnGrid(x) == \E k \in Nat : x = FirstPoint + k * Period

\* The grid starts with the month over, and goes on.
LEMMA GridStarts ==
  /\ OnGrid(FirstPoint)
  /\ \A x : OnGrid(x) => x \in Nat /\ x >= FirstPoint /\ OnGrid(x + Period)
  <1>1. OnGrid(FirstPoint)
    <2>1. FirstPoint = FirstPoint + 0 * Period
      BY PublicationAssumption
    <2> QED
      BY <2>1 DEF OnGrid
  <1>2. ASSUME NEW x, OnGrid(x)  PROVE x \in Nat /\ x >= FirstPoint /\ OnGrid(x + Period)
    <2>1. PICK k \in Nat : x = FirstPoint + k * Period
      BY <1>2 DEF OnGrid
    <2>2. k * Period \in Nat /\ (k + 1) * Period = k * Period + Period
      BY PublicationAssumption
    <2>3. x + Period = FirstPoint + (k + 1) * Period
      BY <2>1, <2>2, PublicationAssumption
    <2> QED
      BY <2>1, <2>2, <2>3, PublicationAssumption DEF OnGrid
  <1> QED
    BY <1>1, <1>2

\* Two different points are a period apart at least.
LEMMA GridGap ==
  ASSUME NEW x, NEW y, OnGrid(x), OnGrid(y), x < y
  PROVE  x + Period <= y
  <1>1. PICK k \in Nat : x = FirstPoint + k * Period
    BY DEF OnGrid
  <1>2. PICK j \in Nat : y = FirstPoint + j * Period
    BY DEF OnGrid
  <1>3. FirstPoint \in Nat /\ Period \in Nat /\ Period > 0
    BY PublicationAssumption
  <1>4. ~ j <= k
    <2>1. ASSUME j <= k PROVE j * Period <= k * Period
      BY <1>3, <2>1
    <2> QED
      BY <1>1, <1>2, <1>3, <2>1
  <1>5. (k + 1) * Period <= j * Period
    BY <1>3, <1>4
  <1>6. (k + 1) * Period = k * Period + Period
    BY <1>3
  <1> QED
    BY <1>1, <1>2, <1>3, <1>5, <1>6

\* Every as-of point of the model is on the grid.
LEMMA PointsAreOnGrid == \A q \in Point : OnGrid(q)
  <1> SUFFICES ASSUME NEW q \in Point  PROVE OnGrid(q)
    OBVIOUS
  <1>1. FirstPoint \in Nat /\ Period \in Nat /\ Period > 0
    BY PublicationAssumption
  <1>2. q \in Int /\ q >= FirstPoint /\ (q - FirstPoint) % Period = 0
    BY <1>1, PublicationAssumption DEF Point
  <1>3. PICK d \in Nat : d = q - FirstPoint
    BY <1>1, <1>2
  <1>a. \A a \in Nat, b \in Nat : b > 0 => a = b * (a \div b) + (a % b)
    BY SMT
  <1>b. \A a \in Nat, b \in Nat : b > 0 => a \div b \in Nat
    BY SMT
  <1>4. PICK k \in Nat : d = Period * k + (d % Period)
    BY <1>1, <1>3, <1>a, <1>b
  <1>5. q = FirstPoint + k * Period
    BY <1>1, <1>2, <1>3, <1>4
  <1> QED
    BY <1>5 DEF OnGrid

\* A row has been received, and what it tells occurred, at some time.
Dated(r) == r.at \in Nat /\ r.item.occurred \in Nat

\* A later point counts whatever an earlier one counts.
LEMMA LaterCountsMore ==
  ASSUME NEW rows, \A r \in rows : Dated(r), NEW x \in Nat, NEW y \in Nat, x <= y
  PROVE  /\ CohortEvents(rows, x) \subseteq CohortEvents(rows, y)
         /\ (\A r \in quarantine : Dated(r)) => WindowQuarantines(x) \subseteq WindowQuarantines(y)
  <1>1. Cohort(rows, x) \subseteq Cohort(rows, y)
    BY DEF Cohort, Dated
  <1> QED
    BY <1>1 DEF CohortEvents, WindowQuarantines, Dated

\* Rows that a point does not count do not change what it counts.
LEMMA RowsStay ==
  ASSUME NEW rows, NEW more, rows \subseteq more, NEW x,
         \A r \in more \ rows : ~ r.at <= x
  PROVE  CohortEvents(more, x) = CohortEvents(rows, x)
  <1>1. Cohort(more, x) = Cohort(rows, x)
    BY DEF Cohort
  <1> QED
    BY <1>1 DEF CohortEvents

\* When all a point counts was there before, it counts what it counted before: a
\* run whose start is new would itself be counted.
LEMMA OldCohort ==
  ASSUME NEW rows, NEW more, rows \subseteq more, \A r \in more : Dated(r),
         NEW x \in Nat, x >= FirstPoint, CohortEvents(more, x) \subseteq rows
  PROVE  CohortEvents(more, x) = CohortEvents(rows, x)
  <1>1. Cohort(rows, x) \subseteq Cohort(more, x)
    BY DEF Cohort
  <1>2. ASSUME NEW run \in Cohort(more, x)  PROVE run \in Cohort(rows, x)
    <2>1. PICK s \in more : /\ s.item.type = "run_started" /\ s.item.occurred < FirstPoint
                            /\ s.at <= x /\ s.item.run = run
      BY <1>2 DEF Cohort
    <2>2. s.item.occurred <= x
      BY <2>1, PublicationAssumption DEF Dated
    <2>3. s \in rows
      BY <1>2, <2>1, <2>2 DEF CohortEvents
    <2> QED
      BY <2>1, <2>3 DEF Cohort
  <1> QED
    BY <1>1, <1>2 DEF CohortEvents

(* ---- what a step makes of a request ---------------------------------------- *)

\* What a request becomes when it stores, verifies and aims at the pointer.
LEMMA RequestChanges ==
  ASSUME NEW q, Fit(q), NEW y
  PROVE  /\ [q EXCEPT !.pc = "store", !.built = y] = Request("store", q.now, q.seen, q.point, y, q.expect)
         /\ [q EXCEPT !.pc = "target"] = Request("target", q.now, q.seen, q.point, q.built, q.expect)
         /\ [q EXCEPT !.pc = "write"] = Request("write", q.now, q.seen, q.point, q.built, q.expect)
         /\ [q EXCEPT !.pc = "write", !.expect = y] = Request("write", q.now, q.seen, q.point, q.built, y)
  <1>1. PICK a, b, c, d, e, f : q = Request(a, b, c, d, e, f)
    BY DEF Fit
  <1>2. q.now = b /\ q.seen = c /\ q.point = d /\ q.built = e /\ q.expect = f
    BY <1>1 DEF Request
  <1>3. [q EXCEPT !.pc = "store", !.built = y] = Request("store", b, c, d, y, f)
    <2>1. [q EXCEPT !.pc = "store"] = Request("store", b, c, d, e, f)
      BY <1>1 DEF Request
    <2>2. [Request("store", b, c, d, e, f) EXCEPT !.built = y] = Request("store", b, c, d, y, f)
      BY DEF Request
    <2>3. [q EXCEPT !.pc = "store", !.built = y] = [[q EXCEPT !.pc = "store"] EXCEPT !.built = y]
      BY <1>1 DEF Request
    <2> QED
      BY <2>1, <2>2, <2>3
  <1>4. [q EXCEPT !.pc = "target"] = Request("target", b, c, d, e, f)
    BY <1>1 DEF Request
  <1>5. [q EXCEPT !.pc = "write"] = Request("write", b, c, d, e, f)
    BY <1>1 DEF Request
  <1>6. [q EXCEPT !.pc = "write", !.expect = y] = Request("write", b, c, d, e, y)
    <2>1. [Request("write", b, c, d, e, f) EXCEPT !.expect = y] = Request("write", b, c, d, e, y)
      BY DEF Request
    <2>2. [q EXCEPT !.pc = "write", !.expect = y] = [[q EXCEPT !.pc = "write"] EXCEPT !.expect = y]
      BY <1>1 DEF Request
    <2> QED
      BY <1>5, <2>1, <2>2
  <1> QED
    BY <1>2, <1>3, <1>4, <1>5, <1>6

\* The next point is built, or the request is over.
LEMMA NextPointIs ==
  ASSUME NEW q, Fit(q)
  PROVE  NextPoint(q) = IF q.point + Period <= q.now
                        THEN Request("build", q.now, q.seen, q.point + Period, None, None)
                        ELSE NoPublish
  <1>1. PICK a, b, c, d, e, f : q = Request(a, b, c, d, e, f)
    BY DEF Fit
  <1>2. q.now = b /\ q.seen = c /\ q.point = d
    BY <1>1 DEF Request
  <1>3. NextPoint(q) = IF d + Period <= b THEN Request("build", b, c, d + Period, None, None)
                       ELSE NoPublish
    <2>1. CASE d + Period <= b
      <3> DEFINE first  == Request("build", b, c, d, e, f)
                 second == Request("build", b, c, d + Period, e, f)
                 third  == Request("build", b, c, d + Period, None, f)
                 last   == Request("build", b, c, d + Period, None, None)
      <3>1. [q EXCEPT !.pc = "build"] = first
        BY <1>1 DEF Request
      <3>2. [first EXCEPT !.point = @ + Period] = second
        BY DEF Request
      <3>3. [second EXCEPT !.built = None] = third
        BY DEF Request
      <3>4. [third EXCEPT !.expect = None] = last
        BY DEF Request
      <3>5. NextPoint(q) = [[[[q EXCEPT !.pc = "build"] EXCEPT !.point = @ + Period]
                               EXCEPT !.built = None] EXCEPT !.expect = None]
        BY <1>1, <2>1 DEF NextPoint, Request
      <3> HIDE DEF first, second, third, last
      <3>6. NextPoint(q) = last
        BY <3>1, <3>2, <3>3, <3>4, <3>5
      <3> QED
        BY <2>1, <3>6 DEF last
    <2>2. CASE ~ d + Period <= b
      BY <1>1, <2>2 DEF NextPoint, Request
    <2> QED
      BY <2>1, <2>2
  <1> QED
    BY <1>2, <1>3

\* The request of one publisher becomes q; the others stay as they are.
Sent(p, q) ==
  /\ publish' = [publish EXCEPT ![p] = q]
  /\ publish'[p] = q
  /\ \A o \in Publisher \ {p} : publish'[o] = publish[o]

\* A request that begins is refused, or waits to build the first point.
LEMMA BeginMoves ==
  ASSUME PublishInv, NEW p \in Publisher, PublishBegin(p)
  PROVE  \/ publish' = publish
         \/ clock >= FirstPoint /\ Sent(p, Request("build", clock, events, FirstPoint, None, None))
  <1>1. publish' = publish \/ (clock >= FirstPoint /\ publish' = [publish EXCEPT ![p] =
          [NoPublish EXCEPT !.pc = "build", !.now = clock, !.seen = events, !.point = FirstPoint]])
    BY DEF PublishBegin
  <1> QED
    BY <1>1, BegunIs DEF Sent, PublishInv

\* A built snapshot is anchored to a verified one of the point before.
LEMMA BuildMoves ==
  ASSUME PublishInv, NEW p \in Publisher, Build(p), NEW q, q = publish[p]
  PROVE  \/ /\ q.point # FirstPoint /\ Verifiable(q.point - Period) = {}
            /\ Sent(p, NoPublish)
         \/ \E parent :
              /\ IF q.point = FirstPoint THEN parent = None
                 ELSE parent \in Verifiable(q.point - Period)
              /\ Sent(p, Request("store", q.now, q.seen, q.point,
                                 BuildSnapshot(q.seen, q.point, parent), q.expect))
  <1>1. Fit(q) /\ publish = [o \in Publisher |-> publish[o]]
    BY DEF PublishInv
  <1>2. ASSUME NEW parent, NEW s, s = BuildSnapshot(q.seen, q.point, parent),
               publish' = [publish EXCEPT ![p].pc = "store", ![p].built = s]
        PROVE  Sent(p, Request("store", q.now, q.seen, q.point, s, q.expect))
    <2>1. publish' = [publish EXCEPT ![p] = [q EXCEPT !.pc = "store", !.built = s]]
      BY <1>1, <1>2
    <2>2. [q EXCEPT !.pc = "store", !.built = s]
            = Request("store", q.now, q.seen, q.point, s, q.expect)
      BY <1>1, RequestChanges
    <2> QED
      BY <1>1, <2>1, <2>2 DEF Sent
  <1>3. CASE q.point = FirstPoint
    BY <1>2, <1>3 DEF Build
  <1>4. CASE q.point # FirstPoint /\ Verifiable(q.point - Period) = {}
    BY <1>1, <1>4 DEF Build, Sent
  <1>5. CASE q.point # FirstPoint /\ Verifiable(q.point - Period) # {}
    <2>1. PICK parent \in Verifiable(q.point - Period) :
            publish' = [publish EXCEPT ![p].pc = "store",
                          ![p].built = BuildSnapshot(q.seen, q.point, parent)]
      BY <1>5 DEF Build
    <2> QED
      BY <1>2, <1>5, <2>1
  <1> QED
    BY <1>3, <1>4, <1>5

\* What is stored has been verified with its lineage.
LEMMA StoreMoves ==
  ASSUME PublishInv, NEW p \in Publisher, Store(p), NEW q, q = publish[p]
  PROVE  \/ /\ VerifyStored(q.built) /\ VerifyLineage(q.built)
            /\ snapshots' = snapshots \union {q.built}
            /\ Sent(p, Request("target", q.now, q.seen, q.point, q.built, q.expect))
         \/ /\ ~ (VerifyStored(q.built) /\ VerifyLineage(q.built))
            /\ snapshots' = snapshots
            /\ Sent(p, NoPublish)
  <1>1. Fit(q) /\ publish = [o \in Publisher |-> publish[o]]
    BY DEF PublishInv
  <1>2. ASSUME publish' = [publish EXCEPT ![p].pc = "target"]
        PROVE  Sent(p, Request("target", q.now, q.seen, q.point, q.built, q.expect))
    <2>1. publish' = [publish EXCEPT ![p] = [q EXCEPT !.pc = "target"]]
      BY <1>2
    <2> QED
      BY <1>1, <2>1, RequestChanges DEF Sent
  <1>3. ASSUME publish' = [publish EXCEPT ![p] = NoPublish]  PROVE Sent(p, NoPublish)
    BY <1>1, <1>3 DEF Sent
  <1> QED
    BY <1>2, <1>3 DEF Store

\* The pointer is expected as it was read, unless there is nothing to do.
LEMMA TargetMoves ==
  ASSUME PublishInv, NEW p \in Publisher, Target(p), NEW q, q = publish[p]
  PROVE  \/ /\ pointer = None
            /\ Sent(p, Request("write", q.now, q.seen, q.point, q.built, q.expect))
         \/ /\ pointer # None /\ pointer.snap # q.built /\ ~ pointer.snap.at > q.point
            /\ Sent(p, Request("write", q.now, q.seen, q.point, q.built, pointer))
         \/ /\ pointer # None /\ (pointer.snap = q.built \/ pointer.snap.at > q.point)
            /\ Sent(p, NextPoint(q))
  <1>1. Fit(q) /\ publish = [o \in Publisher |-> publish[o]]
    BY DEF PublishInv
  <1>2. ASSUME NEW x, publish' = [publish EXCEPT ![p] = x]  PROVE Sent(p, x)
    BY <1>1, <1>2 DEF Sent
  <1>3. /\ [q EXCEPT !.pc = "write"] = Request("write", q.now, q.seen, q.point, q.built, q.expect)
        /\ [q EXCEPT !.pc = "write", !.expect = pointer]
             = Request("write", q.now, q.seen, q.point, q.built, pointer)
    BY <1>1, RequestChanges
  <1>4. CASE pointer = None
    BY <1>2, <1>3, <1>4 DEF Target
  <1>5. CASE pointer # None /\ (pointer.snap = q.built \/ pointer.snap.at > q.point)
    BY <1>2, <1>5 DEF Target
  <1>6. CASE pointer # None /\ ~ (pointer.snap = q.built \/ pointer.snap.at > q.point)
    BY <1>2, <1>3, <1>6 DEF Target
  <1> QED
    BY <1>4, <1>5, <1>6

\* Landed or not, the request goes on to the next point.
LEMMA WriteMoves ==
  ASSUME PublishInv, NEW p \in Publisher, Write(p)
  PROVE  Sent(p, NextPoint(publish[p]))
  BY DEF Write, Sent, PublishInv

\* A request cut off is forgotten.
LEMMA CutMoves ==
  ASSUME PublishInv, NEW p \in Publisher, CutPublish(p)
  PROVE  Sent(p, NoPublish)
  BY DEF CutPublish, Sent, PublishInv

(* ---- time ------------------------------------------------------------------ *)

\* Time is counted from 0; what a request carries and what is stored is dated.
PostsDated ==
  \A r \in Poster :
    /\ post[r].at \in Nat
    /\ post[r].pc # "idle" => post[r].rest \in Seq(Items) \ {<<>>}

Clocked ==
  /\ clock \in Nat
  /\ PostsDated
  /\ \A r \in events \union quarantine : Dated(r)

\* Requests are at an as-of point that has come, and what is stored or published is
\* of such a point.
OnTime ==
  /\ \A p \in Publisher : publish[p].pc # "idle" =>
       /\ OnGrid(publish[p].point) /\ publish[p].point <= publish[p].now
       /\ publish[p].now \in Nat /\ publish[p].now <= clock
  /\ \A s \in snapshots : OnGrid(s.at)
  /\ pointer # None => OnGrid(pointer.snap.at) /\ pointer.snap.at <= clock

TimeInv == PostShape /\ Clocked /\ PublishInv /\ OnTime

\* The clock does not go back, and no row or record is ever removed.
LEMMA TablesGrow ==
  ASSUME clock \in Nat, [Next]_vars
  PROVE  /\ clock' \in Nat /\ clock <= clock'
         /\ events \subseteq events' /\ quarantine \subseteq quarantine'
         /\ snapshots \subseteq snapshots' /\ history \subseteq history'
  <1>1. CASE Tick
    BY <1>1 DEF Tick, tables
  <1>2. CASE \E r \in Poster : PostStep(r)
    BY <1>2 DEF PostStep, Receive, Check, Insert, SetAside, StorageError, CutPost, tables
  <1>3. CASE \E p \in Publisher : PublishStep(p)
    BY <1>3 DEF PublishStep, PublishBegin, Build, Store, Target, Write, CutPublish, tables
  <1>4. CASE UNCHANGED vars
    BY <1>4 DEF vars, tables
  <1> QED
    BY <1>1, <1>2, <1>3, <1>4 DEF Next

\* The item at the head of a request is one of those requests carry.
LEMMA HeadIsItem ==
  ASSUME PostShape, PostsDated, NEW r \in Poster, post[r].pc # "idle"
  PROVE  /\ Head(post[r].rest) \in Items
         /\ AfterItem(r).at \in Nat
         /\ AfterItem(r).pc # "idle" => AfterItem(r).rest \in Seq(Items) \ {<<>>}
  <1>1. PICK a, b, c : post[r] = [pc |-> a, rest |-> b, at |-> c]
    BY DEF PostShape
  <1>2. b \in Seq(Items) /\ b # <<>> /\ c \in Nat /\ post[r].rest = b
    BY <1>1 DEF PostsDated
  <1>3. CASE Len(b) = 1
    <2>1. AfterItem(r) = NoPost
      BY <1>2, <1>3 DEF AfterItem
    <2> QED
      BY <1>2, <2>1 DEF NoPost
  <1>4. CASE Len(b) # 1
    <2>1. Len(b) \in Nat /\ Len(b) > 1
      <3>1. Len(b) \in Nat \ {0}
        BY <1>2, EmptySeq, Zenon
      <3>2. PICK n \in Nat \ {0} : n = Len(b)
        BY <3>1
      <3>3. n > 1
        BY <1>4, <3>2
      <3> QED
        BY <3>2, <3>3
    <2>2. Tail(b) \in Seq(Items) /\ Len(Tail(b)) = Len(b) - 1
      BY <1>2, HeadTailProperties
    <2>3. Tail(b) # <<>>
      BY <2>1, <2>2
    <2>4. AfterItem(r) = [pc |-> "check", rest |-> Tail(b), at |-> c]
      <3> DEFINE t == Tail(b)
      <3>1. AfterItem(r) = [post[r] EXCEPT !.pc = "check", !.rest = t]
        BY <1>1, <1>2, <1>4 DEF AfterItem
      <3> HIDE DEF t
      <3>2. [post[r] EXCEPT !.pc = "check", !.rest = t]
              = [[post[r] EXCEPT !.pc = "check"] EXCEPT !.rest = t]
        BY <1>1
      <3>3. [post[r] EXCEPT !.pc = "check"] = [pc |-> "check", rest |-> b, at |-> c]
        BY <1>1
      <3>4. [[pc |-> "check", rest |-> b, at |-> c] EXCEPT !.rest = t]
              = [pc |-> "check", rest |-> t, at |-> c]
        OBVIOUS
      <3> QED
        BY <3>1, <3>2, <3>3, <3>4 DEF t
    <2> QED
      BY <1>2, <2>2, <2>3, <2>4
  <1> QED
    BY <1>3, <1>4

\* Only dated items become rows.
LEMMA ClockedNext ==
  ASSUME PostShape, Clocked, [Next]_vars
  PROVE  Clocked'
  <1>a. clock' \in Nat
    BY TablesGrow DEF Clocked
  <1>b. ASSUME NEW r \in Poster  PROVE post[r] = [pc |-> post[r].pc, rest |-> post[r].rest, at |-> post[r].at]
    BY DEF PostShape
  <1>1. CASE UNCHANGED <<post, events, quarantine>>
    BY <1>a, <1>1 DEF Clocked, PostsDated, Dated
  <1>2. ASSUME NEW r \in Poster, NEW x, post' = [post EXCEPT ![r] = x],
               x.at \in Nat, x.pc # "idle" => x.rest \in Seq(Items) \ {<<>>}
        PROVE  PostsDated'
    BY <1>2 DEF Clocked, PostsDated, PostShape
  <1>3. ASSUME NEW r \in Poster, NEW b \in Batches, Receive(r, b)  PROVE Clocked'
    <2> DEFINE x == [pc |-> "check", rest |-> b, at |-> clock]
    <2>1. post' = [post EXCEPT ![r] = x] /\ UNCHANGED <<events, quarantine>>
      BY <1>3 DEF Receive, tables
    <2>2. x.at \in Nat /\ x.rest \in Seq(Items) \ {<<>>}
      BY PublicationAssumption DEF Clocked
    <2> HIDE DEF x
    <2> QED
      BY <1>a, <1>2, <2>1, <2>2 DEF Clocked, Dated
  <1>4. ASSUME NEW r \in Poster, Check(r)  PROVE Clocked'
    <2>1. UNCHANGED <<events, quarantine>> /\ post[r].pc # "idle"
      BY <1>4 DEF Check, tables
    <2>2. CASE post' = [post EXCEPT ![r] = AfterItem(r)]
      <3> HIDE DEF AfterItem
      <3> QED
        BY <1>a, <1>2, <2>1, <2>2, HeadIsItem DEF Clocked, Dated
    <2>3. ASSUME NEW pc, post' = [post EXCEPT ![r] = [post[r] EXCEPT !.pc = pc]]  PROVE Clocked'
      <3> DEFINE x == [pc |-> pc, rest |-> post[r].rest, at |-> post[r].at]
      <3>1. post' = [post EXCEPT ![r] = x]
        BY <1>b, <2>3, PlaceChanges
      <3>2. x.at \in Nat /\ x.rest \in Seq(Items) \ {<<>>}
        BY <2>1 DEF Clocked, PostsDated
      <3> HIDE DEF x
      <3> QED
        BY <1>a, <1>2, <2>1, <3>1, <3>2 DEF Clocked, Dated
    <2> QED
      BY <1>4, <2>2, <2>3 DEF Check
  <1>5. ASSUME NEW r \in Poster, Insert(r) \/ SetAside(r)  PROVE Clocked'
    <2> DEFINE row == [item |-> Head(post[r].rest), at |-> post[r].at]
    <2>1. post[r].pc # "idle" /\ post' = [post EXCEPT ![r] = AfterItem(r)]
      BY <1>5 DEF Insert, SetAside
    <2>2. Dated(row)
      BY <2>1, HeadIsItem, PublicationAssumption DEF Clocked, PostsDated, Dated
    <2>3. events' \union quarantine' \subseteq events \union quarantine \union {row}
      BY <1>5 DEF Insert, SetAside
    <2>4. PostsDated'
      BY <1>2, <2>1, HeadIsItem DEF Clocked
    <2> QED
      BY <1>a, <2>2, <2>3, <2>4 DEF Clocked, Dated
  <1>6. ASSUME NEW r \in Poster, StorageError(r) \/ CutPost(r)  PROVE Clocked'
    <2>1. UNCHANGED <<events, quarantine>> /\ post[r].pc # "idle"
      BY <1>6 DEF StorageError, CutPost, tables
    <2>2. post' = [post EXCEPT ![r] = AfterItem(r)] \/ post' = [post EXCEPT ![r] = NoPost]
      BY <1>6 DEF StorageError, CutPost
    <2>3. NoPost.at \in Nat /\ NoPost.pc = "idle"
      BY DEF NoPost
    <2>4. PostsDated'
      BY <1>2, <2>1, <2>2, <2>3, HeadIsItem DEF Clocked
    <2> QED
      BY <1>a, <2>1, <2>4 DEF Clocked, Dated
  <1>7. CASE Tick \/ (\E p \in Publisher : PublishStep(p)) \/ UNCHANGED vars
    BY <1>1, <1>7 DEF Tick, PublishStep, PublishBegin, Build, Store, Target, Write, CutPublish,
                      vars, tables
  <1> QED
    BY <1>3, <1>4, <1>5, <1>6, <1>7 DEF Next, PostStep

\* What a request builds, it stores and publishes at its point.
LEMMA OnTimeNext ==
  ASSUME NoneIsApart, TimeInv, [Next]_vars
  PROVE  OnTime'
  <1> DEFINE Timely(q) == q.pc # "idle" =>
                            /\ OnGrid(q.point) /\ q.point <= q.now
                            /\ q.now \in Nat /\ q.now <= clock
  <1>a. clock \in Nat /\ clock' \in Nat /\ clock <= clock'
    BY TablesGrow DEF TimeInv, Clocked
  <1>b. \A p \in Publisher : Timely(publish[p]) /\ Fit(publish[p])
    BY DEF TimeInv, OnTime, PublishInv
  <1>c. \A p \in Publisher : Timely(publish'[p]) => Timely(publish[p])'
    BY <1>a
  <1>d. PublishInv
    BY DEF TimeInv
  <1>e. Timely(NoPublish)
    BY DEF NoPublish
  <1>f. ASSUME NEW p \in Publisher, publish[p].pc # "idle"  PROVE Timely(NextPoint(publish[p]))
    <2> DEFINE q == publish[p]
    <2>1. OnGrid(q.point + Period) /\ q.now \in Nat /\ q.now <= clock
      BY <1>b, <1>f, GridStarts
    <2>2. CASE q.point + Period <= q.now
      <3> DEFINE x == Request("build", q.now, q.seen, q.point + Period, None, None)
      <3>1. NextPoint(q) = x
        BY <1>b, <2>2, NextPointIs
      <3>2. x.now = q.now /\ x.point = q.point + Period
        BY DEF Request
      <3> HIDE DEF x
      <3> QED
        BY <2>1, <2>2, <3>1, <3>2
    <2>3. CASE ~ q.point + Period <= q.now
      BY <1>b, <1>e, <2>3, NextPointIs
    <2> QED
      BY <2>2, <2>3
  <1>g. pointer # None => OnGrid(pointer.snap.at) /\ pointer.snap.at <= clock'
    <2> SUFFICES ASSUME pointer # None PROVE OnGrid(pointer.snap.at) /\ pointer.snap.at <= clock'
      OBVIOUS
    <2>1. OnGrid(pointer.snap.at) /\ pointer.snap.at <= clock
      BY DEF TimeInv, OnTime
    <2>2. pointer.snap.at \in Nat
      BY <2>1, GridStarts
    <2> QED
      BY <1>a, <2>1, <2>2
  <1> HIDE DEF Timely
  <1>1. ASSUME NEW p \in Publisher, NEW x, Sent(p, x), Timely(x)
        PROVE  \A o \in Publisher : Timely(publish[o])'
    BY <1>1, <1>b, <1>c DEF Sent
  <1>2. ASSUME \A o \in Publisher : Timely(publish[o])', UNCHANGED <<snapshots, pointer>>
        PROVE  OnTime'
    BY <1>2, <1>a, GridStarts DEF OnTime, TimeInv, Timely, OnGrid
  <1>3. CASE UNCHANGED <<publish, snapshots, pointer>>
    BY <1>2, <1>3, <1>b, <1>c
  <1>4. ASSUME NEW p \in Publisher, PublishBegin(p)  PROVE OnTime'
    <2> DEFINE x == Request("build", clock, events, FirstPoint, None, None)
    <2>1. UNCHANGED <<snapshots, pointer>>
      BY <1>4 DEF PublishBegin, tables
    <2>2. CASE publish' = publish
      BY <1>3, <2>1, <2>2
    <2>3. CASE clock >= FirstPoint /\ Sent(p, x)
      <3>1. Timely(x)
        BY <1>a, <2>3, GridStarts DEF Timely, Request
      <3> QED
        BY <1>1, <1>2, <2>1, <2>3, <3>1
    <2> QED
      BY <1>4, <1>d, <2>2, <2>3, BeginMoves
  <1>5. ASSUME NEW p \in Publisher, publish[p].pc # "idle", NEW pc, NEW built, NEW expect,
               Sent(p, Request(pc, publish[p].now, publish[p].seen, publish[p].point, built, expect))
        PROVE  \A o \in Publisher : Timely(publish[o])'
    <2>1. Timely(Request(pc, publish[p].now, publish[p].seen, publish[p].point, built, expect))
      BY <1>5, <1>b DEF Timely, Request
    <2> QED
      BY <1>1, <1>5, <2>1
  <1>6. ASSUME NEW p \in Publisher, Build(p)  PROVE OnTime'
    <2>1. UNCHANGED <<snapshots, pointer>> /\ publish[p].pc # "idle"
      BY <1>6 DEF Build, tables
    <2> QED
      BY <1>1, <1>2, <1>5, <1>6, <1>d, <1>e, <2>1, BuildMoves
  <1>7. ASSUME NEW p \in Publisher, Store(p)  PROVE OnTime'
    <2> DEFINE q == publish[p]
    <2>1. UNCHANGED pointer /\ q.pc = "store"
      BY <1>7 DEF Store
    <2>2. OnGrid(q.built.at)
      BY <1>b, <2>1 DEF Fit, Timely
    <2>3. snapshots' \subseteq snapshots \union {q.built}
      BY <1>7, <1>d, StoreMoves
    <2>4. \A o \in Publisher : Timely(publish[o])'
      BY <1>1, <1>5, <1>7, <1>d, <1>e, <2>1, StoreMoves
    <2>5. \A s \in snapshots' : OnGrid(s.at)
      BY <2>2, <2>3 DEF TimeInv, OnTime
    <2> QED
      BY <1>g, <2>1, <2>4, <2>5 DEF OnTime, Timely, OnGrid
  <1>8. ASSUME NEW p \in Publisher, Target(p)  PROVE OnTime'
    <2>1. UNCHANGED <<snapshots, pointer>> /\ publish[p].pc # "idle"
      BY <1>8 DEF Target, tables
    <2> QED
      BY <1>1, <1>2, <1>5, <1>8, <1>d, <1>f, <2>1, TargetMoves
  <1>9. ASSUME NEW p \in Publisher, Write(p)  PROVE OnTime'
    <2> DEFINE q == publish[p]
    <2>1. UNCHANGED snapshots /\ q.pc = "write"
      BY <1>9 DEF Write
    <2>2. OnGrid(q.built.at) /\ q.built.at <= clock'
      <3>1. OnGrid(q.point) /\ q.point <= q.now /\ q.now \in Nat /\ q.now <= clock
            /\ q.built.at = q.point
        BY <1>b, <2>1 DEF Fit, Timely
      <3> QED
        BY <1>a, <3>1, GridStarts
    <2>3. \A o \in Publisher : Timely(publish[o])'
      BY <1>1, <1>9, <1>d, <1>f, <2>1, WriteMoves
    <2>4. pointer' = pointer \/ pointer'.snap = q.built
      BY <1>9 DEF Write
    <2>5. pointer' # None => OnGrid(pointer'.snap.at) /\ pointer'.snap.at <= clock'
      <3>1. CASE pointer' = pointer
        BY <1>g, <3>1
      <3> QED
        BY <2>2, <2>4, <3>1
    <2> QED
      BY <2>1, <2>3, <2>5 DEF OnTime, TimeInv, Timely, OnGrid
  <1>10. ASSUME NEW p \in Publisher, CutPublish(p)  PROVE OnTime'
    <2>1. UNCHANGED <<snapshots, pointer>>
      BY <1>10 DEF CutPublish, tables
    <2> QED
      BY <1>1, <1>2, <1>10, <1>d, <1>e, <2>1, CutMoves
  <1>11. CASE Tick \/ (\E r \in Poster : PostStep(r)) \/ UNCHANGED vars
    BY <1>3, <1>11 DEF Tick, PostStep, Receive, Check, Insert, SetAside, StorageError, CutPost,
                       vars, tables
  <1> QED
    BY <1>4, <1>6, <1>7, <1>8, <1>9, <1>10, <1>11 DEF Next, PublishStep

\* At the start there is nothing.
LEMMA TimeInit == Init => TimeInv
  BY NoPublishFits DEF Init, TimeInv, PostShape, Clocked, PostsDated, PublishInv, PointerLeads,
                       OnTime, NoPost, NoPublish

\* Every step preserves the order in time.
LEMMA TimeNext ==
  ASSUME NoneIsApart, TimeInv, [Next]_vars
  PROVE  TimeInv'
  <1>1. PostShape'
    <2>1. CASE Next
      BY <2>1, PostsMove DEF TimeInv
    <2>2. CASE UNCHANGED vars
      BY <2>2 DEF vars, TimeInv, PostShape
    <2> QED
      BY <2>1, <2>2
  <1> QED
    BY <1>1, ClockedNext, PublishNext, OnTimeNext DEF TimeInv

\* A new row has been received at some time.
LEMMA NewRowsDated ==
  ASSUME PostShape, Clocked, [Next]_vars
  PROVE  \A r \in events' \union quarantine' : Dated(r)
  BY ClockedNext DEF Clocked, Dated

\* What verified verifies, as long as no row of its past is added.
LEMMA StaysVerified ==
  ASSUME NEW s, VerifyStored(s), events \subseteq events', quarantine \subseteq quarantine',
         \A r \in (events' \ events) \union (quarantine' \ quarantine) : ~ r.at <= s.at
  PROVE  VerifyStored(s)'
  <1>1. CohortEvents(events', s.at) = CohortEvents(events, s.at)
    BY RowsStay
  <1>2. WindowQuarantines(s.at)' = WindowQuarantines(s.at)
    BY DEF WindowQuarantines
  <1>3. VerifyStored(s)' <=> s = [at |-> s.at, parent |-> s.parent,
                                  rows |-> CohortEvents(events', s.at),
                                  set_aside |-> WindowQuarantines(s.at)']
    BY DEF VerifyStored, BuildSnapshot, CohortEvents, Cohort, WindowQuarantines
  <1> QED
    BY <1>1, <1>2, <1>3 DEF VerifyStored, BuildSnapshot

\* So does its lineage, whose points are earlier.
LEMMA LineageStays ==
  ASSUME NEW s \in snapshots, VerifyLineage(s), \A t \in snapshots : t.at \in Nat,
         events \subseteq events', quarantine \subseteq quarantine', snapshots \subseteq snapshots',
         \A r \in (events' \ events) \union (quarantine' \ quarantine) : r.at \in Nat /\ ~ r.at <= s.at
  PROVE  VerifyLineage(s)'
  <1>1. PICK chain \in SUBSET snapshots :
          \A t \in chain \union {s} :
            t.parent # None => /\ t.parent \in chain
                               /\ VerifyStored(t.parent)
                               /\ t.parent.at = t.at - Period
    BY DEF VerifyLineage
  <1> DEFINE past == {t \in chain : t.at <= s.at}
  <1>2. \A t \in past \union {s} :
          t.parent # None => /\ t.parent \in past
                             /\ VerifyStored(t.parent)'
                             /\ t.parent.at = t.at - Period
    <2> SUFFICES ASSUME NEW t \in past \union {s}, t.parent # None
                 PROVE  /\ t.parent \in past
                        /\ VerifyStored(t.parent)'
                        /\ t.parent.at = t.at - Period
      OBVIOUS
    <2>1. t.parent \in chain /\ VerifyStored(t.parent) /\ t.parent.at = t.at - Period
      BY <1>1
    <2>2. t.at \in Nat /\ s.at \in Nat /\ t.parent.at \in Nat /\ t.at <= s.at
      BY <1>1, <2>1
    <2>3. t.parent.at <= s.at
      BY <2>1, <2>2, PublicationAssumption
    <2>4. \A r \in (events' \ events) \union (quarantine' \ quarantine) : ~ r.at <= t.parent.at
      BY <2>2, <2>3
    <2>5. VerifyStored(t.parent)'
      <3> DEFINE u == t.parent
      <3> HIDE DEF u
      <3>1. VerifyStored(u) /\ \A r \in (events' \ events) \union (quarantine' \ quarantine) : ~ r.at <= u.at
        BY <2>1, <2>4 DEF u
      <3>2. VerifyStored(u)'
        BY <3>1, StaysVerified
      <3> QED
        BY <3>2 DEF u
    <2> QED
      BY <2>1, <2>3, <2>5
  <1> QED
    BY <1>2 DEF VerifyLineage

\* What is served stays served, unless a row of its past is stored after the fact.
THEOREM ServedStaysServed == ASSUME NoneIsApart PROVE Spec => PublishedStays
  <1> DEFINE Stays == \A s \in history :
        (FunnelServes(s) /\ ~FunnelServes(s)') =>
          \E r \in (events' \ events) \union (quarantine' \ quarantine) : r.at <= s.at
  <1>1. TimeInv /\ [Next]_vars => Stays
    <2> SUFFICES ASSUME TimeInv, [Next]_vars, NEW s \in history, FunnelServes(s),
                        \A r \in (events' \ events) \union (quarantine' \ quarantine) : ~ r.at <= s.at
                 PROVE  FunnelServes(s)'
      OBVIOUS
    <2>1. /\ clock \in Nat /\ clock' \in Nat /\ clock <= clock'
          /\ events \subseteq events' /\ quarantine \subseteq quarantine'
          /\ snapshots \subseteq snapshots' /\ history \subseteq history'
      BY TablesGrow DEF TimeInv, Clocked
    <2>2. /\ s \in snapshots /\ s.at <= clock
          /\ VerifyStored(s) /\ VerifyLineage(s)
      BY DEF FunnelServes
    <2>3. \A t \in snapshots : t.at \in Nat
      BY GridStarts DEF TimeInv, OnTime
    <2>4. \A r \in events' \union quarantine' : r.at \in Nat
      BY NewRowsDated DEF TimeInv, Dated
    <2>5. VerifyStored(s)'
      BY <2>1, <2>2, StaysVerified
    <2>6. VerifyLineage(s)'
      BY <2>1, <2>2, <2>3, <2>4, LineageStays
    <2>7. s.at <= clock'
      BY <2>1, <2>2, <2>3
    <2> QED
      BY <2>1, <2>2, <2>5, <2>6, <2>7 DEF FunnelServes, HasPublishedRevision
  <1>2. TimeInv /\ [Next]_vars => TimeInv'
    BY TimeNext
  <1> QED
    BY <1>1, <1>2, TimeInit, PTL DEF Spec, PublishedStays

(* ---- repair ---------------------------------------------------------------- *)

\* What is stored counts rows that are there; its parent is stored, of the point
\* before, and verifies whenever it does.
ParentHolds(s) ==
  s.parent # None =>
    /\ s.parent \in snapshots
    /\ s.parent.at = s.at - Period
    /\ VerifyStored(s) => VerifyStored(s.parent)

Chained ==
  \A s \in snapshots :
    /\ s.rows \subseteq events /\ s.set_aside \subseteq quarantine
    /\ ParentHolds(s)

\* A request nobody has interfered with knows the events and the pointer as they
\* are, finds an anchor, and has built, and then stored, what verifies.
Repairing(q, target, stored) ==
  q.pc # "idle" =>
    /\ q.seen = events
    /\ target # None => target.snap.at <= q.now
    /\ q.pc = "build" /\ q.point # FirstPoint =>
         \E s \in stored : s.at = q.point - Period /\ VerifyStored(s)
    /\ q.pc \in {"store", "target", "write"} => VerifyStored(q.built)
    /\ q.pc = "store" /\ q.built.parent # None =>
         /\ q.built.parent \in stored /\ q.built.parent.at = q.point - Period
         /\ VerifyStored(q.built.parent)
    /\ q.pc \in {"target", "write"} => q.built \in stored
    /\ q.pc = "write" => q.expect = target /\ (target # None => target.snap.at <= q.point)

Undisturbed ==
  alone # None =>
    /\ alone \in Publisher
    /\ \A o \in Publisher \ {alone} : publish[o].pc = "idle"
    /\ \A r \in Poster : post[r].pc = "idle"
    /\ Repairing(publish[alone], pointer, snapshots)

HealInv == TimeInv /\ Chained /\ Undisturbed

\* A snapshot that verifies now, while all it counts was there before, verified
\* before, and what an earlier point counts has not changed either.
LEMMA EarlierPointsStay ==
  ASSUME events \subseteq events', quarantine \subseteq quarantine',
         \A r \in events' \union quarantine' : Dated(r),
         NEW s, OnGrid(s.at), VerifyStored(s)',
         s.rows \subseteq events, s.set_aside \subseteq quarantine,
         NEW x, OnGrid(x), x <= s.at
  PROVE  /\ CohortEvents(events', x) = CohortEvents(events, x)
         /\ WindowQuarantines(x)' = WindowQuarantines(x)
  <1>1. s.at \in Nat /\ x \in Nat /\ x >= FirstPoint
    BY GridStarts
  <1>2. s.rows = CohortEvents(events', s.at) /\ s.set_aside = WindowQuarantines(s.at)'
    BY DEF VerifyStored, BuildSnapshot, CohortEvents, Cohort, WindowQuarantines
  <1>3. CohortEvents(events', x) \subseteq CohortEvents(events', s.at)
    BY <1>1, LaterCountsMore
  <1>4. CohortEvents(events', x) = CohortEvents(events, x)
    BY <1>1, <1>2, <1>3, OldCohort
  <1>5. WindowQuarantines(x)' \subseteq WindowQuarantines(s.at)'
    BY <1>1 DEF WindowQuarantines, Dated
  <1>6. WindowQuarantines(x)' \subseteq quarantine
    BY <1>2, <1>5
  <1>7. WindowQuarantines(x)' = WindowQuarantines(x)
    BY <1>6 DEF WindowQuarantines
  <1> QED
    BY <1>4, <1>7

\* A point that counts what it counted verifies what it verified.
LEMMA VerifiesBoth ==
  ASSUME NEW s, CohortEvents(events', s.at) = CohortEvents(events, s.at),
         WindowQuarantines(s.at)' = WindowQuarantines(s.at)
  PROVE  VerifyStored(s)' <=> VerifyStored(s)
  <1>1. VerifyStored(s)' <=> s = [at |-> s.at, parent |-> s.parent,
                                  rows |-> CohortEvents(events', s.at),
                                  set_aside |-> WindowQuarantines(s.at)']
    BY DEF VerifyStored, BuildSnapshot, CohortEvents, Cohort, WindowQuarantines
  <1> QED
    BY <1>1 DEF VerifyStored, BuildSnapshot

\* New rows leave the chain as it is.
LEMMA RowsKeepChain ==
  ASSUME Chained, \A s \in snapshots : OnGrid(s.at), UNCHANGED snapshots,
         events \subseteq events', quarantine \subseteq quarantine',
         \A r \in events' \union quarantine' : Dated(r)
  PROVE  Chained'
  <1> SUFFICES ASSUME NEW s \in snapshots
               PROVE  /\ s.rows \subseteq events' /\ s.set_aside \subseteq quarantine'
                      /\ s.parent # None => /\ s.parent \in snapshots
                                            /\ s.parent.at = s.at - Period
                                            /\ VerifyStored(s)' => VerifyStored(s.parent)'
    BY DEF Chained, ParentHolds
  <1>1. s.rows \subseteq events /\ s.set_aside \subseteq quarantine /\ OnGrid(s.at)
    BY DEF Chained
  <1>2. ASSUME s.parent # None, VerifyStored(s)'
        PROVE  VerifyStored(s.parent)'
    <2> DEFINE t == s.parent
    <2>1. t \in snapshots /\ t.at = s.at - Period /\ (VerifyStored(s) => VerifyStored(t))
      BY <1>2 DEF Chained, ParentHolds
    <2>2. OnGrid(t.at) /\ t.at <= s.at /\ s.at <= s.at
      <3>1. OnGrid(t.at)
        BY <2>1
      <3>2. s.at \in Nat /\ Period \in Nat
        BY <1>1, GridStarts, PublicationAssumption
      <3> QED
        BY <2>1, <3>1, <3>2
    <2>3. VerifyStored(s)
      BY <1>1, <1>2, <2>2, EarlierPointsStay, VerifiesBoth
    <2> HIDE DEF t
    <2>4. VerifyStored(t)'
      BY <1>1, <1>2, <2>1, <2>2, <2>3, EarlierPointsStay, VerifiesBoth
    <2> QED
      BY <2>4 DEF t
  <1> QED
    BY <1>1, <1>2 DEF Chained, ParentHolds

\* What verifies with its parent is served with its whole lineage.
LEMMA LineageHolds ==
  ASSUME Chained, NEW s,
         s.parent # None => /\ s.parent \in snapshots /\ VerifyStored(s.parent)
                            /\ s.parent.at = s.at - Period
  PROVE  VerifyLineage(s)
  <1> DEFINE chain == {t \in snapshots : VerifyStored(t)}
  <1>1. ASSUME NEW t \in chain \union {s}, t.parent # None
        PROVE  t.parent \in chain /\ VerifyStored(t.parent) /\ t.parent.at = t.at - Period
    BY <1>1 DEF Chained, ParentHolds
  <1> QED
    BY <1>1 DEF VerifyLineage

\* What is stored and verifies is served with its lineage.
LEMMA LineageOfStored ==
  ASSUME Chained, NEW s \in snapshots, VerifyStored(s)
  PROVE  VerifyLineage(s)
  BY LineageHolds DEF Chained, ParentHolds

\* What is stored after verification extends the chain.
LEMMA StoreKeepsChain ==
  ASSUME Chained, NEW s, VerifyStored(s), VerifyLineage(s),
         snapshots' = snapshots \union {s}, UNCHANGED <<events, quarantine>>
  PROVE  Chained'
  <1>1. \A t : VerifyStored(t)' <=> VerifyStored(t)
    BY DEF VerifyStored, BuildSnapshot, CohortEvents, Cohort, WindowQuarantines
  <1>2. s.rows \subseteq events /\ s.set_aside \subseteq quarantine
    BY DEF VerifyStored, BuildSnapshot, CohortEvents, WindowQuarantines
  <1>3. s.parent # None =>
          s.parent \in snapshots /\ VerifyStored(s.parent) /\ s.parent.at = s.at - Period
    BY DEF VerifyLineage
  <1>4. \A t \in snapshots' :
          /\ t.rows \subseteq events /\ t.set_aside \subseteq quarantine
          /\ t.parent # None => /\ t.parent \in snapshots'
                                /\ t.parent.at = t.at - Period
                                /\ VerifyStored(t) => VerifyStored(t.parent)
    BY <1>2, <1>3 DEF Chained, ParentHolds
  <1> QED
    BY <1>1, <1>4 DEF Chained, ParentHolds

\* Every step leaves the chain whole.
LEMMA ChainedNext ==
  ASSUME TimeInv, Chained, [Next]_vars
  PROVE  Chained'
  <1>1. \A s \in snapshots : OnGrid(s.at)
    BY DEF TimeInv, OnTime
  <1>2. /\ events \subseteq events' /\ quarantine \subseteq quarantine'
        /\ \A r \in events' \union quarantine' : Dated(r)
    BY TablesGrow, NewRowsDated DEF TimeInv, Clocked
  <1>3. CASE UNCHANGED snapshots
    BY <1>1, <1>2, <1>3, RowsKeepChain
  <1>4. ASSUME NEW p \in Publisher, Store(p), ~ UNCHANGED snapshots  PROVE Chained'
    <2>1. UNCHANGED <<events, quarantine>>
      BY <1>4 DEF Store
    <2>2. PICK s : VerifyStored(s) /\ VerifyLineage(s) /\ snapshots' = snapshots \union {s}
      BY <1>4 DEF Store
    <2> QED
      BY <2>1, <2>2, StoreKeepsChain
  <1>5. UNCHANGED snapshots \/ \E p \in Publisher : Store(p)
    BY DEF Next, Tick, PostStep, PublishStep, Receive, Check, Insert, SetAside, StorageError,
           CutPost, PublishBegin, Build, Target, Write, CutPublish, vars, tables
  <1> QED
    BY <1>3, <1>4, <1>5

\* A step of the undisturbed publisher itself, in which rows stay as they are.
LEMMA RepairGoesOn ==
  ASSUME Undisturbed, NEW p \in Publisher, alone = p, alone' = p, NEW q, Sent(p, q),
         UNCHANGED <<events, quarantine, post>>, Repairing(q, pointer', snapshots')
  PROVE  Undisturbed'
  <1>1. \A t : VerifyStored(t)' <=> VerifyStored(t)
    BY DEF VerifyStored, BuildSnapshot, CohortEvents, Cohort, WindowQuarantines
  <1>2. Repairing(q, pointer', snapshots') <=> Repairing(publish[alone], pointer, snapshots)'
    BY <1>1 DEF Repairing, Sent
  <1>3. p # None
    BY PublicationAssumption
  <1>4. \A o \in Publisher \ {p} : publish'[o].pc = "idle"
    BY <1>3 DEF Undisturbed, Sent
  <1> QED
    BY <1>2, <1>3, <1>4 DEF Undisturbed

\* A request that is over has nothing left to repair.
LEMMA IdleRepairs ==
  ASSUME NEW target, NEW stored
  PROVE  Repairing(NoPublish, target, stored)
  BY DEF Repairing, NoPublish

\* Where a step of an undisturbed request leads: it never fails, and it goes on to
\* the next point from a snapshot of this one that is stored and verifies.
LEMMA RepairProceeds ==
  ASSUME HealInv, NEW p \in Publisher, alone = p, NEW q, q = publish[p], q.pc # "idle",
         NEW s \in snapshots, VerifyStored(s), s.at = q.point,
         NEW target, target # None => target.snap.at <= q.now
  PROVE  Repairing(NextPoint(q), target, snapshots)
  <1>1. Fit(q) /\ q.seen = events
    <2>1. alone # None
      BY PublicationAssumption
    <2> QED
      BY <2>1 DEF HealInv, TimeInv, PublishInv, Undisturbed, Repairing
  <1>2. CASE q.point + Period <= q.now
    <2> DEFINE x == Request("build", q.now, q.seen, q.point + Period, None, None)
    <2>1. NextPoint(q) = x
      BY <1>1, <1>2, NextPointIs
    <2>2. /\ x.pc = "build" /\ x.seen = events /\ x.now = q.now
          /\ x.point = q.point + Period
      BY <1>1 DEF Request
    <2>3. (q.point + Period) - Period = q.point
      <3>1. q.point \in Nat
        BY GridStarts DEF HealInv, TimeInv, OnTime
      <3> QED
        BY <3>1, PublicationAssumption
    <2> HIDE DEF x
    <2>4. x.point - Period = s.at
      BY <2>2, <2>3
    <2>5. target # None => target.snap.at <= x.now
      BY <2>2
    <2>6. Repairing(x, target, snapshots)
      BY <2>2, <2>4, <2>5 DEF Repairing
    <2> QED
      BY <2>1, <2>6
  <1>3. CASE ~ q.point + Period <= q.now
    BY <1>1, <1>3, NextPointIs, IdleRepairs
  <1> QED
    BY <1>2, <1>3

\* An undisturbed request finds its anchor.
LEMMA BuildRepairs ==
  ASSUME HealInv, NEW p \in Publisher, alone = p, Build(p)
  PROVE  /\ Undisturbed'
         /\ publish'[p].pc # "idle"
  <1> DEFINE q == publish[p]
  <1>1. q.pc = "build" /\ alone' = p /\ UNCHANGED <<events, quarantine, post, pointer, snapshots>>
    BY DEF Build, Disturb, tables
  <1>2. alone # None
    BY PublicationAssumption
  <1>3. Repairing(q, pointer, snapshots) /\ Undisturbed /\ PublishInv
    BY <1>2 DEF HealInv, TimeInv, Undisturbed
  <1>4. /\ q.seen = events /\ (pointer # None => pointer.snap.at <= q.now)
        /\ q.point # FirstPoint => Verifiable(q.point - Period) # {}
    BY <1>1, <1>3 DEF Repairing, Verifiable, SnapshotsAt
  <1>5. PICK parent :
          /\ IF q.point = FirstPoint THEN parent = None
             ELSE parent \in Verifiable(q.point - Period)
          /\ Sent(p, Request("store", q.now, q.seen, q.point,
                             BuildSnapshot(q.seen, q.point, parent), q.expect))
    BY <1>3, <1>4, BuildMoves
  <1> DEFINE s == BuildSnapshot(q.seen, q.point, parent)
             x == Request("store", q.now, q.seen, q.point, s, q.expect)
  <1>6. /\ x.pc = "store" /\ x.now = q.now /\ x.seen = q.seen /\ x.point = q.point
        /\ x.built = s
    BY DEF Request
  <1>7. VerifyStored(s) /\ s.parent = parent
    BY <1>4 DEF VerifyStored, BuildSnapshot
  <1>8. parent # None =>
          parent \in snapshots /\ parent.at = q.point - Period /\ VerifyStored(parent)
    BY <1>5 DEF Verifiable, SnapshotsAt
  <1> HIDE DEF s, x
  <1>9. Repairing(x, pointer, snapshots)
    BY <1>4, <1>6, <1>7, <1>8 DEF Repairing
  <1>10. Sent(p, x)
    BY <1>5 DEF s, x
  <1>11. Undisturbed'
    BY <1>1, <1>3, <1>9, <1>10, RepairGoesOn
  <1> QED
    BY <1>6, <1>10, <1>11 DEF Sent

\* What an undisturbed request has built is stored.
LEMMA StoreRepairs ==
  ASSUME HealInv, NEW p \in Publisher, alone = p, Store(p)
  PROVE  /\ Undisturbed'
         /\ publish'[p].pc # "idle"
  <1> DEFINE q == publish[p]
             s == q.built
             x == Request("target", q.now, q.seen, q.point, s, q.expect)
  <1>1. q.pc = "store" /\ alone' = p /\ UNCHANGED <<events, quarantine, post, pointer>>
    BY DEF Store, Disturb
  <1>2. alone # None
    BY PublicationAssumption
  <1>3. Repairing(q, pointer, snapshots) /\ Undisturbed /\ PublishInv /\ Chained
    BY <1>2 DEF HealInv, TimeInv, Undisturbed
  <1>4. /\ q.seen = events /\ (pointer # None => pointer.snap.at <= q.now)
        /\ VerifyStored(s)
        /\ s.parent # None => /\ s.parent \in snapshots /\ s.parent.at = q.point - Period
                              /\ VerifyStored(s.parent)
    BY <1>1, <1>3 DEF Repairing
  <1>5. s.at = q.point
    BY <1>1, <1>3 DEF PublishInv, Fit
  <1>6. VerifyLineage(s)
    BY <1>3, <1>4, <1>5, LineageHolds
  <1>7. snapshots' = snapshots \union {s} /\ Sent(p, x)
    BY <1>3, <1>4, <1>6, StoreMoves
  <1>8. x.pc = "target" /\ x.now = q.now /\ x.seen = q.seen /\ x.point = q.point /\ x.built = s
    BY DEF Request
  <1> HIDE DEF s, x
  <1>9. Repairing(x, pointer, snapshots')
    BY <1>4, <1>7, <1>8 DEF Repairing
  <1>10. Undisturbed'
    BY <1>1, <1>3, <1>7, <1>9, RepairGoesOn
  <1> QED
    BY <1>7, <1>8, <1>10 DEF Sent

\* A snapshot that "latest" would serve, of the last point reached.
Serves(s, now) ==
  /\ s \in snapshots /\ s.at <= clock
  /\ VerifyStored(s) /\ VerifyLineage(s)
  /\ \A x \in Point : x <= now => x <= s.at

\* A stored snapshot that verifies serves, at the last point of its request.
LEMMA LastPointServes ==
  ASSUME Chained, clock \in Nat, NEW s \in snapshots, VerifyStored(s), OnGrid(s.at),
         NEW now \in Nat, now <= clock, s.at <= now, ~ s.at + Period <= now
  PROVE  Serves(s, now)
  <1>1. VerifyLineage(s)
    BY LineageOfStored
  <1>2. s.at \in Nat
    BY GridStarts
  <1>3. ASSUME NEW x \in Point, x <= now  PROVE x <= s.at
    <2>1. OnGrid(x) /\ x \in Nat
      BY PointsAreOnGrid, GridStarts
    <2>2. ~ s.at < x
      <3>1. ASSUME s.at < x  PROVE s.at + Period <= now
        <4>1. s.at + Period <= x
          BY <2>1, <3>1, GridGap
        <4> QED
          BY <1>2, <1>3, <2>1, <4>1, PublicationAssumption
      <3> QED
        BY <3>1
    <2> QED
      BY <1>2, <2>1, <2>2
  <1> QED
    BY <1>1, <1>2, <1>3 DEF Serves

\* An undisturbed request that finds the pointer in place leaves it serving.
LEMMA TargetRepairs ==
  ASSUME HealInv, NEW p \in Publisher, alone = p, Target(p)
  PROVE  /\ Undisturbed'
         /\ publish'[p].pc = "idle" =>
              pointer' # None /\ Serves(pointer'.snap, publish[p].now)
  <1> DEFINE q == publish[p]
             s == q.built
  <1>1. /\ q.pc = "target" /\ alone' = p
        /\ UNCHANGED <<events, quarantine, post, pointer, snapshots>>
    BY DEF Target, Disturb, tables
  <1>2. alone # None
    BY PublicationAssumption
  <1>3. /\ Repairing(q, pointer, snapshots) /\ Undisturbed /\ PublishInv /\ Chained /\ TimeInv
        /\ Fit(q)
    BY <1>2 DEF HealInv, TimeInv, Undisturbed, PublishInv
  <1>4. /\ q.seen = events /\ (pointer # None => pointer.snap.at <= q.now)
        /\ VerifyStored(s) /\ s \in snapshots /\ s.at = q.point /\ q.expect = None
    BY <1>1, <1>3 DEF Repairing, Fit
  <1>5. /\ OnGrid(q.point) /\ q.now \in Nat /\ q.now <= clock /\ clock \in Nat
        /\ q.point <= q.now /\ q.point \in Nat
        /\ pointer # None => OnGrid(pointer.snap.at) /\ pointer.snap.at \in Nat
    BY <1>1, <1>3, GridStarts DEF TimeInv, OnTime, Clocked
  <1>6. ASSUME NEW target, target = pointer, pointer # None => pointer.snap.at <= q.point,
               Sent(p, Request("write", q.now, q.seen, q.point, s, target))
        PROVE  Undisturbed' /\ publish'[p].pc # "idle"
    <2> DEFINE x == Request("write", q.now, q.seen, q.point, s, target)
    <2>1. /\ x.pc = "write" /\ x.now = q.now /\ x.seen = q.seen /\ x.point = q.point
          /\ x.built = s /\ x.expect = pointer
      BY <1>6 DEF Request
    <2>2. Sent(p, x)
      BY <1>6
    <2> HIDE DEF x
    <2>3. Repairing(x, pointer, snapshots)
      BY <1>4, <1>6, <2>1 DEF Repairing
    <2>4. Undisturbed'
      BY <1>1, <1>3, <2>2, <2>3, RepairGoesOn
    <2> QED
      BY <2>1, <2>2, <2>4 DEF Sent
  <1>7. CASE pointer = None /\ Sent(p, Request("write", q.now, q.seen, q.point, s, q.expect))
    BY <1>4, <1>6, <1>7
  <1>8. CASE /\ pointer # None /\ ~ pointer.snap.at > q.point
             /\ Sent(p, Request("write", q.now, q.seen, q.point, s, pointer))
    BY <1>5, <1>6, <1>8
  <1>9. CASE /\ pointer # None /\ (pointer.snap = s \/ pointer.snap.at > q.point)
             /\ Sent(p, NextPoint(q))
    <2>1. Repairing(NextPoint(q), pointer, snapshots)
      <3>1. \A target : (target # None => target.snap.at <= q.now) =>
                           Repairing(NextPoint(q), target, snapshots)
        BY <1>1, <1>4, RepairProceeds
      <3> QED
        BY <1>4, <3>1
    <2>2. Undisturbed'
      BY <1>1, <1>3, <1>9, <2>1, RepairGoesOn
    <2>3. ASSUME publish'[p].pc = "idle"  PROVE pointer' # None /\ Serves(pointer'.snap, q.now)
      <3>1. ~ q.point + Period <= q.now
        <4>1. ASSUME q.point + Period <= q.now  PROVE FALSE
          <5>1. publish'[p] = Request("build", q.now, q.seen, q.point + Period, None, None)
            BY <1>3, <1>9, <4>1, NextPointIs DEF Sent
          <5> QED
            BY <2>3, <5>1 DEF Request
        <4> QED
          BY <4>1
      <3>2. ~ pointer.snap.at > q.point
        <4>1. ASSUME pointer.snap.at > q.point  PROVE q.point + Period <= q.now
          <5>1. q.point + Period <= pointer.snap.at
            BY <1>5, <1>9, <4>1, GridGap
          <5> QED
            BY <1>4, <1>5, <1>9, <5>1, PublicationAssumption
        <4> QED
          BY <3>1, <4>1
      <3>3. pointer.snap = s
        BY <1>9, <3>2
      <3> QED
        BY <1>1, <1>3, <1>4, <1>5, <1>9, <3>1, <3>3, LastPointServes
    <2> QED
      BY <2>2, <2>3
  <1> QED
    BY <1>3, <1>7, <1>8, <1>9, <1>6, TargetMoves

\* An undisturbed request that writes the pointer lands.
LEMMA WriteRepairs ==
  ASSUME NoneIsApart, HealInv, NEW p \in Publisher, alone = p, Write(p)
  PROVE  /\ Undisturbed'
         /\ publish'[p].pc = "idle" =>
              pointer' # None /\ Serves(pointer'.snap, publish[p].now)
  <1> DEFINE q == publish[p]
             s == q.built
  <1>1. /\ q.pc = "write" /\ alone' = p
        /\ UNCHANGED <<clock, events, quarantine, post, snapshots>>
    BY DEF Write, Disturb
  <1>2. alone # None
    BY PublicationAssumption
  <1>3. /\ Repairing(q, pointer, snapshots) /\ Undisturbed /\ PublishInv /\ Chained /\ TimeInv
        /\ Fit(q)
    BY <1>2 DEF HealInv, TimeInv, Undisturbed, PublishInv
  <1>4. /\ q.seen = events /\ VerifyStored(s) /\ s \in snapshots /\ s.at = q.point
        /\ q.expect = pointer /\ (pointer # None => pointer.snap.at <= q.point)
    BY <1>1, <1>3 DEF Repairing, Fit
  <1>5. /\ OnGrid(q.point) /\ q.now \in Nat /\ q.now <= clock /\ clock \in Nat
        /\ q.point <= q.now
    BY <1>1, <1>3 DEF TimeInv, OnTime, Clocked
  <1>6. Lands(q)
    BY <1>4 DEF Lands
  <1>7. pointer' # None /\ pointer'.snap = s
    BY <1>6 DEF Write, NoneIsApart
  <1>8. Sent(p, NextPoint(q))
    BY <1>3, WriteMoves
  <1>9. Repairing(NextPoint(q), pointer', snapshots)
    <2>1. \A target : (target # None => target.snap.at <= q.now) =>
                         Repairing(NextPoint(q), target, snapshots)
      BY <1>1, <1>4, RepairProceeds
    <2> QED
      BY <1>4, <1>5, <1>7, <2>1
  <1>10. Undisturbed'
    BY <1>1, <1>3, <1>8, <1>9, RepairGoesOn
  <1>11. ASSUME publish'[p].pc = "idle"  PROVE Serves(s, q.now)
    <2>1. ~ q.point + Period <= q.now
      <3>1. ASSUME q.point + Period <= q.now  PROVE FALSE
        <4>1. publish'[p] = Request("build", q.now, q.seen, q.point + Period, None, None)
          BY <1>3, <1>8, <3>1, NextPointIs DEF Sent
        <4> QED
          BY <1>11, <4>1 DEF Request
      <3> QED
        BY <3>1
    <2> QED
      BY <1>3, <1>4, <1>5, <2>1, LastPointServes
  <1> QED
    BY <1>7, <1>10, <1>11

\* A request that begins alone has nothing stale.
LEMMA BeginRepairs ==
  ASSUME HealInv, NEW p \in Publisher, PublishBegin(p)
  PROVE  Undisturbed'
  <1> SUFFICES ASSUME alone' = p  PROVE Undisturbed'
    <2>1. alone' = p \/ alone' = None
      BY DEF PublishBegin
    <2> QED
      BY <2>1 DEF Undisturbed
  <1>1. /\ \A o \in Publisher : publish[o].pc = "idle"
        /\ \A r \in Poster : post[r].pc = "idle"
        /\ UNCHANGED <<events, quarantine, snapshots, pointer, post>>
    BY PublicationAssumption DEF PublishBegin, tables
  <1>2. TimeInv /\ PublishInv
    BY DEF HealInv, TimeInv
  <1>3. CASE publish' = publish
    BY <1>1, <1>3 DEF Undisturbed, Repairing
  <1>4. CASE clock >= FirstPoint /\ Sent(p, Request("build", clock, events, FirstPoint, None, None))
    <2> DEFINE x == Request("build", clock, events, FirstPoint, None, None)
    <2>1. x.pc = "build" /\ x.now = clock /\ x.seen = events /\ x.point = FirstPoint
      BY DEF Request
    <2>2. publish'[p] = x /\ \A o \in Publisher \ {p} : publish'[o].pc = "idle"
      BY <1>1, <1>4 DEF Sent
    <2>3. pointer # None => pointer.snap.at <= clock
      BY <1>2 DEF TimeInv, OnTime
    <2> HIDE DEF x
    <2>4. Repairing(publish[alone], pointer, snapshots)'
      BY <1>1, <2>1, <2>2, <2>3 DEF Repairing
    <2> QED
      BY <1>1, <2>2, <2>4 DEF Undisturbed
  <1> QED
    BY <1>2, <1>3, <1>4, BeginMoves

\* A step of a publisher other than the undisturbed one ends the repair.
LEMMA OtherDisturbs ==
  ASSUME NEW p \in Publisher, alone # p, Build(p) \/ Store(p) \/ Target(p) \/ Write(p)
  PROVE  alone' = None
  BY DEF Build, Store, Target, Write, Disturb

\* No step leads an undisturbed request astray.
LEMMA UndisturbedNext ==
  ASSUME NoneIsApart, HealInv, [Next]_vars
  PROVE  Undisturbed'
  <1>1. CASE UNCHANGED <<events, quarantine, snapshots, pointer, post, publish, alone>>
    <2>1. \A t : VerifyStored(t)' <=> VerifyStored(t)
      BY <1>1 DEF VerifyStored, BuildSnapshot, CohortEvents, Cohort, WindowQuarantines
    <2> QED
      BY <1>1, <2>1 DEF HealInv, Undisturbed, Repairing
  <1>2. CASE Tick \/ UNCHANGED vars
    BY <1>1, <1>2 DEF Tick, vars, tables
  <1>3. CASE alone' = None
    BY <1>3 DEF Undisturbed
  <1>4. CASE \E r \in Poster : PostStep(r)
    BY <1>3, <1>4 DEF PostStep, Receive, Check, Insert, SetAside, StorageError, CutPost
  <1>5. ASSUME NEW p \in Publisher, PublishStep(p)  PROVE Undisturbed'
    BY <1>3, <1>5, BeginRepairs, BuildRepairs, StoreRepairs, TargetRepairs, WriteRepairs,
       OtherDisturbs DEF PublishStep, CutPublish
  <1> QED
    BY <1>2, <1>4, <1>5 DEF Next

\* At the start there is nothing to repair.
LEMMA HealInit == Init => HealInv
  BY TimeInit DEF Init, HealInv, Chained, Undisturbed

\* Every step preserves the whole invariant.
LEMMA HealNext ==
  ASSUME NoneIsApart, HealInv, [Next]_vars
  PROVE  HealInv'
  BY TimeNext, ChainedNext, UndisturbedNext DEF HealInv

\* An undisturbed request ends only where its last write or check succeeds.
LEMMA RepairEnds ==
  ASSUME NoneIsApart, HealInv, [Next]_vars, NEW p \in Publisher, alone = p, alone' = p,
         publish[p].pc # "idle", publish'[p].pc = "idle"
  PROVE  /\ Target(p) \/ Write(p)
         /\ pointer' # None /\ Serves(pointer'.snap, publish[p].now)
  <1>1. p # None
    BY PublicationAssumption
  <1>2. Next
    BY DEF vars
  <1>3. ~ Tick /\ ~ \E r \in Poster : PostStep(r)
    BY <1>1 DEF Tick, PostStep, Receive, Check, Insert, SetAside, StorageError, CutPost
  <1>4. ASSUME NEW o \in Publisher, PublishStep(o)  PROVE o = p
    BY <1>1, <1>4, OtherDisturbs DEF PublishStep, PublishBegin, CutPublish
  <1>5. Build(p) \/ Store(p) \/ Target(p) \/ Write(p)
    BY <1>1, <1>2, <1>3, <1>4 DEF Next, PublishStep, PublishBegin, CutPublish
  <1> QED
    BY <1>5, BuildRepairs, StoreRepairs, TargetRepairs, WriteRepairs

\* A publish request nobody interferes with leaves a published month that serves.
THEOREM RepairHeals == ASSUME NoneIsApart PROVE Spec => Heals
  <1> DEFINE Ends == \A p \in Publisher :
        (alone = p /\ publish[p].pc # "idle" /\ publish'[p].pc = "idle" /\ alone' = p) =>
          /\ LatestServes'
          /\ \A q \in Point : q <= publish[p].now => q <= pointer'.snap.at
  <1>1. HealInv /\ [Next]_vars => Ends
    <2> SUFFICES ASSUME HealInv, [Next]_vars, NEW p \in Publisher, alone = p, alone' = p,
                        publish[p].pc # "idle", publish'[p].pc = "idle"
                 PROVE  /\ LatestServes'
                        /\ \A q \in Point : q <= publish[p].now => q <= pointer'.snap.at
      OBVIOUS
    <2>1. /\ Target(p) \/ Write(p)
          /\ pointer' # None /\ Serves(pointer'.snap, publish[p].now)
      BY RepairEnds
    <2>2. UNCHANGED <<clock, events, quarantine, snapshots>>
      BY <2>1 DEF Target, Write, tables
    <2>3. PICK s : s = pointer'.snap
      OBVIOUS
    <2>4. /\ s \in snapshots' /\ s.at <= clock'
          /\ VerifyStored(s)' /\ VerifyLineage(s)'
      <3>1. \A t : VerifyStored(t)' <=> VerifyStored(t)
        BY <2>2 DEF VerifyStored, BuildSnapshot, CohortEvents, Cohort, WindowQuarantines
      <3>2. VerifyLineage(s)' <=> VerifyLineage(s)
        BY <2>2, <3>1 DEF VerifyLineage
      <3>3. Serves(s, publish[p].now)
        BY <2>1, <2>3
      <3> QED
        BY <2>2, <3>1, <3>2, <3>3 DEF Serves
    <2>5. LatestServes'
      BY <2>1, <2>3, <2>4
         DEF LatestServes, VerifyLineage, VerifyStored, BuildSnapshot, CohortEvents, Cohort,
             WindowQuarantines
    <2> QED
      BY <2>1, <2>5 DEF Serves
  <1>2. HealInv /\ [Next]_vars => HealInv'
    BY HealNext
  <1> QED
    BY <1>1, <1>2, HealInit, PTL DEF Spec, Heals
====
