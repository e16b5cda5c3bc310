------------------------ MODULE MetricOutboxProofs ------------------------
(***************************************************************************)
(* Safety of the metrics outbox for any number of processes, targets and   *)
(* events, with kills, lost and late answers, and closed scopes: it        *)
(* delivers what it promises, and stays within its bound.                  *)
(***************************************************************************)
EXTENDS MetricOutbox, FiniteSetTheorems, TLAPS

Stored == ToSet(table)

(* A row more.                                                             *)
LEMMA RowAdded ==
  ASSUME table \in Seq(Record), NEW r \in Record
  PROVE  /\ Append(table, r) \in Seq(Record)
         /\ ToSet(Append(table, r)) = ToSet(table) \cup {r}
  <1>1. Append(table, r) \in Seq(Record) /\ Len(Append(table, r)) = Len(table) + 1
    OBVIOUS
  <1>2. \A i \in 1..Len(table) : Append(table, r)[i] = table[i]
    OBVIOUS
  <1>3. Append(table, r)[Len(table) + 1] = r
    OBVIOUS
  <1>4. DOMAIN table = 1..Len(table) /\ DOMAIN Append(table, r) = 1..(Len(table) + 1)
    BY <1>1
  <1>5. Len(table) \in Nat
    OBVIOUS
  <1>6. ASSUME NEW x \in ToSet(Append(table, r))  PROVE x \in ToSet(table) \cup {r}
    <2>1. PICK i \in 1..(Len(table) + 1) : x = Append(table, r)[i]
      BY <1>4 DEF ToSet
    <2>2. CASE i = Len(table) + 1
      BY <1>3, <2>1, <2>2
    <2>3. CASE i \in 1..Len(table)
      BY <1>2, <1>4, <2>1, <2>3 DEF ToSet
    <2> QED
      BY <1>5, <2>2, <2>3
  <1>7. ASSUME NEW x \in ToSet(table)  PROVE x \in ToSet(Append(table, r))
    <2>1. PICK i \in 1..Len(table) : x = table[i]
      BY <1>4 DEF ToSet
    <2>2. i \in 1..(Len(table) + 1)
      BY <1>5
    <2> QED
      BY <1>2, <1>4, <2>1, <2>2 DEF ToSet
  <1>8. r \in ToSet(Append(table, r))
    <2>1. Len(table) + 1 \in 1..(Len(table) + 1)
      BY <1>5
    <2> QED
      BY <1>3, <1>4, <2>1 DEF ToSet
  <1> QED
    BY <1>1, <1>6, <1>7, <1>8

-----------------------------------------------------------------------------
(* The fields of a flush.                                                  *)
FlushRecord(at, all, todo, sent, reply) ==
  [at |-> at, all |-> all, todo |-> todo, sent |-> sent, reply |-> reply]

LEMMA Fields ==
  ASSUME NEW a, NEW b, NEW c, NEW d, NEW e
  PROVE  /\ FlushRecord(a, b, c, d, e).at = a
         /\ FlushRecord(a, b, c, d, e).all = b
         /\ FlushRecord(a, b, c, d, e).todo = c
         /\ FlushRecord(a, b, c, d, e).sent = d
         /\ FlushRecord(a, b, c, d, e).reply = e
  BY DEF FlushRecord

LEMMA AtChanged ==
  ASSUME NEW a, NEW b, NEW c, NEW d, NEW e, NEW v
  PROVE  [FlushRecord(a, b, c, d, e) EXCEPT !.at = v] = FlushRecord(v, b, c, d, e)
  BY DEF FlushRecord

LEMMA AllChanged ==
  ASSUME NEW a, NEW b, NEW c, NEW d, NEW e, NEW v
  PROVE  [FlushRecord(a, b, c, d, e) EXCEPT !.all = v] = FlushRecord(a, v, c, d, e)
  BY DEF FlushRecord

LEMMA TodoChanged ==
  ASSUME NEW a, NEW b, NEW c, NEW d, NEW e, NEW v
  PROVE  [FlushRecord(a, b, c, d, e) EXCEPT !.todo = v] = FlushRecord(a, b, v, d, e)
  BY DEF FlushRecord

LEMMA SentChanged ==
  ASSUME NEW a, NEW b, NEW c, NEW d, NEW e, NEW v
  PROVE  [FlushRecord(a, b, c, d, e) EXCEPT !.sent = v] = FlushRecord(a, b, c, v, e)
  BY DEF FlushRecord

LEMMA ReplyChanged ==
  ASSUME NEW a, NEW b, NEW c, NEW d, NEW e, NEW v
  PROVE  [FlushRecord(a, b, c, d, e) EXCEPT !.reply = v] = FlushRecord(a, b, c, d, v)
  BY DEF FlushRecord

LEMMA Idle ==
  \E b, c, d : NoFlush = FlushRecord("idle", b, c, d, "none")
  <1>1. NoFlush = FlushRecord("idle", NoFlush.all, NoFlush.todo, NoFlush.sent, "none")
    BY DEF NoFlush, FlushRecord
  <1> QED
    BY <1>1

-----------------------------------------------------------------------------
(* The inductive invariant.  Of a flush, given what is stored: a reply is  *)
(* there for the record that was sent, and one that acknowledges it speaks *)
(* of a row.                                                               *)
Fits(q, stored) ==
  /\ q = FlushRecord(q.at, q.all, q.todo, q.sent, q.reply)
  /\ q.at \in {"idle", "select", "next"} => q.reply = "none"
  /\ q.reply \in {"accepted", "duplicate"} => q.sent \in stored
  /\ q.at \in {"forget", "clear"} => q.sent \in stored
  /\ q.at = "forget" => q.reply # "none"

FlushInv ==
  /\ flush = [f \in Flusher |-> flush[f]]
  /\ \A f \in Flusher : Fits(flush[f], Stored)

(* A request on its way carries a record that is kept or stored, and the   *)
(* flush that waits for it has sent that record.                           *)
OnItsWay(w) ==
  /\ w = [by |-> w.by, record |-> w.record]
  /\ w.by \in Flusher \cup {Nobody}
  /\ w.record \in Record
  /\ w.record \in files \cup Stored
  /\ w.by \in Flusher => /\ flush[w.by].at = "waiting"
                         /\ flush[w.by].sent = w.record
                         /\ flush[w.by].reply = "none"

WireInv == \A w \in wire : OnItsWay(w)

(* A directory has one file of a name.                                     *)
FilesInv ==
  /\ files \subseteq Record
  /\ \A r1, r2 \in files : r1.target = r2.target /\ r1.event = r2.event => r1 = r2

SubmitFits(q) ==
  /\ q = [at |-> q.at, record |-> q.record]
  /\ q.at # "idle" => q.record \in Record

SubmitInv ==
  /\ submit = [s \in Submitter |-> submit[s]]
  /\ \A s \in Submitter : SubmitFits(submit[s])

DeliverInv ==
  /\ table \in Seq(Record)
  /\ FlushInv /\ WireInv /\ FilesInv /\ SubmitInv

-----------------------------------------------------------------------------
(* The forms a flush takes.                                                *)
LEMMA Made ==
  ASSUME NEW S, NEW a, NEW b, NEW c, NEW d, NEW e,
         a \in {"idle", "select", "next"} => e = "none",
         e \in {"accepted", "duplicate"} => d \in S,
         a \in {"forget", "clear"} => d \in S,
         a = "forget" => e # "none"
  PROVE  Fits(FlushRecord(a, b, c, d, e), S)
  BY Fields DEF Fits

LEMMA Taken ==
  ASSUME NEW S, NEW a, NEW b, NEW c, NEW d, NEW e, Fits(FlushRecord(a, b, c, d, e), S)
  PROVE  /\ a \in {"idle", "select", "next"} => e = "none"
         /\ e \in {"accepted", "duplicate"} => d \in S
         /\ a \in {"forget", "clear"} => d \in S
         /\ a = "forget" => e # "none"
  BY Fields DEF Fits

LEMMA MoreStored ==
  ASSUME NEW S, NEW T, S \subseteq T, NEW q, Fits(q, S)
  PROVE  Fits(q, T)
  BY DEF Fits

LEMMA NoFlushFits ==
  ASSUME NEW S
  PROVE  Fits(NoFlush, S) /\ NoFlush.at = "idle"
  <1>1. PICK b, c, d : NoFlush = FlushRecord("idle", b, c, d, "none")
    BY Idle
  <1>2. Fits(FlushRecord("idle", b, c, d, "none"), S)
    BY Made
  <1> QED
    BY <1>1, <1>2, Fields

LEMMA ScheduledFits ==
  ASSUME NEW S
  PROVE  Fits([NoFlush EXCEPT !.at = "select"], S)
  <1>1. PICK b, c, d : NoFlush = FlushRecord("idle", b, c, d, "none")
    BY Idle
  <1>2. [NoFlush EXCEPT !.at = "select"] = FlushRecord("select", b, c, d, "none")
    BY <1>1, AtChanged
  <1>3. Fits(FlushRecord("select", b, c, d, "none"), S)
    BY Made
  <1> QED
    BY <1>2, <1>3

LEMMA StartedFits ==
  ASSUME NEW S, NEW all
  PROVE  Fits([NoFlush EXCEPT !.at = "select", !.all = all], S)
  <1>1. PICK b, c, d : NoFlush = FlushRecord("idle", b, c, d, "none")
    BY Idle
  <1>2. [NoFlush EXCEPT !.at = "select"] = FlushRecord("select", b, c, d, "none")
    BY <1>1, AtChanged
  <1>3. [NoFlush EXCEPT !.at = "select", !.all = all]
          = [[NoFlush EXCEPT !.at = "select"] EXCEPT !.all = all]
    BY <1>1 DEF FlushRecord
  <1>4. [FlushRecord("select", b, c, d, "none") EXCEPT !.all = all]
          = FlushRecord("select", all, c, d, "none")
    BY AllChanged
  <1>5. Fits(FlushRecord("select", all, c, d, "none"), S)
    BY Made
  <1> QED
    BY <1>2, <1>3, <1>4, <1>5

LEMMA SelectedFits ==
  ASSUME NEW S, NEW q, Fits(q, S), q.at = "select", NEW batch
  PROVE  Fits([q EXCEPT !.at = "next", !.todo = batch], S)
  <1>1. PICK a, b, c, d, e : q = FlushRecord(a, b, c, d, e)
    BY DEF Fits
  <1>2. a = "select" /\ e = "none"
    BY <1>1, Taken, Fields
  <1>3. [q EXCEPT !.at = "next"] = FlushRecord("next", b, c, d, e)
    BY <1>1, AtChanged
  <1>4. [q EXCEPT !.at = "next", !.todo = batch] = [[q EXCEPT !.at = "next"] EXCEPT !.todo = batch]
    BY <1>1 DEF FlushRecord
  <1>5. [FlushRecord("next", b, c, d, e) EXCEPT !.todo = batch] = FlushRecord("next", b, batch, d, e)
    BY TodoChanged
  <1>6. Fits(FlushRecord("next", b, batch, d, e), S)
    BY <1>2, Made
  <1> QED
    BY <1>3, <1>4, <1>5, <1>6

LEMMA AheadFits ==
  ASSUME NEW S, NEW q, Fits(q, S), NEW rest
  PROVE  Fits(Ahead(q, rest), S)
  <1>1. PICK a, b, c, d, e : q = FlushRecord(a, b, c, d, e)
    BY DEF Fits
  <1>2. [q EXCEPT !.at = "next"] = FlushRecord("next", b, c, d, e)
    BY <1>1, AtChanged
  <1>3. [FlushRecord("next", b, c, d, e) EXCEPT !.todo = rest] = FlushRecord("next", b, rest, d, e)
    BY TodoChanged
  <1>4. [FlushRecord("next", b, rest, d, e) EXCEPT !.sent = NoRecord]
          = FlushRecord("next", b, rest, NoRecord, e)
    BY SentChanged
  <1>5. [FlushRecord("next", b, rest, NoRecord, e) EXCEPT !.reply = "none"]
          = FlushRecord("next", b, rest, NoRecord, "none")
    BY ReplyChanged
  <1>6. Ahead(q, rest)
          = [[[[q EXCEPT !.at = "next"] EXCEPT !.todo = rest] EXCEPT !.sent = NoRecord] EXCEPT !.reply = "none"]
    BY <1>1 DEF FlushRecord, Ahead
  <1>7. Fits(FlushRecord("next", b, rest, NoRecord, "none"), S)
    BY Made
  <1> QED
    BY <1>2, <1>3, <1>4, <1>5, <1>6, <1>7

(* What Post makes of it.                                                  *)
Sending(q, r) == [q EXCEPT !.at = "waiting", !.sent = r]

LEMMA PostedFits ==
  ASSUME NEW S, NEW q, Fits(q, S), q.at = "next", NEW r \in Record
  PROVE  /\ Fits(Sending(q, r), S)
         /\ Sending(q, r).at = "waiting"
         /\ Sending(q, r).sent = r
         /\ Sending(q, r).reply = "none"
  <1>1. PICK a, b, c, d, e : q = FlushRecord(a, b, c, d, e)
    BY DEF Fits
  <1>2. a = "next" /\ e = "none"
    BY <1>1, Taken, Fields
  <1>3. [q EXCEPT !.at = "waiting"] = FlushRecord("waiting", b, c, d, e)
    BY <1>1, AtChanged
  <1>4. Sending(q, r) = [[q EXCEPT !.at = "waiting"] EXCEPT !.sent = r]
    BY <1>1 DEF FlushRecord, Sending
  <1>5. [FlushRecord("waiting", b, c, d, e) EXCEPT !.sent = r] = FlushRecord("waiting", b, c, r, e)
    BY SentChanged
  <1>6. Sending(q, r) = FlushRecord("waiting", b, c, r, e)
    BY <1>3, <1>4, <1>5
  <1>7. Fits(FlushRecord("waiting", b, c, r, e), S)
    BY <1>2, Made
  <1>8. FlushRecord("waiting", b, c, r, e).at = "waiting" /\ FlushRecord("waiting", b, c, r, e).sent = r
    BY Fields
  <1>9. FlushRecord("waiting", b, c, r, e).reply = "none"
    BY <1>2, Fields
  <1> QED
    BY <1>6, <1>7, <1>8, <1>9

LEMMA GoneFits ==
  ASSUME NEW S, NEW q, Fits(q, S), NEW place,
         \/ place = "forget" /\ q.reply \in {"accepted", "duplicate"}
         \/ place = "block"
         \/ place = "clear" /\ q.at = "forget"
  PROVE  Fits([q EXCEPT !.at = place], S)
  <1>1. PICK a, b, c, d, e : q = FlushRecord(a, b, c, d, e)
    BY DEF Fits
  <1>2. [q EXCEPT !.at = place] = FlushRecord(place, b, c, d, e)
    BY <1>1, AtChanged
  <1>3. q.at = a /\ q.reply = e
    BY <1>1, Fields
  <1>4. Fits(FlushRecord(place, b, c, d, e), S)
    BY <1>1, <1>3, Taken, Made
  <1> QED
    BY <1>2, <1>4

LEMMA RepliedFits ==
  ASSUME NEW S, NEW q, Fits(q, S), q.at = "waiting", NEW reply,
         reply \in {"accepted", "duplicate"} => q.sent \in S
  PROVE  LET p == [q EXCEPT !.reply = reply] IN
         Fits(p, S) /\ p.at = "waiting" /\ p.sent = q.sent
  <1>1. PICK a, b, c, d, e : q = FlushRecord(a, b, c, d, e)
    BY DEF Fits
  <1>2. [q EXCEPT !.reply = reply] = FlushRecord(a, b, c, d, reply)
    BY <1>1, ReplyChanged
  <1>3. q.at = a /\ q.sent = d
    BY <1>1, Fields
  <1>4. Fits(FlushRecord(a, b, c, d, reply), S)
    BY <1>3, Made
  <1> QED
    BY <1>2, <1>3, <1>4, Fields

-----------------------------------------------------------------------------
(* The steps of a flush.                                                   *)
LEMMA FlushMoves ==
  ASSUME FlushInv, NEW f \in Flusher, NEW q, Fits(q, Stored'), Stored \subseteq Stored',
         flush' = [flush EXCEPT ![f] = q]
  PROVE  FlushInv' /\ flush'[f] = q /\ \A g \in Flusher \ {f} : flush'[g] = flush[g]
  <1>1. flush' = [g \in Flusher |-> IF g = f THEN q ELSE flush[g]]
    BY DEF FlushInv
  <1>2. \A g \in Flusher : flush'[g] = IF g = f THEN q ELSE flush[g]
    BY <1>1
  <1>3. \A g \in Flusher : Fits(flush'[g], Stored')
    BY <1>2, MoreStored DEF FlushInv
  <1>4. flush' = [g \in Flusher |-> flush'[g]]
    BY <1>1
  <1> QED
    BY <1>2, <1>3, <1>4 DEF FlushInv

(* Requests wait for flushes that no step of another flush touches.        *)
LEMMA WireKept ==
  ASSUME WireInv, NEW fs, wire' = wire,
         \A f \in Flusher \cap fs : flush[f].at # "waiting" \/ flush[f].reply # "none",
         \A f \in Flusher \ fs : flush'[f] = flush[f],
         files \cup Stored \subseteq files' \cup Stored'
  PROVE  WireInv'
  <1> SUFFICES ASSUME NEW w \in wire  PROVE OnItsWay(w)'
    BY DEF WireInv
  <1>1. OnItsWay(w)
    BY DEF WireInv
  <1>2. w.by \in Flusher => w.by \notin fs
    BY <1>1 DEF OnItsWay
  <1>3. w.by \in Flusher => flush'[w.by] = flush[w.by]
    BY <1>2
  <1> QED
    BY <1>1, <1>3 DEF OnItsWay

LEMMA WireAbandoned ==
  ASSUME WireInv, NEW fs, wire' = Abandoned(fs),
         \A f \in Flusher \ fs : flush'[f] = flush[f],
         MetricOutboxAssumption,
         files \cup Stored \subseteq files' \cup Stored'
  PROVE  WireInv'
  <1> SUFFICES ASSUME NEW w \in wire'  PROVE OnItsWay(w)'
    BY DEF WireInv
  <1>1. PICK q \in wire : w = IF q.by \in fs THEN [q EXCEPT !.by = Nobody] ELSE q
    BY DEF Abandoned
  <1>2. OnItsWay(q)
    BY DEF WireInv
  <1>3. CASE q.by \notin fs
    BY <1>1, <1>2, <1>3 DEF OnItsWay
  <1>4. CASE q.by \in fs
    <2>1. w = [by |-> Nobody, record |-> q.record]
      BY <1>1, <1>2, <1>4 DEF OnItsWay
    <2>2. Nobody \notin Flusher
      BY DEF MetricOutboxAssumption
    <2> QED
      BY <1>2, <2>1, <2>2 DEF OnItsWay
  <1> QED
    BY <1>3, <1>4

LEMMA SkipFits ==
  ASSUME FlushInv, NEW f \in Flusher, Skip(f), Stored' = Stored
  PROVE  FlushInv' /\ \A g \in Flusher \ {f} : flush'[g] = flush[g]
  <1> DEFINE q == IF Tail(flush[f].todo) = <<>> THEN NoFlush
                  ELSE Ahead(flush[f], Tail(flush[f].todo))
  <1>1. flush' = [flush EXCEPT ![f] = q]
    BY DEF Skip
  <1>2. Fits(flush[f], Stored)
    BY DEF FlushInv
  <1>3. Fits(q, Stored)
    BY <1>2, NoFlushFits, AheadFits
  <1> HIDE DEF q
  <1> QED
    BY <1>1, <1>3, FlushMoves

-----------------------------------------------------------------------------
(* What a step means for the delivery: a record is submitted, stored or    *)
(* given up, or nothing happens to it.                                     *)
Means == [Outbox!Next]_<<files, table>>

(* Steps that touch neither files nor rows.                                *)
LEMMA Quiet ==
  ASSUME DeliverInv, files' = files, table' = table, submit' = submit,
         FlushInv', WireInv'
  PROVE  DeliverInv' /\ Means
  BY DEF DeliverInv, FilesInv, SubmitInv, SubmitFits, Means, Stored

LEMMA SelectStep ==
  ASSUME DeliverInv, NEW f \in Flusher, Select(f)
  PROVE  DeliverInv' /\ Means
  <1> DEFINE batch == Batch(TargetOf[f], flush[f].all)
             q == IF batch = <<>> THEN NoFlush
                  ELSE [flush[f] EXCEPT !.at = "next", !.todo = batch]
  <1>1. flush' = [flush EXCEPT ![f] = q]
    BY DEF Select
  <1>2. Fits(flush[f], Stored) /\ flush[f].at = "select"
    BY DEF DeliverInv, FlushInv, Select, At
  <1> HIDE DEF batch
  <1>3. Fits(q, Stored)
    BY <1>2, NoFlushFits, SelectedFits
  <1>4. Stored' = Stored /\ wire' = wire /\ files' = files /\ table' = table /\ submit' = submit
    BY DEF Select, Stored
  <1> HIDE DEF q
  <1>5. FlushInv' /\ \A g \in Flusher \ {f} : flush'[g] = flush[g]
    BY <1>1, <1>3, <1>4, FlushMoves DEF DeliverInv
  <1>6. WireInv'
    BY <1>2, <1>4, <1>5, WireKept DEF DeliverInv
  <1> QED
    BY <1>4, <1>5, <1>6, Quiet

LEMMA StartStep ==
  ASSUME DeliverInv, NEW f \in Flusher, NEW all, StartFlush(f, all)
  PROVE  DeliverInv' /\ Means
  <1> DEFINE q == [NoFlush EXCEPT !.at = "select", !.all = all]
  <1>1. flush' = [flush EXCEPT ![f] = q] /\ flush[f].at = "idle"
    BY DEF StartFlush, At
  <1>2. Fits(q, Stored)
    BY StartedFits
  <1>3. Stored' = Stored /\ wire' = wire /\ files' = files /\ table' = table /\ submit' = submit
    BY DEF StartFlush, Stored
  <1> HIDE DEF q
  <1>4. FlushInv' /\ \A g \in Flusher \ {f} : flush'[g] = flush[g]
    BY <1>1, <1>2, <1>3, FlushMoves DEF DeliverInv
  <1>5. WireInv'
    BY <1>1, <1>3, <1>4, WireKept DEF DeliverInv
  <1> QED
    BY <1>3, <1>4, <1>5, Quiet

LEMMA StopStep ==
  ASSUME DeliverInv, NEW f \in Flusher, Stop(f)
  PROVE  DeliverInv' /\ Means
  <1>1. flush' = [flush EXCEPT ![f] = NoFlush] /\ flush[f].at = "next"
    BY DEF Stop, At
  <1>2. Stored' = Stored /\ wire' = wire /\ files' = files /\ table' = table /\ submit' = submit
    BY DEF Stop, Stored
  <1>3. Fits(NoFlush, Stored')
    BY NoFlushFits
  <1>4. FlushInv' /\ \A g \in Flusher \ {f} : flush'[g] = flush[g]
    BY <1>1, <1>2, <1>3, FlushMoves DEF DeliverInv
  <1>5. WireInv'
    BY <1>1, <1>2, <1>4, WireKept DEF DeliverInv
  <1> QED
    BY <1>2, <1>4, <1>5, Quiet

(* Steps that go on to the next name, without a request on its way.        *)
LEMMA PassOverStep ==
  ASSUME DeliverInv, NEW f \in Flusher, PassOver(f) \/ Block(f) \/ Clear(f)
  PROVE  DeliverInv' /\ Means
  <1>1. Skip(f) /\ flush[f].at # "waiting"
    BY DEF PassOver, Block, Clear, At
  <1>2. Stored' = Stored /\ wire' = wire /\ files' = files /\ table' = table /\ submit' = submit
    BY DEF PassOver, Block, Clear, Stored
  <1>3. FlushInv' /\ \A g \in Flusher \ {f} : flush'[g] = flush[g]
    BY <1>1, <1>2, SkipFits DEF DeliverInv
  <1>4. WireInv'
    BY <1>1, <1>2, <1>3, WireKept DEF DeliverInv
  <1> QED
    BY <1>2, <1>3, <1>4, Quiet

(* The record that is sent is the one in the file.                         *)
LEMMA PostStep ==
  ASSUME DeliverInv, MetricOutboxAssumption, NEW f \in Flusher, Post(f)
  PROVE  DeliverInv' /\ Means
  <1>1. PICK r \in File(TargetOf[f], flush[f].todo[1]) :
          /\ flush' = [flush EXCEPT ![f] = Sending(flush[f], r)]
          /\ wire' = wire \cup {[by |-> f, record |-> r]}
    BY DEF Post, Sending
  <1>2. r \in files /\ r \in Record
    BY <1>1 DEF File, DeliverInv, FilesInv
  <1>3. Stored' = Stored /\ files' = files /\ table' = table /\ submit' = submit
    BY DEF Post, Stored
  <1>4. Fits(flush[f], Stored) /\ flush[f].at = "next"
    BY DEF DeliverInv, FlushInv, Post, At
  <1> DEFINE q == Sending(flush[f], r)
  <1>5. Fits(q, Stored) /\ q.at = "waiting" /\ q.sent = r /\ q.reply = "none"
    BY <1>2, <1>4, PostedFits
  <1>6. flush' = [flush EXCEPT ![f] = q]
    BY <1>1
  <1> HIDE DEF q
  <1>7. FlushInv' /\ flush'[f] = q /\ \A g \in Flusher \ {f} : flush'[g] = flush[g]
    BY <1>3, <1>5, <1>6, FlushMoves DEF DeliverInv
  <1>8. ASSUME NEW w \in wire'  PROVE OnItsWay(w)'
    <2>1. CASE w = [by |-> f, record |-> r]
      BY <1>2, <1>3, <1>5, <1>7, <2>1 DEF OnItsWay
    <2>2. CASE w \in wire
      <3>1. OnItsWay(w)
        BY <2>2 DEF DeliverInv, WireInv
      <3>2. w.by # f
        BY <1>4, <3>1 DEF OnItsWay
      <3> QED
        BY <1>3, <1>7, <3>1, <3>2 DEF OnItsWay
    <2> QED
      BY <1>1, <2>1, <2>2
  <1>9. WireInv'
    BY <1>8 DEF WireInv
  <1> QED
    BY <1>3, <1>7, <1>9, Quiet

LEMMA NoAnswerStep ==
  ASSUME DeliverInv, MetricOutboxAssumption, NEW f \in Flusher, NoAnswer(f)
  PROVE  DeliverInv' /\ Means
  <1>1. Skip(f) /\ wire' = Abandoned({f})
    BY DEF NoAnswer
  <1>2. Stored' = Stored /\ files' = files /\ table' = table /\ submit' = submit
    BY DEF NoAnswer, Stored
  <1>3. FlushInv' /\ \A g \in Flusher \ {f} : flush'[g] = flush[g]
    BY <1>1, <1>2, SkipFits DEF DeliverInv
  <1>4. WireInv'
    BY <1>1, <1>2, <1>3, WireAbandoned DEF DeliverInv
  <1> QED
    BY <1>2, <1>3, <1>4, Quiet

(* A flush with an answer has no request on its way any more.              *)
LEMMA AnsweredStep ==
  ASSUME DeliverInv, NEW f \in Flusher, Answered(f)
  PROVE  DeliverInv' /\ Means
  <1>1. Stored' = Stored /\ wire' = wire /\ files' = files /\ table' = table /\ submit' = submit
    BY DEF Answered, Stored
  <1>2. Fits(flush[f], Stored)
    BY DEF DeliverInv, FlushInv
  <1>3. FlushInv' /\ \A g \in Flusher \ {f} : flush'[g] = flush[g]
    <2>1. ASSUME NEW place, Go(f, place),
                 \/ place = "forget" /\ flush[f].reply \in {"accepted", "duplicate"}
                 \/ place = "block"
          PROVE  FlushInv' /\ \A g \in Flusher \ {f} : flush'[g] = flush[g]
      <3> DEFINE q == [flush[f] EXCEPT !.at = place]
      <3>1. flush' = [flush EXCEPT ![f] = q]
        <4>1. flush = [g \in Flusher |-> flush[g]]
          BY DEF DeliverInv, FlushInv
        <4> QED
          BY <2>1, <4>1 DEF Go
      <3>2. Fits(q, Stored)
        BY <1>2, <2>1, GoneFits
      <3> HIDE DEF q
      <3> QED
        BY <1>1, <3>1, <3>2, FlushMoves DEF DeliverInv
    <2>2. CASE Skip(f)
      BY <1>1, <2>2, SkipFits DEF DeliverInv
    <2> QED
      BY <2>1, <2>2 DEF Answered
  <1>4. flush[f].reply # "none"
    BY DEF Answered
  <1>5. WireInv'
    BY <1>1, <1>3, <1>4, WireKept DEF DeliverInv
  <1> QED
    BY <1>1, <1>3, <1>5, Quiet

(* The unlink removes the record the service has, and no other.            *)
LEMMA ForgetStep ==
  ASSUME DeliverInv, NEW f \in Flusher, Forget(f)
  PROVE  DeliverInv' /\ Means
  <1> DEFINE r == flush[f].sent
  <1>1. Stored' = Stored /\ wire' = wire /\ table' = table /\ submit' = submit
    BY DEF Forget, Stored
  <1>2. Fits(flush[f], Stored) /\ flush[f].at = "forget" /\ r \in Stored
    BY DEF DeliverInv, FlushInv, Forget, At, Fits
  <1>3. CASE Go(f, "clear") /\ r \in files /\ files' = files \ File(r.target, r.event)
    <2>1. files' = files \ {r}
      BY <1>3 DEF File, DeliverInv, FilesInv
    <2> DEFINE q == [flush[f] EXCEPT !.at = "clear"]
    <2>2. flush' = [flush EXCEPT ![f] = q]
      <3>1. flush = [g \in Flusher |-> flush[g]]
        BY DEF DeliverInv, FlushInv
      <3> QED
        BY <1>3, <3>1 DEF Go
    <2>3. Fits(q, Stored)
      BY <1>2, GoneFits
    <2> HIDE DEF q
    <2>4. FlushInv' /\ \A g \in Flusher \ {f} : flush'[g] = flush[g]
      BY <1>1, <2>2, <2>3, FlushMoves DEF DeliverInv
    <2>5. files \cup Stored \subseteq files' \cup Stored'
      BY <1>1, <1>2, <2>1
    <2>6. WireInv'
      BY <1>1, <1>2, <2>4, <2>5, WireKept DEF DeliverInv
    <2>7. FilesInv'
      BY <2>1 DEF DeliverInv, FilesInv
    <2>8. Outbox!Forget(r)
      BY <1>1, <1>2, <1>3, <2>1 DEF Outbox!Forget, Stored, ToSet
    <2>9. r \in Record
      BY <1>3 DEF DeliverInv, FilesInv
    <2>10. Means
      BY <2>8, <2>9 DEF Means, Outbox!Next
    <2>11. SubmitInv'
      BY <1>1 DEF DeliverInv, SubmitInv, SubmitFits
    <2> QED
      BY <1>1, <2>4, <2>6, <2>7, <2>10, <2>11 DEF DeliverInv
  <1>4. CASE Skip(f) /\ files' = files
    <2>1. FlushInv' /\ \A g \in Flusher \ {f} : flush'[g] = flush[g]
      BY <1>1, <1>4, SkipFits DEF DeliverInv
    <2>2. WireInv'
      BY <1>1, <1>2, <1>4, <2>1, WireKept DEF DeliverInv
    <2> QED
      BY <1>1, <1>4, <2>1, <2>2, Quiet
  <1> QED
    BY <1>3, <1>4 DEF Forget, MayForget

-----------------------------------------------------------------------------
(* The service.                                                            *)
LEMMA AnswerFits ==
  ASSUME DeliverInv, MetricOutboxAssumption, NEW q \in wire, NEW reply, Answer(q, reply),
         reply \in {"accepted", "duplicate"} => q.record \in Stored',
         Stored \subseteq Stored', files' = files
  PROVE  FlushInv' /\ WireInv'
  <1>1. OnItsWay(q) /\ wire' = wire \ {q}
    BY DEF DeliverInv, WireInv, Answer
  <1>2. CASE q.by = Nobody
    <2>1. flush' = flush
      BY <1>2 DEF Answer
    <2>2. FlushInv'
      BY <2>1, MoreStored DEF DeliverInv, FlushInv
    <2>3. WireInv'
      BY <1>1, <2>1 DEF DeliverInv, WireInv, OnItsWay
    <2> QED
      BY <2>2, <2>3
  <1>3. CASE q.by # Nobody
    <2>1. q.by \in Flusher /\ flush[q.by].at = "waiting" /\ flush[q.by].sent = q.record
      BY <1>1, <1>3 DEF OnItsWay
    <2> DEFINE f == q.by
               p == [flush[f] EXCEPT !.reply = reply]
    <2>2. flush' = [flush EXCEPT ![f] = p]
      <3>1. flush = [g \in Flusher |-> flush[g]]
        BY DEF DeliverInv, FlushInv
      <3> QED
        BY <1>3, <3>1 DEF Answer
    <2>3. Fits(flush[f], Stored')
      BY <2>1, MoreStored DEF DeliverInv, FlushInv
    <2>4. Fits(p, Stored')
      BY <2>1, <2>3, RepliedFits
    <2> HIDE DEF p
    <2>5. FlushInv' /\ \A g \in Flusher \ {f} : flush'[g] = flush[g]
      BY <2>1, <2>2, <2>4, FlushMoves DEF DeliverInv
    <2>6. ASSUME NEW w \in wire'  PROVE OnItsWay(w)'
      <3>1. w \in wire /\ w # q /\ OnItsWay(w)
        BY <1>1, <2>6 DEF DeliverInv, WireInv
      <3>2. w.by # f
        <4>1. SUFFICES ASSUME w.by = f  PROVE FALSE
          OBVIOUS
        <4>2. w.record = q.record
          BY <2>1, <3>1, <4>1 DEF OnItsWay
        <4>3. w = q
          BY <1>1, <3>1, <4>1, <4>2 DEF OnItsWay
        <4> QED
          BY <3>1, <4>3
      <3> QED
        BY <2>5, <3>1, <3>2 DEF OnItsWay
    <2> QED
      BY <2>5, <2>6 DEF WireInv
  <1> QED
    BY <1>2, <1>3

LEMMA ServeStep ==
  ASSUME DeliverInv, MetricOutboxAssumption, NEW q \in wire, Serve(q)
  PROVE  DeliverInv' /\ Means
  <1>1. OnItsWay(q)
    BY DEF DeliverInv, WireInv
  <1>2. files' = files /\ submit' = submit
    BY DEF Serve
  <1>3. FilesInv' /\ SubmitInv'
    BY <1>2 DEF DeliverInv, FilesInv, SubmitInv, SubmitFits
  <1>4. CASE Rows(q.record.event) = {}
    <2> DEFINE r == q.record
    <2>1. table' = Append(table, r) /\ Answer(q, "accepted")
      BY <1>4 DEF Serve
    <2>2. r \in Record /\ r \in files \cup Stored
      BY <1>1 DEF OnItsWay
    <2>3. table' \in Seq(Record) /\ Stored' = Stored \cup {r}
      BY <2>1, <2>2, RowAdded DEF DeliverInv, Stored
    <2>4. FlushInv' /\ WireInv'
      BY <1>2, <2>1, <2>3, AnswerFits
    <2>5. r \in files /\ \A s \in Stored : s.event # r.event
      BY <1>4, <2>2 DEF Rows, Stored
    <2>6. Outbox!Store(r)
      <3>1. \A k \in DOMAIN table : table[k] \in Stored
        BY DEF Stored, ToSet
      <3> QED
        BY <1>2, <2>1, <2>5, <3>1 DEF Outbox!Store
    <2>7. Means
      BY <2>2, <2>6 DEF Means, Outbox!Next
    <2> QED
      BY <1>3, <2>3, <2>4, <2>7 DEF DeliverInv
  <1>5. CASE Rows(q.record.event) # {}
    <2> DEFINE reply == IF q.record \in ToSet(table) THEN "duplicate" ELSE "conflict"
    <2>1. table' = table /\ Answer(q, reply)
      BY <1>5 DEF Serve
    <2>2. reply \in {"accepted", "duplicate"} => q.record \in Stored
      BY DEF Stored
    <2>3. Stored' = Stored
      BY <2>1 DEF Stored
    <2> HIDE DEF reply
    <2>4. FlushInv' /\ WireInv'
      BY <1>2, <2>1, <2>2, <2>3, AnswerFits
    <2> QED
      BY <1>2, <2>1, <2>4, Quiet
  <1> QED
    BY <1>4, <1>5

LEMMA RefuseStep ==
  ASSUME DeliverInv, MetricOutboxAssumption, NEW q \in wire, Refuse(q)
  PROVE  DeliverInv' /\ Means
  <1>1. PICK reply \in {"refused", "busy"} : Answer(q, reply)
    BY DEF Refuse
  <1>2. files' = files /\ table' = table /\ submit' = submit /\ Stored' = Stored
    BY DEF Refuse, Stored
  <1>3. FlushInv' /\ WireInv'
    BY <1>1, <1>2, AnswerFits
  <1> QED
    BY <1>2, <1>3, Quiet

-----------------------------------------------------------------------------
(* Sessions and kills.                                                     *)
LEMMA FlushesStopped ==
  ASSUME FlushInv, NEW fs, Stored' = Stored,
         flush' = [f \in Flusher |-> IF f \in fs THEN NoFlush ELSE flush[f]]
  PROVE  FlushInv' /\ \A f \in Flusher \ fs : flush'[f] = flush[f]
  <1>1. \A f \in Flusher : flush'[f] = IF f \in fs THEN NoFlush ELSE flush[f]
    OBVIOUS
  <1>2. \A f \in Flusher : Fits(flush'[f], Stored')
    BY <1>1, NoFlushFits DEF FlushInv
  <1>3. flush' = [f \in Flusher |-> flush'[f]]
    BY <1>1
  <1> QED
    BY <1>1, <1>2, <1>3 DEF FlushInv

LEMMA CloseStep ==
  ASSUME DeliverInv, MetricOutboxAssumption, NEW p \in Process, CloseScope(p)
  PROVE  DeliverInv' /\ Means
  <1> DEFINE fs == {f \in Of(p) : flush[f].at = "waiting"}
  <1>1. files' = files /\ table' = table /\ submit' = submit /\ Stored' = Stored
    BY DEF CloseScope, Stored
  <1>2. flush' = [f \in Flusher |-> IF f \in fs THEN NoFlush ELSE flush[f]]
    BY DEF CloseScope
  <1>3. FlushInv' /\ \A f \in Flusher \ fs : flush'[f] = flush[f]
    BY <1>1, <1>2, FlushesStopped DEF DeliverInv
  <1>4. \A f \in Flusher \ Of(p) : flush'[f] = flush[f]
    BY <1>3
  <1>5. wire' = Abandoned(Of(p))
    BY DEF CloseScope
  <1>6. WireInv'
    BY <1>1, <1>4, <1>5, WireAbandoned DEF DeliverInv
  <1> QED
    BY <1>1, <1>3, <1>6, Quiet

LEMMA OpenStep ==
  ASSUME DeliverInv, NEW p, OpenScope(p)
  PROVE  DeliverInv' /\ Means
  <1>1. files' = files /\ table' = table /\ submit' = submit /\ flush' = flush /\ wire' = wire
    BY DEF OpenScope
  <1>2. Stored' = Stored
    BY <1>1 DEF Stored
  <1>3. FlushInv'
    BY <1>1, <1>2 DEF DeliverInv, FlushInv
  <1>4. WireInv'
    BY <1>1, <1>2 DEF DeliverInv, WireInv, OnItsWay
  <1> QED
    BY <1>1, <1>3, <1>4, Quiet

LEMMA NoSubmitFits == SubmitFits(NoSubmit)
  BY DEF SubmitFits, NoSubmit

LEMMA KillStep ==
  ASSUME DeliverInv, MetricOutboxAssumption, NEW p \in Process, Kill(p)
  PROVE  DeliverInv' /\ Means
  <1>1. files' = files /\ table' = table /\ Stored' = Stored
    BY DEF Kill, Stored
  <1>2. flush' = [f \in Flusher |-> IF f \in Of(p) THEN NoFlush ELSE flush[f]]
    BY DEF Kill
  <1>3. FlushInv' /\ \A f \in Flusher \ Of(p) : flush'[f] = flush[f]
    BY <1>1, <1>2, FlushesStopped DEF DeliverInv
  <1>4. wire' = Abandoned(Of(p))
    BY DEF Kill
  <1>5. WireInv'
    BY <1>1, <1>3, <1>4, WireAbandoned DEF DeliverInv
  <1>6. submit' = [s \in Submitter |-> IF ProcessOf[s] = p THEN NoSubmit ELSE submit[s]]
    BY DEF Kill
  <1>7. \A s \in Submitter : submit'[s] = NoSubmit \/ submit'[s] = submit[s]
    BY <1>6
  <1>8. submit' = [s \in Submitter |-> submit'[s]]
    BY <1>6
  <1>9. SubmitInv'
    BY <1>7, <1>8, NoSubmitFits DEF DeliverInv, SubmitInv, SubmitFits
  <1>10. FilesInv'
    BY <1>1 DEF DeliverInv, FilesInv
  <1> QED
    BY <1>1, <1>3, <1>5, <1>9, <1>10 DEF DeliverInv, Means

-----------------------------------------------------------------------------
(* Submissions.                                                            *)
LEMMA SubmitMoves ==
  ASSUME DeliverInv, NEW s \in Submitter, NEW q, SubmitFits(q),
         submit' = [submit EXCEPT ![s] = q]
  PROVE  SubmitInv'
  <1>1. submit' = [x \in Submitter |-> IF x = s THEN q ELSE submit[x]]
    BY DEF DeliverInv, SubmitInv
  <1>2. \A x \in Submitter : submit'[x] = IF x = s THEN q ELSE submit[x]
    BY <1>1
  <1>3. submit' = [x \in Submitter |-> submit'[x]]
    BY <1>1
  <1>4. \A x \in Submitter : SubmitFits(submit'[x])
    BY <1>2 DEF DeliverInv, SubmitInv
  <1> QED
    BY <1>3, <1>4 DEF SubmitInv, SubmitFits

LEMMA PlaceFits ==
  ASSUME NEW q, SubmitFits(q), q.at # "idle", NEW place
  PROVE  SubmitFits([q EXCEPT !.at = place])
  <1>1. [q EXCEPT !.at = place] = [at |-> place, record |-> q.record]
    BY DEF SubmitFits
  <1> QED
    BY <1>1 DEF SubmitFits

LEMMA PlaceMoves ==
  ASSUME DeliverInv, NEW s \in Submitter, submit[s].at # "idle", NEW place,
         submit' = [submit EXCEPT ![s].at = place]
  PROVE  SubmitInv'
  <1> DEFINE q == [submit[s] EXCEPT !.at = place]
  <1>1. submit' = [submit EXCEPT ![s] = q]
    <2>1. submit = [x \in Submitter |-> submit[x]]
      BY DEF DeliverInv, SubmitInv
    <2> QED
      BY <2>1
  <1>2. SubmitFits(q)
    BY PlaceFits DEF DeliverInv, SubmitInv
  <1> HIDE DEF q
  <1> QED
    BY <1>1, <1>2, SubmitMoves

(* Steps of a submission that write nothing.                               *)
LEMMA SubmitQuiet ==
  ASSUME DeliverInv, files' = files, table' = table, flush' = flush, wire' = wire, SubmitInv'
  PROVE  DeliverInv' /\ Means
  <1>1. Stored' = Stored
    BY DEF Stored
  <1>2. FlushInv'
    BY <1>1 DEF DeliverInv, FlushInv
  <1>3. WireInv'
    BY <1>1 DEF DeliverInv, WireInv, OnItsWay
  <1>4. FilesInv'
    BY DEF DeliverInv, FilesInv
  <1> QED
    BY <1>1, <1>2, <1>3, <1>4 DEF DeliverInv, Means

LEMMA SubmitMetricStep ==
  ASSUME DeliverInv, NEW s \in Submitter, NEW r \in Record, SubmitMetric(s, r)
  PROVE  DeliverInv' /\ Means
  <1>1. SubmitFits([at |-> "target", record |-> r])
    BY DEF SubmitFits
  <1>2. SubmitInv'
    BY <1>1, SubmitMoves DEF SubmitMetric
  <1> QED
    BY <1>2, SubmitQuiet DEF SubmitMetric

LEMMA WaitStep ==
  ASSUME DeliverInv, NEW s \in Submitter, TakeTarget(s) \/ LockTimesOut(s) \/ Count(s)
  PROVE  DeliverInv' /\ Means
  <1>1. submit[s].at # "idle"
    BY DEF TakeTarget, LockTimesOut, Count
  <1>2. \/ EndSubmit(s)
        \/ submit' = [submit EXCEPT ![s].at = "count"]
        \/ submit' = [submit EXCEPT ![s].at = "write"]
    BY DEF TakeTarget, LockTimesOut, Count
  <1>3. SubmitInv'
    BY <1>1, <1>2, PlaceMoves, SubmitMoves, NoSubmitFits DEF EndSubmit
  <1>4. files' = files /\ table' = table /\ flush' = flush /\ wire' = wire
    BY DEF TakeTarget, LockTimesOut, Count
  <1> QED
    BY <1>3, <1>4, SubmitQuiet

(* The file a submission writes is the first of its name.                  *)
LEMMA WriteStep ==
  ASSUME DeliverInv, NEW s \in Submitter, Write(s)
  PROVE  DeliverInv' /\ Means
  <1> DEFINE r == submit[s].record
  <1>1. r \in Record /\ SubmitInv'
    BY SubmitMoves, NoSubmitFits DEF Write, EndSubmit, DeliverInv, SubmitInv, SubmitFits
  <1>2. wire' = wire /\ table' = table /\ Stored' = Stored
    BY DEF Write, Stored
  <1>3. CASE File(r.target, r.event) = {} /\ files' = files \cup {r} /\ flush' = Scheduled(s, r.target)
    <2>1. r \notin files
      BY <1>3 DEF File
    <2>2. FilesInv'
      BY <1>1, <1>3 DEF File, DeliverInv, FilesInv
    <2> DEFINE fs == {f \in Flusher : ProcessOf[f] = ProcessOf[s] /\ TargetOf[f] = r.target
                                       /\ flush[f].at = "idle" /\ ~Closed(f)}
               q == [NoFlush EXCEPT !.at = "select"]
    <2>3. flush' = [f \in Flusher |-> IF f \in fs THEN q ELSE flush[f]]
      BY <1>3 DEF Scheduled
    <2>4. Fits(q, Stored)
      BY ScheduledFits
    <2>5. \A f \in fs : flush[f].at # "waiting"
      OBVIOUS
    <2> HIDE DEF q, fs
    <2>6. \A f \in Flusher : flush'[f] = IF f \in fs THEN q ELSE flush[f]
      BY <2>3
    <2>7. flush' = [f \in Flusher |-> flush'[f]]
      BY <2>3
    <2>8. \A f \in Flusher : Fits(flush'[f], Stored')
      BY <1>2, <2>4, <2>6 DEF DeliverInv, FlushInv
    <2>9. FlushInv'
      BY <2>7, <2>8 DEF FlushInv
    <2>10. \A f \in Flusher \ fs : flush'[f] = flush[f]
      BY <2>6
    <2>11. WireInv'
      BY <1>2, <1>3, <2>5, <2>10, WireKept DEF DeliverInv
    <2>12. Outbox!Submit(r)
      BY <1>2, <1>3, <2>1 DEF Outbox!Submit
    <2>13. Means
      BY <1>1, <2>12 DEF Means, Outbox!Next
    <2> QED
      BY <1>1, <1>2, <2>2, <2>9, <2>11, <2>13 DEF DeliverInv
  <1>4. CASE files' = files /\ flush' = flush
    BY <1>1, <1>2, <1>4, SubmitQuiet
  <1> QED
    BY <1>3, <1>4 DEF Write

-----------------------------------------------------------------------------
LEMMA DeliverInit ==
  ASSUME Init
  PROVE  DeliverInv
  <1>1. Stored = {} /\ table \in Seq(Record)
    BY DEF Init, Stored, ToSet
  <1>2. FlushInv
    BY NoFlushFits DEF Init, FlushInv
  <1>3. SubmitInv
    BY NoSubmitFits DEF Init, SubmitInv, SubmitFits
  <1>4. WireInv /\ FilesInv
    BY DEF Init, WireInv, FilesInv
  <1> QED
    BY <1>1, <1>2, <1>3, <1>4 DEF DeliverInv

LEMMA DeliverStep ==
  ASSUME DeliverInv, [Next]_vars
  PROVE  DeliverInv' /\ Means
  <1>1. MetricOutboxAssumption
    BY MetricOutboxAssumption
  <1>2. ASSUME NEW s \in Submitter, SubmitStep(s)  PROVE DeliverInv' /\ Means
    BY <1>2, WaitStep, WriteStep DEF SubmitStep
  <1>3. ASSUME NEW s \in Submitter, NEW r \in Submits[s], SubmitMetric(s, r)
        PROVE  DeliverInv' /\ Means
    <2>1. r \in Record
      BY <1>1, <1>3 DEF MetricOutboxAssumption
    <2> QED
      BY <1>3, <2>1, SubmitMetricStep
  <1>4. ASSUME NEW f \in Flusher, FlushStep(f)  PROVE DeliverInv' /\ Means
    BY <1>1, <1>4, SelectStep, StopStep, PassOverStep, PostStep, AnsweredStep, ForgetStep
       DEF FlushStep
  <1>5. ASSUME NEW f \in Flusher, NoAnswer(f) \/ \E all \in BOOLEAN : StartFlush(f, all)
        PROVE  DeliverInv' /\ Means
    BY <1>1, <1>5, NoAnswerStep, StartStep
  <1>6. ASSUME NEW q \in wire, Serve(q) \/ Refuse(q)  PROVE DeliverInv' /\ Means
    BY <1>1, <1>6, ServeStep, RefuseStep
  <1>7. ASSUME NEW p \in Process, CloseScope(p) \/ OpenScope(p) \/ Kill(p)
        PROVE  DeliverInv' /\ Means
    BY <1>1, <1>7, CloseStep, OpenStep, KillStep
  <1>8. CASE UNCHANGED vars
    <2>1. SubmitInv'
      BY <1>8 DEF vars, DeliverInv, SubmitInv, SubmitFits
    <2> QED
      BY <1>8, <2>1, SubmitQuiet DEF vars
  <1> QED
    BY <1>2, <1>3, <1>4, <1>5, <1>6, <1>7, <1>8 DEF Next

(* The outbox and its service deliver as Delivery says, for any number of  *)
(* processes, targets and events, whoever is killed, however often a       *)
(* request is sent, answered late or not at all: flushWithConfig removes a *)
(* file only when the table has its record (client.ts), and the service    *)
(* has at most one row of an event (worker.ts).                            *)
THEOREM ImplementsDelivery == Spec => Delivers
  <1>1. Init => DeliverInv /\ Outbox!Init
    BY DeliverInit DEF Init, Outbox!Init
  <1>2. DeliverInv /\ [Next]_vars => DeliverInv' /\ Means
    BY DeliverStep
  <1> QED
    BY <1>1, <1>2, PTL DEF Spec, Delivers, Outbox!Spec, Means

-----------------------------------------------------------------------------
(* The bound of the outbox.  A submission under way has the lock of the    *)
(* outbox, and there is room for what it is about to write.                *)
Alone(s) == submit[s].at # "idle" => locks[Root] = s /\ Live(s)

Room(s) == submit[s].at = "write" => Cardinality(files) < MaxEvents

BoundInv ==
  /\ locks = [l \in Target \cup {Root} |-> locks[l]]
  /\ IsFiniteSet(files) /\ Bounded
  /\ \A s \in Submitter : Alone(s) /\ Room(s)

LEMMA TakeRoot ==
  ASSUME BoundInv, MetricOutboxAssumption, NEW s \in Submitter, Free(Root)
  PROVE  submit[s].at = "idle"
  BY DEF BoundInv, MetricOutboxAssumption, Alone, Free

LEMMA OthersIdle ==
  ASSUME BoundInv, NEW s \in Submitter, submit[s].at # "idle",
         NEW x \in Submitter \ {s}
  PROVE  submit[x].at = "idle"
  BY DEF BoundInv, Alone

(* Nobody but the submission itself gives back the lock of the outbox, and *)
(* other locks do not matter.                                              *)
LEMMA RootKept ==
  ASSUME BoundInv, NEW l \in Target, MetricOutboxAssumption, NEW task, Take(l, task)
  PROVE  /\ locks' = [m \in Target \cup {Root} |-> locks'[m]]
         /\ locks'[Root] = locks[Root]
  <1>1. l # Root
    BY DEF MetricOutboxAssumption, Root
  <1>2. locks' = [m \in Target \cup {Root} |-> IF m = l THEN task ELSE locks[m]]
    BY DEF Take, BoundInv
  <1>3. \A m \in Target \cup {Root} : locks'[m] = IF m = l THEN task ELSE locks[m]
    BY <1>2
  <1> QED
    BY <1>1, <1>2, <1>3

LEMMA RootReleased ==
  ASSUME BoundInv, NEW task, locks' = Released(task)
  PROVE  /\ locks' = [m \in Target \cup {Root} |-> locks'[m]]
         /\ locks[Root] # task => locks'[Root] = locks[Root]
  <1>1. DOMAIN locks = Target \cup {Root}
    BY DEF BoundInv
  <1>2. locks' = [m \in Target \cup {Root} |-> IF locks[m] = task THEN Nobody ELSE locks[m]]
    BY <1>1 DEF Released
  <1>3. \A m \in Target \cup {Root} : locks'[m] = IF locks[m] = task THEN Nobody ELSE locks[m]
    BY <1>2
  <1> QED
    BY <1>2, <1>3

(* Steps that leave submissions alone, and add no file.                    *)
LEMMA BoundKept ==
  ASSUME BoundInv, MetricOutboxAssumption, submit' = submit, dead' = dead,
         files' \subseteq files,
         locks' = [m \in Target \cup {Root} |-> locks'[m]],
         \A s \in Submitter : submit[s].at # "idle" => locks'[Root] = locks[Root]
  PROVE  BoundInv'
  <1>1. IsFiniteSet(files') /\ Cardinality(files') <= Cardinality(files)
    BY FS_Subset DEF BoundInv
  <1>2. Cardinality(files) \in Nat /\ Cardinality(files') \in Nat /\ MaxEvents \in Nat
    BY <1>1, FS_CardinalityType DEF BoundInv, MetricOutboxAssumption
  <1>3. Bounded'
    BY <1>1, <1>2 DEF BoundInv, Bounded
  <1>4. \A s \in Submitter : Room(s)'
    BY <1>1, <1>2 DEF BoundInv, Room
  <1>5. \A s \in Submitter : Alone(s)'
    BY DEF BoundInv, Alone, Live
  <1> QED
    BY <1>1, <1>3, <1>4, <1>5 DEF BoundInv

(* A submission that ends: the others are idle.                            *)
LEMMA BoundEnds ==
  ASSUME BoundInv, DeliverInv, NEW s \in Submitter, submit[s].at # "idle", EndSubmit(s)
  PROVE  /\ locks' = [m \in Target \cup {Root} |-> locks'[m]]
         /\ \A x \in Submitter : submit'[x].at = "idle"
  <1>1. locks' = [m \in Target \cup {Root} |-> locks'[m]]
    BY RootReleased DEF EndSubmit
  <1>2. submit' = [x \in Submitter |-> IF x = s THEN NoSubmit ELSE submit[x]]
    BY DEF EndSubmit, DeliverInv, SubmitInv
  <1>3. NoSubmit.at = "idle"
    BY DEF NoSubmit
  <1>4. \A x \in Submitter : submit'[x] = IF x = s THEN NoSubmit ELSE submit[x]
    BY <1>2
  <1> QED
    BY <1>1, <1>3, <1>4, OthersIdle

LEMMA AllIdle ==
  ASSUME locks' = [m \in Target \cup {Root} |-> locks'[m]],
         \A x \in Submitter : submit'[x].at = "idle",
         IsFiniteSet(files'), Bounded'
  PROVE  BoundInv'
  BY DEF BoundInv, Alone, Room

LEMMA SubmitBound ==
  ASSUME BoundInv, DeliverInv, MetricOutboxAssumption, NEW s \in Submitter,
         NEW r \in Record, SubmitMetric(s, r)
  PROVE  BoundInv'
  <1>1. \A x \in Submitter : submit[x].at = "idle"
    BY TakeRoot DEF SubmitMetric, Take
  <1>2. submit' = [x \in Submitter |-> IF x = s THEN [at |-> "target", record |-> r] ELSE submit[x]]
    BY DEF SubmitMetric, DeliverInv, SubmitInv
  <1>3. \A x \in Submitter : submit'[x].at = IF x = s THEN "target" ELSE "idle"
    BY <1>1, <1>2
  <1>4. locks' = [m \in Target \cup {Root} |-> IF m = Root THEN s ELSE locks[m]]
    BY DEF SubmitMetric, Take, BoundInv
  <1>5. locks'[Root] = s /\ locks' = [m \in Target \cup {Root} |-> locks'[m]]
    BY <1>4
  <1>6. files' = files /\ dead' = dead /\ Live(s)
    BY DEF SubmitMetric
  <1>7. \A x \in Submitter : Alone(x)' /\ Room(x)'
    BY <1>3, <1>5, <1>6 DEF Alone, Room, Live
  <1> QED
    BY <1>5, <1>6, <1>7 DEF BoundInv, Bounded

(* The places of a submission when it moves on.                            *)
LEMMA PlaceChanged ==
  ASSUME DeliverInv, NEW s \in Submitter, NEW place, submit' = [submit EXCEPT ![s].at = place]
  PROVE  \A x \in Submitter : submit'[x].at = IF x = s THEN place ELSE submit[x].at
  <1>1. submit' = [x \in Submitter |-> IF x = s THEN [submit[s] EXCEPT !.at = place] ELSE submit[x]]
    BY DEF DeliverInv, SubmitInv
  <1>2. submit[s] = [at |-> submit[s].at, record |-> submit[s].record]
    BY DEF DeliverInv, SubmitInv, SubmitFits
  <1>3. [submit[s] EXCEPT !.at = place].at = place
    BY <1>2
  <1> QED
    BY <1>1, <1>3

LEMMA SubmitStepBound ==
  ASSUME BoundInv, DeliverInv, MetricOutboxAssumption, NEW s \in Submitter, SubmitStep(s)
  PROVE  BoundInv'
  <1>1. submit[s].at # "idle" /\ dead' = dead
    BY DEF SubmitStep, TakeTarget, LockTimesOut, Count, Write, world
  <1>2. locks[Root] = s /\ Live(s)
    BY <1>1 DEF BoundInv, Alone
  <1>3. CASE TakeTarget(s)
    <2>1. submit[s].record.target \in Target
      BY <1>1 DEF DeliverInv, SubmitInv, SubmitFits, MetricOutboxAssumption
    <2>2. locks' = [m \in Target \cup {Root} |-> locks'[m]] /\ locks'[Root] = locks[Root]
      BY <1>3, <2>1, RootKept DEF TakeTarget
    <2>3. \A x \in Submitter : submit'[x].at = IF x = s THEN "count" ELSE submit[x].at
      <3>1. submit' = [submit EXCEPT ![s].at = "count"]
        BY <1>3 DEF TakeTarget
      <3> QED
        BY <3>1, PlaceChanged
    <2>4. files' = files
      BY <1>3 DEF TakeTarget
    <2>5. \A x \in Submitter : Alone(x)' /\ Room(x)'
      BY <1>1, <1>2, <2>2, <2>3, <2>4 DEF BoundInv, Alone, Room, Live
    <2> QED
      BY <2>2, <2>4, <2>5 DEF BoundInv, Bounded
  <1>4. CASE EndSubmit(s) /\ files' = files
    BY <1>1, <1>4, BoundEnds, AllIdle DEF BoundInv, Bounded
  <1>5. CASE Count(s) /\ ~(Cardinality(files) >= MaxEvents)
    <2>1. submit' = [submit EXCEPT ![s].at = "write"] /\ locks' = locks /\ files' = files
      BY <1>5 DEF Count
    <2>2. \A x \in Submitter : submit'[x].at = IF x = s THEN "write" ELSE submit[x].at
      BY <2>1, PlaceChanged
    <2>3. Cardinality(files) < MaxEvents
      <3>1. Cardinality(files) \in Nat /\ MaxEvents \in Nat
        BY FS_CardinalityType DEF BoundInv, MetricOutboxAssumption
      <3> QED
        BY <1>5, <3>1
    <2>4. \A x \in Submitter : Alone(x)' /\ Room(x)'
      BY <1>1, <1>2, <2>1, <2>2, <2>3 DEF BoundInv, Alone, Room, Live
    <2> QED
      BY <2>1, <2>4 DEF BoundInv, Bounded
  <1>6. CASE Write(s)
    <2>1. EndSubmit(s) /\ submit[s].at = "write"
      BY <1>6 DEF Write
    <2>2. Cardinality(files) < MaxEvents
      BY <2>1 DEF BoundInv, Room
    <2>3. files' = files \/ files' = files \cup {submit[s].record}
      BY <1>6 DEF Write
    <2>4. IsFiniteSet(files') /\ Bounded'
      <3>1. IsFiniteSet(files) /\ Cardinality(files) \in Nat /\ MaxEvents \in Nat
        BY FS_CardinalityType DEF BoundInv, MetricOutboxAssumption
      <3>2. CASE files' = files
        BY <3>1, <3>2 DEF BoundInv, Bounded
      <3>3. CASE files' = files \cup {submit[s].record}
        <4>1. IsFiniteSet(files') /\ Cardinality(files') <= Cardinality(files) + 1
          <5>1. ASSUME NEW r
                PROVE  /\ IsFiniteSet(files \cup {r})
                       /\ \/ Cardinality(files \cup {r}) = Cardinality(files)
                          \/ Cardinality(files \cup {r}) = Cardinality(files) + 1
            BY <3>1, FS_AddElement
          <5>2. PICK r : r = submit[s].record
            OBVIOUS
          <5>3. files' = files \cup {r}
            BY <3>3, <5>2
          <5>4. /\ IsFiniteSet(files')
                /\ \/ Cardinality(files') = Cardinality(files)
                   \/ Cardinality(files') = Cardinality(files) + 1
            BY <5>1, <5>3, Zenon
          <5> QED
            BY <3>1, <5>4
        <4>2. Cardinality(files') \in Nat
          BY <4>1, FS_CardinalityType
        <4> QED
          BY <2>2, <3>1, <4>1, <4>2 DEF Bounded
      <3> QED
        BY <2>3, <3>2, <3>3
    <2> QED
      BY <1>1, <2>1, <2>4, BoundEnds, AllIdle
  <1> QED
    BY <1>3, <1>4, <1>5, <1>6 DEF SubmitStep, LockTimesOut, Count

LEMMA FlushBound ==
  ASSUME BoundInv, DeliverInv, MetricOutboxAssumption, NEW f \in Flusher,
         FlushStep(f) \/ NoAnswer(f) \/ \E all \in BOOLEAN : StartFlush(f, all)
  PROVE  BoundInv'
  <1>1. submit' = submit /\ dead' = dead /\ files' \subseteq files
    BY DEF FlushStep, NoAnswer, StartFlush, Select, Stop, PassOver, Post, Answered, Block,
           Forget, Clear, world
  <1>2. \/ locks' = locks
        \/ Take(TargetOf[f], f)
        \/ locks' = Released(f)
    BY DEF FlushStep, NoAnswer, StartFlush, Select, Stop, PassOver, Post, Answered, Block,
           Forget, Clear, world
  <1>3. \A s \in Submitter : s # f
    BY DEF MetricOutboxAssumption
  <1>4. TargetOf[f] \in Target
    BY DEF MetricOutboxAssumption
  <1>5. locks' = [m \in Target \cup {Root} |-> locks'[m]]
    BY <1>2, <1>4, RootKept, RootReleased DEF BoundInv
  <1>6. \A s \in Submitter : submit[s].at # "idle" => locks'[Root] = locks[Root]
    BY <1>2, <1>3, <1>4, RootKept, RootReleased DEF BoundInv, Alone
  <1> QED
    BY <1>1, <1>5, <1>6, BoundKept

LEMMA WorldBound ==
  ASSUME BoundInv, DeliverInv, MetricOutboxAssumption,
         \/ \E q \in wire : Serve(q) \/ Refuse(q)
         \/ \E p \in Process : CloseScope(p) \/ OpenScope(p)
         \/ UNCHANGED vars
  PROVE  BoundInv'
  <1>1. submit' = submit /\ dead' = dead /\ files' = files /\ locks' = locks
    BY DEF Serve, Refuse, CloseScope, OpenScope, vars, world
  <1> QED
    BY <1>1, BoundKept DEF BoundInv

LEMMA KillBound ==
  ASSUME BoundInv, DeliverInv, MetricOutboxAssumption, NEW p \in Process, Kill(p)
  PROVE  BoundInv'
  <1>1. files' = files /\ locks' = locks /\ dead' = dead \cup {p}
    BY DEF Kill
  <1>2. \A s \in Submitter : submit'[s] = IF ProcessOf[s] = p THEN NoSubmit ELSE submit[s]
    BY DEF Kill
  <1>3. NoSubmit.at = "idle"
    BY DEF NoSubmit
  <1>4. ASSUME NEW s \in Submitter  PROVE Alone(s)' /\ Room(s)'
    <2>1. CASE ProcessOf[s] = p
      BY <1>2, <1>3, <2>1 DEF Alone, Room
    <2>2. CASE ProcessOf[s] # p
      BY <1>1, <1>2, <2>2 DEF BoundInv, Alone, Room, Live
    <2> QED
      BY <2>1, <2>2
  <1> QED
    BY <1>1, <1>4 DEF BoundInv, Bounded

(* The outbox stays within MAX_EVENTS over all targets, however many       *)
(* processes submit: countOutboxEvents and the write are under the lock of *)
(* the outbox, and no kill between them lets somebody else count.          *)
THEOREM WithinBound == Spec => []Bounded
  <1>1. Init => DeliverInv /\ BoundInv
    <2> SUFFICES ASSUME Init  PROVE DeliverInv /\ BoundInv
      OBVIOUS
    <2>1. IsFiniteSet(files) /\ Cardinality(files) = 0
      BY FS_EmptySet DEF Init
    <2>2. Bounded
      BY <2>1, MetricOutboxAssumption DEF Bounded, MetricOutboxAssumption
    <2>3. \A s \in Submitter : submit[s].at = "idle"
      BY DEF Init, NoSubmit
    <2>4. locks = [l \in Target \cup {Root} |-> locks[l]]
      BY DEF Init
    <2> QED
      BY <2>1, <2>2, <2>3, <2>4, DeliverInit DEF BoundInv, Alone, Room
  <1>2. DeliverInv /\ BoundInv /\ [Next]_vars => DeliverInv' /\ BoundInv'
    <2> SUFFICES ASSUME DeliverInv, BoundInv, [Next]_vars  PROVE BoundInv'
      BY DeliverStep
    <2>1. MetricOutboxAssumption
      BY MetricOutboxAssumption
    <2>2. ASSUME NEW s \in Submitter, NEW r \in Submits[s], SubmitMetric(s, r)  PROVE BoundInv'
      <3>1. r \in Record
        BY <2>1, <2>2 DEF MetricOutboxAssumption
      <3> QED
        BY <2>1, <2>2, <3>1, SubmitBound
    <2> QED
      BY <2>1, <2>2, SubmitStepBound, FlushBound, WorldBound, KillBound DEF Next
  <1>3. BoundInv => Bounded
    BY DEF BoundInv
  <1> QED
    BY <1>1, <1>2, <1>3, PTL DEF Spec
=============================================================================
