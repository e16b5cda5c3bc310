--------------------------- MODULE ExtensionProofs ---------------------------
(***************************************************************************)
(* Safety of two extensions whose state lives in the Pi process: background*)
(* compaction, under the names of its module, and the usage display, under *)
(* Usage.  Both answer requests of long ago; neither acts on an answer that*)
(* no longer fits.                                                         *)
(***************************************************************************)
EXTENDS AsyncCompaction, UsageController, Integers, FiniteSetTheorems, WellFoundedInduction,
        SequenceTheorems, TLAPS

CONSTANTS Account, Context, FailedAnswer   \* of the usage display

VARIABLE closed                            \* of the usage display

Usage == INSTANCE UsageScope WITH Failed <- FailedAnswer

(* ---- the table of attempts --------------------------------------------------- *)

\* An attempt has no answer to come.
Answered(r) == r.settled \/ ~ r.request

\* Only an answered attempt has a summary or is offered.
Earned(r) == r.offered \/ r.summary => r.settled

\* An attempt that nobody cancelled was not stopped and left no compaction to the host,
\* and one that is not yet in use has no request and no outcome.
SoundAttempt(r) ==
  /\ ~ r.cancelled => r.reason # "stop" /\ ~ r.nativeFallback
  /\ ~ r.used => ~ r.request /\ r.recorded = "none"
  /\ Earned(r)

\* A table of sound attempts.
Table(t) == t \in [Ids -> Attempt] /\ \A a \in Ids : SoundAttempt(t[a])

\* What nothing changes of an attempt in use: its snapshot, its answer, and that it is out
\* of date.
Lasting(r, s) ==
  /\ s.source = r.source /\ s.used = r.used /\ (Answered(r) => Answered(s))
  /\ s.current => r.current /\ s.boundary \in {r.boundary, Leaf(branch)}

\* What the controller's helpers leave of each attempt, its outcome included once it is
\* recorded. None of them records an adoption.
SameAttempt(r, s) ==
  /\ Lasting(r, s)
  /\ s.recorded # r.recorded => r.recorded = "none" /\ s.recorded # "adopted"

\* The summary of an attempt is not in the branch on account of the compaction that the
\* host has just committed.
MayBeLost(a) == host # "committed" \/ ~ Answered(attempts[a]) \/ ~ OwnsCommit(a)

\* What they leave of the table. Only an attempt that may be lost is recorded as
\* discarded or failed.
Follows(t, u) ==
  \A a \in Ids : /\ SameAttempt(t[a], u[a])
                 /\ u[a].recorded \notin {t[a].recorded, "cancelled"} => MayBeLost(a)

\* Nothing changed.
LEMMA FollowsItself ==
  ASSUME NEW t
  PROVE  Follows(t, t)
  BY DEF Follows, SameAttempt, Lasting

\* What helpers leave, a sequence of helpers leaves.
LEMMA FollowsOn ==
  ASSUME NEW t, NEW u, NEW v, Follows(t, u), Follows(u, v)
  PROVE  Follows(t, v)
  BY DEF Follows, SameAttempt, Lasting

\* The fields of an attempt other than one are kept (those of its cut and of whether it
\* still fits are in no invariant).
Kept(r, s, field) ==
  /\ field # "source" => s.source = r.source
  /\ field # "used" => s.used = r.used
  /\ field # "current" => s.current = r.current
  /\ field # "request" => s.request = r.request
  /\ field # "settled" => s.settled = r.settled
  /\ field # "summary" => s.summary = r.summary
  /\ field # "offered" => s.offered = r.offered
  /\ field # "cancelled" => s.cancelled = r.cancelled
  /\ field # "nativeFallback" => s.nativeFallback = r.nativeFallback
  /\ field # "reason" => s.reason = r.reason
  /\ field # "boundary" => s.boundary = r.boundary
  /\ field # "recorded" => s.recorded = r.recorded

\* The fields of an attempt are set one at a time.
LEMMA SetCurrent ==
  ASSUME NEW r \in Attempt, NEW x \in BOOLEAN, NEW s, s = [r EXCEPT !.current = x]
  PROVE  s \in Attempt /\ s.current = x /\ Kept(r, s, "current")
  BY SMT DEF Attempt, Kept

LEMMA SetCancelled ==
  ASSUME NEW r \in Attempt, NEW x \in BOOLEAN, NEW s, s = [r EXCEPT !.cancelled = x]
  PROVE  s \in Attempt /\ s.cancelled = x /\ Kept(r, s, "cancelled")
  BY SMT DEF Attempt, Kept

LEMMA SetReason ==
  ASSUME NEW r \in Attempt, NEW x \in Reasons, NEW s, s = [r EXCEPT !.reason = x]
  PROVE  s \in Attempt /\ s.reason = x /\ Kept(r, s, "reason")
  BY SMT DEF Attempt, Kept

LEMMA SetRecorded ==
  ASSUME NEW r \in Attempt, NEW x \in Outcomes, NEW s, s = [r EXCEPT !.recorded = x]
  PROVE  s \in Attempt /\ s.recorded = x /\ Kept(r, s, "recorded")
  BY SMT DEF Attempt, Kept

LEMMA SetOffered ==
  ASSUME NEW r \in Attempt, NEW x \in BOOLEAN, NEW s, s = [r EXCEPT !.offered = x]
  PROVE  s \in Attempt /\ s.offered = x /\ Kept(r, s, "offered")
  BY SMT DEF Attempt, Kept

LEMMA SetBoundary ==
  ASSUME NEW r \in Attempt, NEW x \in Nat, NEW s, s = [r EXCEPT !.boundary = x]
  PROVE  s \in Attempt /\ s.boundary = x /\ Kept(r, s, "boundary")
  BY SMT DEF Attempt, Kept

LEMMA SetFitting ==
  ASSUME NEW r \in Attempt, NEW x \in BOOLEAN, NEW s, s = [r EXCEPT !.fitting = x]
  PROVE  s \in Attempt /\ s.fitting = x /\ Kept(r, s, "fitting")
  BY SMT DEF Attempt, Kept

LEMMA SetSettled ==
  ASSUME NEW r \in Attempt, NEW x \in BOOLEAN, NEW s, s = [r EXCEPT !.settled = x]
  PROVE  s \in Attempt /\ s.settled = x /\ Kept(r, s, "settled")
  BY SMT DEF Attempt, Kept

LEMMA SetSummary ==
  ASSUME NEW r \in Attempt, NEW x \in BOOLEAN, NEW s, s = [r EXCEPT !.summary = x]
  PROVE  s \in Attempt /\ s.summary = x /\ Kept(r, s, "summary")
  BY SMT DEF Attempt, Kept

LEMMA SetFallback ==
  ASSUME NEW r \in Attempt, NEW x \in BOOLEAN, NEW s, s = [r EXCEPT !.nativeFallback = x]
  PROVE  s \in Attempt /\ s.nativeFallback = x /\ Kept(r, s, "nativeFallback")
  BY SMT DEF Attempt, Kept

LEMMA SetSource ==
  ASSUME NEW r \in Attempt, NEW x \in Seq(Entry), NEW s, s = [r EXCEPT !.source = x]
  PROVE  s \in Attempt /\ s.source = x /\ Kept(r, s, "source")
  BY SMT DEF Attempt, Kept

LEMMA SetCut ==
  ASSUME NEW r \in Attempt, NEW x \in Nat, NEW s, s = [r EXCEPT !.cut = x]
  PROVE  s \in Attempt /\ s.cut = x /\ Kept(r, s, "cut")
  BY SMT DEF Attempt, Kept

LEMMA SetUsed ==
  ASSUME NEW r \in Attempt, NEW x \in BOOLEAN, NEW s, s = [r EXCEPT !.used = x]
  PROVE  s \in Attempt /\ s.used = x /\ Kept(r, s, "used")
  BY SMT DEF Attempt, Kept

LEMMA SetRequest ==
  ASSUME NEW r \in Attempt, NEW x \in BOOLEAN, NEW s, s = [r EXCEPT !.request = x]
  PROVE  s \in Attempt /\ s.request = x /\ Kept(r, s, "request")
  BY SMT DEF Attempt, Kept

\* One attempt of the table is changed.
LEMMA OneChanged ==
  ASSUME NEW t \in [Ids -> Attempt], NEW a \in Ids, NEW s \in Attempt
  PROVE  LET u == [t EXCEPT ![a] = s]
         IN  u \in [Ids -> Attempt] /\ u[a] = s /\ \A b \in Ids \ {a} : u[b] = t[b]
  OBVIOUS

\* A sound attempt may take the place of one it follows.
LEMMA ChangedTable ==
  ASSUME NEW t, Table(t), NEW a \in Ids, NEW s \in Attempt, SoundAttempt(s), SameAttempt(t[a], s),
         s.recorded \notin {t[a].recorded, "cancelled"} => MayBeLost(a)
  PROVE  Table([t EXCEPT ![a] = s]) /\ Follows(t, [t EXCEPT ![a] = s])
  <1> DEFINE u == [t EXCEPT ![a] = s]
  <1>1. u \in [Ids -> Attempt] /\ u[a] = s /\ \A b \in Ids \ {a} : u[b] = t[b]
    BY OneChanged DEF Table
  <1> HIDE DEF u
  <1>2. Table(u)
    BY <1>1 DEF Table
  <1>3. \A b \in Ids : /\ SameAttempt(t[b], u[b])
                       /\ u[b].recorded \notin {t[b].recorded, "cancelled"} => MayBeLost(b)
    BY <1>1 DEF SameAttempt, Lasting
  <1> QED
    BY <1>2, <1>3 DEF Follows, u

\* record keeps the table, whatever the outcome other than adoption.
LEMMA Recorded ==
  ASSUME NEW t, Table(t), NEW a \in Ids, t[a].used,
         NEW outcome \in {"discarded", "cancelled", "failed"},
         outcome = "cancelled" \/ MayBeLost(a)
  PROVE  Table(Record(t, a, outcome)) /\ Follows(t, Record(t, a, outcome))
  <1> DEFINE r == t[a]
             s == [r EXCEPT !.recorded = outcome]
  <1>1. r \in Attempt /\ SoundAttempt(r) /\ outcome \in Outcomes /\ outcome # "adopted"
    BY DEF Table, Outcomes
  <1>2. CASE r.recorded = "none" /\ SameBranch(a)
    <2>1. Record(t, a, outcome) = [t EXCEPT ![a] = s]
      BY <1>2 DEF Record
    <2>2. s \in Attempt /\ s.recorded = outcome /\ Kept(r, s, "recorded")
      <3> HIDE DEF r
      <3> QED
        BY <1>1, SetRecorded
    <2> HIDE DEF s
    <2>3. SoundAttempt(s) /\ SameAttempt(t[a], s)
      BY <1>1, <1>2, <2>2 DEF SoundAttempt, SameAttempt, Lasting, Earned, Answered, Kept
    <2>4. Table([t EXCEPT ![a] = s]) /\ Follows(t, [t EXCEPT ![a] = s])
      <3>1. /\ s \in Attempt /\ SoundAttempt(s) /\ SameAttempt(t[a], s)
            /\ s.recorded \notin {t[a].recorded, "cancelled"} => MayBeLost(a)
        BY <2>2, <2>3
      <3> HIDE DEF r
      <3> QED
        BY <3>1, ChangedTable
    <2> QED
      BY <2>1, <2>4
  <1>3. CASE ~ (r.recorded = "none" /\ SameBranch(a))
    BY <1>3, FollowsItself DEF Record
  <1> QED
    BY <1>2, <1>3

\* A new generation changes nothing but what is current.
LEMMA Outdated ==
  ASSUME NEW t \in [Ids -> Attempt]
  PROVE  /\ NewGeneration(t) \in [Ids -> Attempt] /\ Follows(t, NewGeneration(t))
         /\ \A a \in Ids : Kept(t[a], NewGeneration(t)[a], "current") /\ ~ NewGeneration(t)[a].current
  <1> DEFINE u == NewGeneration(t)
  <1>1. u = [a \in Ids |-> [t[a] EXCEPT !.current = FALSE]]
    BY DEF NewGeneration
  <1>2. ASSUME NEW a \in Ids
        PROVE  /\ u[a] \in Attempt /\ SameAttempt(t[a], u[a])
               /\ Kept(t[a], u[a], "current") /\ ~ u[a].current
    <2>1. u[a] = [t[a] EXCEPT !.current = FALSE] /\ t[a] \in Attempt /\ FALSE \in BOOLEAN
      BY <1>1
    <2> HIDE DEF u
    <2>2. u[a] \in Attempt /\ Kept(t[a], u[a], "current") /\ ~ u[a].current
      BY <2>1, SetCurrent
    <2> QED
      BY <2>2 DEF SameAttempt, Lasting, Answered, Kept
  <1>3. u \in [Ids -> Attempt]
    <2>1. \A a \in Ids : [t[a] EXCEPT !.current = FALSE] \in Attempt
      BY <1>1, <1>2
    <2> QED
      BY <1>1, <2>1
  <1> HIDE DEF u
  <1>4. \A a \in Ids : u[a].recorded = t[a].recorded
    BY <1>2 DEF Kept
  <1> QED
    BY <1>2, <1>3, <1>4 DEF Follows, u

\* It keeps the table.
LEMMA OutdatedTable ==
  ASSUME NEW t, Table(t)
  PROVE  Table(NewGeneration(t)) /\ Follows(t, NewGeneration(t))
  BY Outdated DEF Table, SoundAttempt, Earned, Kept

\* What is forgotten of an attempt is neither its snapshot nor its outcome.
LEMMA Forgotten ==
  ASSUME NEW t, Table(t)
  PROVE  Table(Forget(t)) /\ Follows(t, Forget(t))
  <1> DEFINE u == Forget(t)
  <1>1. ASSUME NEW a \in Ids
        PROVE  /\ u[a] \in Attempt /\ SoundAttempt(u[a]) /\ SameAttempt(t[a], u[a])
               /\ u[a].recorded = t[a].recorded
    <2> DEFINE q == t[a]
               o == Unused
               r == [o EXCEPT !.used = q.used]
               s == [r EXCEPT !.source = q.source]
               v == [s EXCEPT !.recorded = q.recorded]
    <2>1. q \in Attempt /\ SoundAttempt(q)
      BY DEF Table
    <2>2. q.used \in BOOLEAN /\ q.source \in Seq(Entry) /\ q.recorded \in Outcomes
      BY <2>1 DEF Attempt
    <2>3. /\ o \in Attempt /\ o.cancelled = FALSE /\ o.reason = "none" /\ o.request = FALSE
          /\ o.offered = FALSE /\ o.summary = FALSE /\ o.nativeFallback = FALSE
          /\ o.current = FALSE
      BY DEF Unused, Attempt, Reasons, Outcomes
    <2>4. u[a] = v \/ u[a] = q
      <3>1. v = [Unused EXCEPT !.used = t[a].used, !.source = t[a].source,
                               !.recorded = t[a].recorded]
        BY DEF Unused
      <3>2. u[a] = IF t[a].settled \/ ~ t[a].request
                   THEN [Unused EXCEPT !.used = t[a].used, !.source = t[a].source,
                                       !.recorded = t[a].recorded]
                   ELSE t[a]
        BY Zenon DEF Forget
      <3> HIDE DEF v
      <3> QED
        BY <3>1, <3>2
    <2> HIDE DEF q, o, u
    <2>5. r \in Attempt /\ r.used = q.used /\ Kept(o, r, "used")
      BY <2>2, <2>3, SetUsed
    <2> HIDE DEF r
    <2>6. s \in Attempt /\ s.source = q.source /\ Kept(r, s, "source")
      BY <2>2, <2>5, SetSource
    <2> HIDE DEF s
    <2>7. v \in Attempt /\ v.recorded = q.recorded /\ Kept(s, v, "recorded")
      BY <2>2, <2>6, SetRecorded
    <2> HIDE DEF v
    <2>8. /\ v.used = q.used /\ v.source = q.source /\ v.request = FALSE /\ v.cancelled = FALSE
          /\ v.reason = "none" /\ v.offered = FALSE /\ v.summary = FALSE
          /\ v.nativeFallback = FALSE /\ v.current = FALSE
      BY <2>3, <2>5, <2>6, <2>7 DEF Kept
    <2>9. /\ SoundAttempt(v) /\ SameAttempt(q, v) /\ v.recorded = q.recorded
          /\ SameAttempt(q, q)
      BY <2>1, <2>7, <2>8 DEF SoundAttempt, SameAttempt, Lasting, Earned, Answered
    <2> QED
      BY <2>1, <2>4, <2>7, <2>9 DEF q
  <1>2. u \in [Ids -> Attempt]
    <2>1. DOMAIN u = Ids /\ u = [a \in Ids |-> u[a]]
      BY DEF Forget
    <2> HIDE DEF u
    <2> QED
      BY <1>1, <2>1
  <1> HIDE DEF u
  <1> QED
    BY <1>1, <1>2 DEF Table, Follows, u

\* cancel makes up for a reason that was given before.
LEMMA Cancelled ==
  ASSUME NEW t, t \in [Ids -> Attempt], NEW a \in 0 .. MaxAttempts, a # 0 => t[a].used,
         \A b \in Ids : Earned(t[b]) /\ (b # a \/ t[b].cancelled => SoundAttempt(t[b])),
         NEW reason \in {"stop", "retire"}
  PROVE  Table(Cancel(t, a, reason)) /\ Follows(t, Cancel(t, a, reason))
  <1> DEFINE marked == [t EXCEPT ![a].cancelled = TRUE,
                                 ![a].reason = IF @ = "none" THEN reason ELSE @]
  <1>1. CASE a \notin Ids \/ t[a].cancelled
    <2>1. Cancel(t, a, reason) = t
      BY <1>1 DEF Cancel
    <2>2. a \notin Ids \/ (a \in Ids /\ t[a].cancelled)
      BY <1>1
    <2>3. \A b \in Ids : SoundAttempt(t[b])
      BY <2>2
    <2> QED
      BY <2>1, <2>3, FollowsItself DEF Table
  <1>2. CASE a \in Ids /\ ~ t[a].cancelled
    <2>0. a # 0 /\ t[a].used
      <3>1. a # 0
        BY <1>2, AsyncAssumption DEF Ids
      <3> QED
        BY <3>1
    <2> DEFINE q == t[a]
               why == IF q.reason = "none" THEN reason ELSE q.reason
               r == [q EXCEPT !.cancelled = TRUE]
               s == [r EXCEPT !.reason = why]
    <2>1. why \in Reasons
      BY <1>2 DEF Reasons, Attempt
    <2>2. marked = [t EXCEPT ![a] = s]
      BY <1>2 DEF Attempt
    <2> HIDE DEF why
    <2>3. r \in Attempt /\ r.cancelled = TRUE /\ Kept(q, r, "cancelled")
      <3>1. q \in Attempt
        BY <1>2
      <3> HIDE DEF q
      <3> QED
        BY <3>1, SetCancelled
    <2>4. s \in Attempt /\ s.reason = why /\ Kept(r, s, "reason")
      <3> HIDE DEF r, q
      <3> QED
        BY <2>1, <2>3, SetReason
    <2> HIDE DEF r, s
    <2>5. SoundAttempt(s) /\ SameAttempt(t[a], s) /\ s.recorded = t[a].recorded /\ s.used
      BY <1>2, <2>0, <2>3, <2>4 DEF SoundAttempt, SameAttempt, Lasting, Earned, Answered, Kept
    <2>5a. Table(marked) /\ Follows(t, marked) /\ marked[a].used
      <3>1. marked \in [Ids -> Attempt] /\ marked[a] = s /\ \A b \in Ids \ {a} : marked[b] = t[b]
        BY <1>2, <2>2, <2>4, OneChanged
      <3> HIDE DEF marked
      <3>2. Table(marked)
        BY <1>2, <2>5, <3>1 DEF Table
      <3>3. \A b \in Ids : SameAttempt(t[b], marked[b]) /\ marked[b].recorded = t[b].recorded
        BY <2>5, <3>1 DEF SameAttempt, Lasting
      <3> QED
        BY <2>5, <3>1, <3>2, <3>3 DEF Follows
    <2>6. Cancel(t, a, reason) \in {marked, Record(marked, a, "cancelled")}
      BY <1>2 DEF Cancel
    <2> HIDE DEF marked
    <2>7. /\ Table(Record(marked, a, "cancelled"))
          /\ Follows(marked, Record(marked, a, "cancelled"))
      BY <1>2, <2>5a, Recorded
    <2> QED
      BY <2>5a, <2>6, <2>7, FollowsOn
  <1> QED
    BY <1>1, <1>2

\* cancel keeps the table.
LEMMA CancelledTable ==
  ASSUME NEW t, Table(t), NEW a \in 0 .. MaxAttempts, a # 0 => t[a].used,
         NEW reason \in {"stop", "retire"}
  PROVE  Table(Cancel(t, a, reason)) /\ Follows(t, Cancel(t, a, reason))
  BY Cancelled DEF Table, SoundAttempt

(* ---- what each step does to the attempts --------------------------------------- *)

\* The attempt in the slot is one of those in use.
SlotUsed(t, s) == s \in 0 .. MaxAttempts /\ (s # 0 => t[s].used)

\* The slot is empty or an attempt.
LEMMA SlotIsAttempt ==
  ASSUME SlotUsed(attempts, slot)
  PROVE  slot # 0 <=> slot \in Ids
  BY AsyncAssumption DEF SlotUsed, Ids

\* An attempt in use stays in use.
LEMMA SlotKept ==
  ASSUME NEW t, NEW u, NEW s, SlotUsed(t, s), Follows(t, u)
  PROVE  SlotUsed(u, s)
  <1>1. s # 0 => s \in Ids
    BY AsyncAssumption DEF SlotUsed, Ids
  <1> QED
    BY <1>1 DEF SlotUsed, Follows, SameAttempt, Lasting

\* set gives up the attempt only when the feature is left.
LEMMA ApplyBothKeeps ==
  ASSUME Table(attempts), SlotUsed(attempts, slot), NEW first, NEW on, ApplyBoth(first, on)
  PROVE  Table(attempts') /\ Follows(attempts, attempts')
  <1> DEFINE retired == NewGeneration(attempts)
             left == Cancel(retired, slot, "retire")
  <1>1. Table(retired) /\ Follows(attempts, retired)
    BY OutdatedTable
  <1>2. Table(left) /\ Follows(attempts, left)
    <2> HIDE DEF retired
    <2>1. slot \in 0 .. MaxAttempts /\ (slot # 0 => retired[slot].used)
      BY <1>1, SlotKept DEF SlotUsed
    <2>2. Table(left) /\ Follows(retired, left)
      BY <1>1, <2>1, CancelledTable
    <2> QED
      BY <1>1, <2>2, FollowsOn
  <1>3. attempts' \in {left, attempts, retired}
    BY DEF ApplyBoth
  <1> HIDE DEF left, retired
  <1> QED
    BY <1>1, <1>2, <1>3, FollowsItself

\* A stop names its reason and cancels.
LEMMA StopAttemptKeeps ==
  ASSUME Table(attempts), SlotUsed(attempts, slot), NEW reason \in {"stop", "retire"},
         StopAttempt(reason)
  PROVE  Table(attempts') /\ Follows(attempts, attempts')
  <1> DEFINE named == [a \in Ids |-> IF a = slot /\ ~ attempts[a].cancelled
                                     THEN [attempts[a] EXCEPT !.reason = reason]
                                     ELSE attempts[a]]
             retired == NewGeneration(named)
  <1>0. \A a \in Ids : attempts[a] \in Attempt /\ SoundAttempt(attempts[a])
    BY DEF Table
  <1>1. ASSUME NEW a \in Ids
        PROVE  /\ named[a] \in Attempt /\ Kept(attempts[a], named[a], "reason")
               /\ a # slot \/ attempts[a].cancelled => named[a] = attempts[a]
    <2>1. CASE a = slot /\ ~ attempts[a].cancelled
      <3>1. named[a] = [attempts[a] EXCEPT !.reason = reason] /\ reason \in Reasons
        BY <2>1 DEF Reasons
      <3> HIDE DEF named
      <3> QED
        BY <1>0, <2>1, <3>1, SetReason
    <2>2. CASE ~ (a = slot /\ ~ attempts[a].cancelled)
      <3>1. named[a] = attempts[a]
        BY <2>2
      <3> HIDE DEF named
      <3> QED
        BY <1>0, <3>1 DEF Kept
    <2> QED
      BY <2>1, <2>2
  <1>2. named \in [Ids -> Attempt]
    BY <1>1
  <1> HIDE DEF named
  <1>3. /\ retired \in [Ids -> Attempt] /\ Follows(named, retired)
        /\ \A a \in Ids : Kept(named[a], retired[a], "current")
    BY <1>2, Outdated
  <1>4. Follows(attempts, named)
    BY <1>1 DEF Follows, SameAttempt, Lasting, Answered, Kept
  <1>5. attempts' = Cancel(retired, slot, reason)
    BY DEF StopAttempt, named
  <1> HIDE DEF retired
  <1>6. ASSUME NEW b \in Ids
        PROVE  Earned(retired[b]) /\ (b # slot \/ retired[b].cancelled => SoundAttempt(retired[b]))
    <2>1. Kept(attempts[b], named[b], "reason") /\ Kept(named[b], retired[b], "current")
      BY <1>1, <1>3
    <2>2. Earned(retired[b])
      BY <1>0, <2>1 DEF SoundAttempt, Earned, Kept
    <2>3. ASSUME b # slot \/ retired[b].cancelled
          PROVE  SoundAttempt(retired[b])
      <3>1. named[b] = attempts[b]
        BY <1>1, <2>1, <2>3 DEF Kept
      <3> QED
        BY <1>0, <2>1, <3>1 DEF SoundAttempt, Earned, Kept
    <2> QED
      BY <2>2, <2>3
  <1>7. slot \in 0 .. MaxAttempts /\ (slot # 0 => retired[slot].used)
    BY <1>1, <1>3, SlotIsAttempt DEF SlotUsed, Kept
  <1>8. Table(attempts') /\ Follows(retired, attempts')
    BY <1>3, <1>5, <1>6, <1>7, Cancelled
  <1> QED
    BY <1>3, <1>4, <1>8, FollowsOn

\* Marking an offer.
LEMMA OfferKeeps ==
  ASSUME Table(attempts), NEW a \in Ids, attempts[a].settled, Leaf(branch) \in Nat,
         attempts' = [attempts EXCEPT ![a].offered = TRUE, ![a].boundary = Leaf(branch)]
  PROVE  Table(attempts') /\ Follows(attempts, attempts')
  <1> DEFINE leaf == Leaf(branch)
             q == attempts[a]
             r == [q EXCEPT !.offered = TRUE]
             s == [r EXCEPT !.boundary = leaf]
  <1>1. q \in Attempt /\ SoundAttempt(q) /\ TRUE \in BOOLEAN /\ attempts \in [Ids -> Attempt]
    BY DEF Table
  <1>2. attempts' = [attempts EXCEPT ![a] = s]
    BY <1>1
  <1>a. q.settled /\ leaf \in Nat /\ leaf = Leaf(branch)
    OBVIOUS
  <1> HIDE DEF q, leaf
  <1>3. r \in Attempt /\ r.offered = TRUE /\ Kept(q, r, "offered")
    BY <1>1, SetOffered
  <1> HIDE DEF r
  <1>4. s \in Attempt /\ s.boundary = leaf /\ Kept(r, s, "boundary")
    BY <1>a, <1>3, SetBoundary
  <1> HIDE DEF s
  <1>5. SoundAttempt(s) /\ SameAttempt(q, s) /\ s.recorded = q.recorded
    BY <1>1, <1>a, <1>3, <1>4 DEF SoundAttempt, SameAttempt, Lasting, Earned, Answered, Kept
  <1>6. Table([attempts EXCEPT ![a] = s]) /\ Follows(attempts, [attempts EXCEPT ![a] = s])
    BY <1>4, <1>5, ChangedTable DEF q
  <1> QED
    BY <1>2, <1>6

\* An answer settles its attempt.
LEMMA ReplyKeeps ==
  ASSUME Table(attempts), NEW a \in Ids, Reply(a)
  PROVE  Table(attempts') /\ Follows(attempts, attempts')
  <1>0. PICK completed \in BOOLEAN :
        LET kept == completed /\ enabled /\ ~attempts[a].cancelled /\ attempts[a].current
            live == bound /\ SameBranch(a)
            done == [attempts EXCEPT ![a].settled = TRUE, ![a].summary = kept]
        IN  attempts' = IF live /\ ~kept
                        THEN Record(done, a, IF attempts[a].cancelled THEN "cancelled" ELSE "failed")
                        ELSE done
    BY DEF Reply
  <1> DEFINE kept == completed /\ enabled /\ ~attempts[a].cancelled /\ attempts[a].current
             done == [attempts EXCEPT ![a].settled = TRUE, ![a].summary = kept]
             outcome == IF attempts[a].cancelled THEN "cancelled" ELSE "failed"
             q == attempts[a]
             r == [q EXCEPT !.settled = TRUE]
             s == [r EXCEPT !.summary = kept]
  <1>1. q \in Attempt /\ SoundAttempt(q) /\ TRUE \in BOOLEAN /\ attempts \in [Ids -> Attempt]
    BY DEF Table
  <1>2. done = [attempts EXCEPT ![a] = s]
    BY <1>1
  <1>3. attempts' \in {done, Record(done, a, outcome)}
    BY <1>0
  <1>4. q.used
    BY <1>1 DEF SoundAttempt, Reply
  <1>5. kept \in BOOLEAN /\ outcome \in {"discarded", "cancelled", "failed"}
    OBVIOUS
  <1> HIDE DEF q, done, kept, outcome
  <1>6. r \in Attempt /\ r.settled = TRUE /\ Kept(q, r, "settled")
    BY <1>1, SetSettled
  <1> HIDE DEF r
  <1>7. s \in Attempt /\ s.summary = kept /\ Kept(r, s, "summary")
    BY <1>5, <1>6, SetSummary
  <1> HIDE DEF s
  <1>8. SoundAttempt(s) /\ SameAttempt(q, s) /\ s.recorded = q.recorded /\ s.used
    BY <1>1, <1>4, <1>6, <1>7 DEF SoundAttempt, SameAttempt, Lasting, Earned, Answered, Kept
  <1>9. Table(done) /\ Follows(attempts, done)
    BY <1>2, <1>7, <1>8, ChangedTable DEF q
  <1>10. done[a].used
    BY <1>1, <1>2, <1>7, <1>8, OneChanged
  <1>m. MayBeLost(a)
    BY DEF Reply, MayBeLost, Answered
  <1>11. Table(Record(done, a, outcome)) /\ Follows(done, Record(done, a, outcome))
    BY <1>5, <1>9, <1>10, <1>m, Recorded
  <1>12. Follows(attempts, Record(done, a, outcome))
    BY <1>9, <1>11, FollowsOn
  <1> QED
    BY <1>3, <1>9, <1>11, <1>12

\* The budget of an attempt runs out.
LEMMA DeadlineKeeps ==
  ASSUME Table(attempts), NEW a \in Ids, Deadline(a)
  PROVE  Table(attempts') /\ Follows(attempts, attempts')
  <1> DEFINE q == attempts[a]
             why == "retire"
             r == [q EXCEPT !.cancelled = TRUE]
             s == [r EXCEPT !.reason = why]
  <1>1. q \in Attempt /\ SoundAttempt(q) /\ TRUE \in BOOLEAN /\ attempts \in [Ids -> Attempt]
    BY DEF Table
  <1>2. attempts' = [attempts EXCEPT ![a] = s]
    BY <1>1 DEF Deadline
  <1>3. why \in Reasons
    BY DEF Reasons
  <1> HIDE DEF q, why
  <1>4. r \in Attempt /\ r.cancelled = TRUE /\ Kept(q, r, "cancelled")
    BY <1>1, SetCancelled
  <1> HIDE DEF r
  <1>5. s \in Attempt /\ s.reason = why /\ Kept(r, s, "reason")
    BY <1>3, <1>4, SetReason
  <1> HIDE DEF s
  <1>6. SoundAttempt(s) /\ SameAttempt(q, s) /\ s.recorded = q.recorded
    BY <1>1, <1>4, <1>5 DEF SoundAttempt, SameAttempt, Lasting, Earned, Answered, Kept
  <1>7. Table([attempts EXCEPT ![a] = s]) /\ Follows(attempts, [attempts EXCEPT ![a] = s])
    BY <1>5, <1>6, ChangedTable DEF q
  <1> QED
    BY <1>2, <1>7

\* A reason is given to the attempt the host waits for, and it is cancelled unless
\* that has been done.
LEMMA NamedAndCancelled ==
  ASSUME Table(attempts), NEW a \in Ids, attempts[a].used, NEW reason \in Reasons,
         ~ attempts[a].cancelled => reason \in {"stop", "retire"},
         NEW named, named = [attempts EXCEPT ![a].reason = reason]
  PROVE  /\ attempts[a].cancelled => Table(named) /\ Follows(attempts, named)
         /\ ~ attempts[a].cancelled =>
              /\ Table(Cancel(named, a, reason))
              /\ Follows(attempts, Cancel(named, a, reason))
         /\ named[a].reason = reason
  <1> DEFINE q == attempts[a]
             s == [q EXCEPT !.reason = reason]
  <1>1. q \in Attempt /\ SoundAttempt(q) /\ attempts \in [Ids -> Attempt]
    BY DEF Table
  <1>2. named = [attempts EXCEPT ![a] = s]
    BY <1>1
  <1>3. s \in Attempt /\ s.reason = reason /\ Kept(q, s, "reason")
    <2> HIDE DEF q
    <2> QED
      BY <1>1, SetReason
  <1> HIDE DEF s
  <1>4. named \in [Ids -> Attempt] /\ named[a] = s /\ \A b \in Ids \ {a} : named[b] = attempts[b]
    BY <1>1, <1>2, <1>3, OneChanged
  <1>5. \A b \in Ids : Earned(named[b]) /\ (b # a \/ named[b].cancelled => SoundAttempt(named[b]))
    BY <1>1, <1>3, <1>4 DEF SoundAttempt, Table, Earned, Kept
  <1>6. Follows(attempts, named)
    BY <1>3, <1>4 DEF Follows, SameAttempt, Lasting, Answered, Kept
  <1>7. ASSUME attempts[a].cancelled  PROVE Table(named) /\ Follows(attempts, named)
    BY <1>3, <1>4, <1>5, <1>6, <1>7 DEF Table
  <1>8. ASSUME ~ attempts[a].cancelled
        PROVE  Table(Cancel(named, a, reason)) /\ Follows(attempts, Cancel(named, a, reason))
    <2>1. Table(Cancel(named, a, reason)) /\ Follows(named, Cancel(named, a, reason))
      <3>1. a \in 0 .. MaxAttempts /\ named[a].used /\ reason \in {"stop", "retire"}
        BY <1>3, <1>4, <1>8, AsyncAssumption DEF Ids, Kept
      <3> QED
        BY <1>4, <1>5, <3>1, Cancelled
    <2> QED
      BY <1>6, <2>1, FollowsOn
  <1> QED
    BY <1>3, <1>4, <1>7, <1>8

\* What a wait that ends without the candidate does to it. The reason of the attempt
\* waited for is a stop only if the compaction of the host fails with it.
LEMMA WakeInterruptedKeeps ==
  ASSUME Table(attempts), SlotUsed(attempts, slot), slot = offerOf, offerOf \in Ids,
         aborted \in BOOLEAN, WakeInterrupted
  PROVE  /\ Table(attempts') /\ Follows(attempts, attempts')
         /\ host' = "native" => ~ aborted /\ attempts'[offerOf].reason # "stop"
  <1> DEFINE a == offerOf
             reason == IF aborted THEN "stop" ELSE attempts[a].reason
             named == [attempts EXCEPT ![a].reason = reason]
  <1>0. /\ attempts[a] \in Attempt /\ SoundAttempt(attempts[a]) /\ attempts[a].used
    BY SlotIsAttempt DEF Table, SlotUsed
  <1>1. attempts' = IF attempts[a].cancelled THEN named ELSE Cancel(named, a, reason)
    BY DEF WakeInterrupted
  <1>2. host' = IF reason = "stop" THEN "failing" ELSE "native"
    BY DEF WakeInterrupted, HostDone, FallsBack
  <1>3. ~ attempts[a].cancelled => aborted
    BY DEF WakeInterrupted
  <1>4. reason \in Reasons
    BY <1>0 DEF Attempt, Reasons
  <1>5. ~ attempts[a].cancelled => reason = "stop"
    BY <1>3
  <1>6. aborted => reason = "stop"
    OBVIOUS
  <1> HIDE DEF reason, named
  <1>7. /\ attempts[a].cancelled => Table(named) /\ Follows(attempts, named)
        /\ ~ attempts[a].cancelled =>
             /\ Table(Cancel(named, a, reason))
             /\ Follows(attempts, Cancel(named, a, reason))
        /\ named[a].reason = reason
    <2>1. ~ attempts[a].cancelled => reason \in {"stop", "retire"}
      BY <1>5
    <2> QED
      BY <1>0, <1>4, <2>1, NamedAndCancelled DEF named
  <1>8. CASE attempts[a].cancelled
    BY <1>1, <1>2, <1>6, <1>7, <1>8
  <1>9. CASE ~ attempts[a].cancelled
    BY <1>1, <1>2, <1>5, <1>7, <1>9
  <1> QED
    BY <1>8, <1>9

\* The budget of the wait retires the attempt, and the compaction of the host goes on.
LEMMA WakeExpiredKeeps ==
  ASSUME Table(attempts), SlotUsed(attempts, slot), slot = offerOf, offerOf \in Ids,
         WakeExpired
  PROVE  /\ Table(attempts') /\ Follows(attempts, attempts')
         /\ ~ aborted /\ attempts'[offerOf].reason # "stop"
  <1> DEFINE a == offerOf
             reason == "retire"
             named == [attempts EXCEPT ![a].reason = reason]
  <1>0. ~ attempts[a].cancelled /\ attempts[a].used
    BY SlotIsAttempt DEF SlotUsed, WakeExpired
  <1>1. attempts' = Cancel(named, a, reason)
    BY DEF WakeExpired
  <1>2. reason \in Reasons /\ reason \in {"stop", "retire"} /\ reason # "stop" /\ reason # "none"
    BY DEF Reasons
  <1> HIDE DEF reason, named
  <1>3. /\ Table(Cancel(named, a, reason)) /\ Follows(attempts, Cancel(named, a, reason))
        /\ named[a].reason = reason
    BY <1>0, <1>2, NamedAndCancelled DEF named
  <1>4. Cancel(named, a, reason)[a].reason = named[a].reason
    <2>1. named \in [Ids -> Attempt]
      <3>1. attempts \in [Ids -> Attempt] /\ attempts[a] \in Attempt
        BY DEF Table
      <3>2. [attempts[a] EXCEPT !.reason = reason] \in Attempt
        BY <1>2, <3>1, SetReason
      <3> QED
        BY <3>1, <3>2 DEF named
    <2> DEFINE why == IF named[a].reason = "none" THEN reason ELSE named[a].reason
               marked == [named EXCEPT ![a].cancelled = TRUE, ![a].reason = why]
    <2>2. why = named[a].reason
      BY <1>2, <1>3
    <2>3. Cancel(named, a, reason) \in {named, marked, Record(marked, a, "cancelled")}
      BY DEF Cancel
    <2>4. marked[a].reason = why
      <3> HIDE DEF why
      <3> QED
        BY <2>1 DEF Attempt
    <2>5. Record(marked, a, "cancelled")[a].reason = marked[a].reason
      <3>1. DOMAIN marked = Ids /\ "reason" \in DOMAIN marked[a]
        BY <2>1 DEF Attempt
      <3> HIDE DEF marked
      <3> QED
        BY <3>1 DEF Record
    <2> QED
      BY <2>2, <2>3, <2>4, <2>5
  <1> QED
    BY <1>1, <1>2, <1>3, <1>4 DEF WakeExpired

\* The outcome of an attempt whose snapshot is on the branch, adoption included.
LEMMA OutcomeRecorded ==
  ASSUME Table(attempts), NEW a \in Ids, attempts[a].used, NEW what \in Outcomes
  PROVE  LET u == Record(attempts, a, what)
         IN  /\ Table(u)
             /\ \A b \in Ids : /\ Kept(attempts[b], u[b], "recorded")
                               /\ u[b].recorded # attempts[b].recorded =>
                                    b = a /\ attempts[b].recorded = "none" /\ u[b].recorded = what
             /\ SameBranch(a) /\ what # "none" => u[a].recorded # "none"
  <1> DEFINE q == attempts[a]
             s == [q EXCEPT !.recorded = what]
             u == Record(attempts, a, what)
  <1>1. q \in Attempt /\ SoundAttempt(q) /\ attempts \in [Ids -> Attempt]
    BY DEF Table
  <1>2. CASE q.recorded = "none" /\ SameBranch(a)
    <2>1. u = [attempts EXCEPT ![a] = s]
      BY <1>2 DEF Record
    <2>2. s \in Attempt /\ s.recorded = what /\ Kept(q, s, "recorded")
      <3> HIDE DEF q
      <3> QED
        BY <1>1, SetRecorded
    <2> HIDE DEF s, u
    <2>3. u \in [Ids -> Attempt] /\ u[a] = s /\ \A b \in Ids \ {a} : u[b] = attempts[b]
      BY <1>1, <2>1, <2>2, OneChanged
    <2>4. SoundAttempt(s)
      <3> HIDE DEF q
      <3> QED
        BY <1>1, <2>2 DEF SoundAttempt, Earned, Kept, q
    <2>5. Table(u)
      BY <2>3, <2>4 DEF Table
    <2>6. \A b \in Ids : Kept(attempts[b], u[b], "recorded")
      BY <2>2, <2>3 DEF Kept
    <2> QED
      BY <1>2, <2>2, <2>3, <2>5, <2>6 DEF u
  <1>3. CASE ~ (q.recorded = "none" /\ SameBranch(a))
    <2>1. u = attempts
      BY <1>3 DEF Record
    <2> HIDE DEF u
    <2>2. \A b \in Ids : Kept(attempts[b], u[b], "recorded")
      BY <2>1 DEF Kept
    <2> QED
      BY <1>3, <2>1, <2>2 DEF u
  <1> QED
    BY <1>2, <1>3

\* What a step leaves of each attempt when adoption is not ruled out.
KeepsSource(t, u) == \A a \in Ids : Lasting(t[a], u[a])

\* An outcome is recorded once, an adoption only of an own compaction, and a loss only of
\* an attempt that may be lost.
OnceRecorded(t, u) ==
  \A a \in Ids : u[a].recorded # t[a].recorded =>
                   /\ t[a].recorded = "none"
                   /\ u[a].recorded = "adopted" => OwnsCommit(a)
                   /\ u[a].recorded \in {"discarded", "failed"} => MayBeLost(a)

\* A step that records no adoption.
LEMMA FollowsKeeps ==
  ASSUME NEW u, Follows(attempts, u)
  PROVE  KeepsSource(attempts, u) /\ OnceRecorded(attempts, u)
  BY DEF Follows, SameAttempt, Lasting, KeepsSource, OnceRecorded

\* A compaction ends: only here an attempt is recorded as adopted, and only if the
\* compaction is its own.
LEMMA CompactKeeps ==
  ASSUME Table(attempts), SlotUsed(attempts, slot), Compact
  PROVE  /\ Table(attempts') /\ SlotUsed(attempts', slot')
         /\ KeepsSource(attempts, attempts') /\ OnceRecorded(attempts, attempts')
  <1>0. slot # 0 => slot \in Ids /\ attempts[slot].used
    BY SlotIsAttempt DEF SlotUsed
  <1>s. slot' \in {0, slot}
    BY DEF Compact
  <1>u. KeepsSource(attempts, attempts') => SlotUsed(attempts', slot')
    <2>1. slot' # 0 => slot' \in Ids /\ attempts[slot'].used
      BY <1>0, <1>s
    <2>2. slot' \in 0 .. MaxAttempts
      BY <1>s, AsyncAssumption DEF SlotUsed
    <2> QED
      BY <2>1, <2>2 DEF SlotUsed, KeepsSource, Lasting
  <1>1. CASE UNCHANGED attempts
    BY <1>1, <1>u DEF KeepsSource, Lasting, OnceRecorded
  <1>2. CASE attempts' = NewGeneration(attempts)
    BY <1>2, <1>u, OutdatedTable, FollowsKeeps
  <1>3. CASE /\ slot # 0
             /\ attempts' = NewGeneration(
                  Cancel([attempts EXCEPT ![slot].nativeFallback = TRUE], slot, "retire"))
    <2> DEFINE q == attempts[slot]
               s == [q EXCEPT !.nativeFallback = TRUE]
               t == [attempts EXCEPT ![slot] = s]
               left == Cancel(t, slot, "retire")
    <2>0. slot \in Ids /\ q \in Attempt /\ SoundAttempt(q) /\ q.used /\ TRUE \in BOOLEAN
      BY <1>0, <1>3 DEF Table
    <2>1. attempts' = NewGeneration(left)
      BY <1>3, <2>0 DEF Table
    <2>2. s \in Attempt /\ s.nativeFallback = TRUE /\ Kept(q, s, "nativeFallback")
      <3> HIDE DEF q
      <3> QED
        BY <2>0, SetFallback
    <2>3. attempts \in [Ids -> Attempt]
      BY DEF Table
    <2> HIDE DEF s
    <2>4. t \in [Ids -> Attempt] /\ t[slot] = s /\ \A b \in Ids \ {slot} : t[b] = attempts[b]
      BY <2>0, <2>2, <2>3, OneChanged
    <2> HIDE DEF t
    <2>5. /\ Earned(s) /\ (s.cancelled => SoundAttempt(s)) /\ SameAttempt(q, s) /\ s.used
          /\ s.recorded = q.recorded
      <3> HIDE DEF q
      <3> QED
        BY <2>0, <2>2 DEF SoundAttempt, SameAttempt, Lasting, Earned, Answered, Kept
    <2>5a. \A b \in Ids : Earned(t[b]) /\ (b # slot \/ t[b].cancelled => SoundAttempt(t[b]))
      BY <2>4, <2>5 DEF Table, SoundAttempt
    <2>5b. Follows(attempts, t)
      <3>1. ASSUME NEW b \in Ids
            PROVE  SameAttempt(attempts[b], t[b]) /\ t[b].recorded = attempts[b].recorded
        <4>1. CASE b = slot
          BY <2>4, <2>5, <4>1
        <4>2. CASE b # slot
          BY <2>4, <4>2 DEF SameAttempt, Lasting
        <4> QED
          BY <4>1, <4>2
      <3> QED
        BY <3>1 DEF Follows
    <2>6. Table(left) /\ Follows(attempts, left)
      <3>1. slot \in 0 .. MaxAttempts /\ t[slot].used /\ "retire" \in {"stop", "retire"}
        BY <2>4, <2>5 DEF SlotUsed
      <3>2. Table(left) /\ Follows(t, left)
        BY <2>4, <2>5a, <3>1, Cancelled
      <3> HIDE DEF left
      <3> QED
        BY <2>5b, <3>2, FollowsOn
    <2> HIDE DEF left
    <2>7. Table(attempts') /\ Follows(attempts, attempts')
      BY <2>1, <2>6, OutdatedTable, FollowsOn
    <2> QED
      BY <1>u, <2>7, FollowsKeeps
  <1>4. CASE /\ slot # 0
             /\ attempts' = NewGeneration(Record(attempts, slot,
                  IF OwnsCommit(slot) THEN "adopted" ELSE "discarded"))
    <2>1. CASE ~ OwnsCommit(slot)
      <3> DEFINE left == Record(attempts, slot, "discarded")
      <3>1. Table(left) /\ Follows(attempts, left)
        BY <1>0, <1>4, <2>1, Recorded DEF MayBeLost
      <3>2. attempts' = NewGeneration(left)
        BY <1>4, <2>1
      <3> HIDE DEF left
      <3>3. Table(attempts') /\ Follows(attempts, attempts')
        BY <3>1, <3>2, OutdatedTable, FollowsOn
      <3> QED
        BY <1>u, <3>3, FollowsKeeps
    <2>2. CASE OwnsCommit(slot)
      <3> DEFINE left == Record(attempts, slot, "adopted")
      <3>1. /\ Table(left)
            /\ \A b \in Ids : /\ Kept(attempts[b], left[b], "recorded")
                              /\ left[b].recorded # attempts[b].recorded =>
                                   /\ b = slot /\ attempts[b].recorded = "none"
                                   /\ left[b].recorded = "adopted"
        <4>1. "adopted" \in Outcomes
          BY DEF Outcomes
        <4> QED
          BY <1>0, <1>4, <4>1, OutcomeRecorded
      <3>2. attempts' = NewGeneration(left)
        BY <1>4, <2>2
      <3> HIDE DEF left
      <3>3. /\ Table(attempts') /\ Follows(left, attempts')
            /\ \A a \in Ids : attempts'[a].recorded = left[a].recorded
        BY <3>1, <3>2, OutdatedTable, Outdated DEF Table, Kept
      <3>4. KeepsSource(attempts, attempts')
        BY <3>1, <3>3 DEF KeepsSource, Lasting, Follows, SameAttempt, Answered, Kept
      <3>5. OnceRecorded(attempts, attempts')
        BY <2>2, <3>1, <3>3 DEF OnceRecorded
      <3> QED
        BY <1>u, <3>3, <3>4, <3>5
    <2> QED
      BY <2>1, <2>2
  <1> QED
    BY <1>1, <1>2, <1>3, <1>4 DEF Compact

\* A failed compaction discards the offer.
LEMMA FailedKeeps ==
  ASSUME Table(attempts), SlotUsed(attempts, slot), Failed
  PROVE  /\ Table(attempts') /\ Follows(attempts, attempts') /\ SlotUsed(attempts', slot')
  <1>0. slot # 0 => slot \in Ids /\ attempts[slot].used
    BY SlotIsAttempt DEF SlotUsed
  <1>1. slot' \in {0, slot}
    BY DEF Failed
  <1>2. Table(attempts') /\ Follows(attempts, attempts')
    <2>1. slot # 0 => MayBeLost(slot)
      BY DEF Failed, MayBeLost
    <2> QED
      BY <1>0, <2>1, Recorded, FollowsItself DEF Failed
  <1>3. SlotUsed(attempts', slot)
    BY <1>2, SlotKept
  <1> QED
    BY <1>1, <1>2, <1>3, AsyncAssumption DEF SlotUsed

\* Surroundings that change touch no attempt otherwise.
LEMMA DriftKeeps ==
  ASSUME Table(attempts), Drift
  PROVE  Table(attempts') /\ Follows(attempts, attempts')
  <1>1. ASSUME NEW a \in Ids
        PROVE  /\ attempts'[a] \in Attempt /\ SameAttempt(attempts[a], attempts'[a])
               /\ SoundAttempt(attempts'[a]) /\ attempts'[a].recorded = attempts[a].recorded
    <2> DEFINE q == attempts[a]
               s == attempts'[a]
    <2>1. q \in Attempt /\ SoundAttempt(q) /\ FALSE \in BOOLEAN /\ s = [q EXCEPT !.fitting = FALSE]
      BY DEF Table, Drift
    <2> HIDE DEF q, s
    <2>2. s \in Attempt /\ Kept(q, s, "fitting")
      BY <2>1, SetFitting
    <2>3. s \in Attempt /\ SameAttempt(q, s) /\ SoundAttempt(s) /\ s.recorded = q.recorded
      BY <2>1, <2>2 DEF SoundAttempt, SameAttempt, Lasting, Earned, Answered, Kept
    <2> QED
      BY <2>3 DEF q, s
  <1>2. attempts' = [a \in Ids |-> [attempts[a] EXCEPT !.fitting = FALSE]]
    BY DEF Drift
  <1>3. attempts' \in [Ids -> Attempt]
    <2>1. \A a \in Ids : [attempts[a] EXCEPT !.fitting = FALSE] \in Attempt
      BY <1>1, <1>2
    <2> QED
      BY <1>2, <2>1
  <1> QED
    BY <1>1, <1>3 DEF Table, Follows

\* An empty slot.
LEMMA NoSlotUsed ==
  ASSUME NEW t
  PROVE  SlotUsed(t, 0)
  BY AsyncAssumption DEF SlotUsed

\* The end of a session cancels, and at shutdown records, the attempt.
LEMMA SessionEnds ==
  ASSUME Table(attempts), SlotUsed(attempts, slot), SessionStart \/ Shutdown
  PROVE  /\ Table(attempts') /\ Follows(attempts, attempts') /\ SlotUsed(attempts', slot')
         /\ Follows(Cancel(attempts, slot, "stop"), attempts')
  <1> DEFINE left == Cancel(attempts, slot, "stop")
             ended == Record(left, slot, "cancelled")
  <1>0. slot # 0 => slot \in Ids /\ attempts[slot].used
    BY SlotIsAttempt DEF SlotUsed
  <1>1. Table(left) /\ Follows(attempts, left)
    BY CancelledTable DEF SlotUsed
  <1>2. ASSUME slot # 0
        PROVE  Table(ended) /\ Follows(left, ended)
    <2> HIDE DEF left
    <2>1. left[slot].used
      BY <1>0, <1>1, <1>2 DEF Follows, SameAttempt, Lasting
    <2> QED
      BY <1>0, <1>1, <1>2, <2>1, Recorded
  <1>3. CASE SessionStart
    <2>1. attempts' = Forget(NewGeneration(left)) /\ slot' = 0
      BY <1>3 DEF SessionStart, Reset
    <2> HIDE DEF left, ended
    <2>2. Table(attempts') /\ Follows(left, attempts')
      BY <1>1, <2>1, OutdatedTable, Forgotten, FollowsOn
    <2>3. Follows(attempts, attempts')
      BY <1>1, <2>2, FollowsOn
    <2> QED
      BY <2>1, <2>2, <2>3, NoSlotUsed DEF left
  <1>4. CASE Shutdown
    <2> DEFINE final == IF slot = 0 THEN left ELSE ended
    <2>1. attempts' = Forget(NewGeneration(final)) /\ slot' = 0
      BY <1>4 DEF Shutdown, Reset
    <2> HIDE DEF left, ended
    <2>2. Table(final) /\ Follows(left, final)
      BY <1>1, <1>2, FollowsItself
    <2> HIDE DEF final
    <2>3. Table(attempts') /\ Follows(left, attempts')
      BY <2>1, <2>2, OutdatedTable, Forgotten, FollowsOn
    <2>4. Follows(attempts, attempts')
      BY <1>1, <2>3, FollowsOn
    <2> QED
      BY <2>1, <2>3, <2>4, NoSlotUsed DEF left
  <1> QED
    BY <1>3, <1>4

\* resetTree cancels the attempt in the slot.
LEMMA NavigateKeeps ==
  ASSUME Table(attempts), SlotUsed(attempts, slot), Navigate
  PROVE  /\ Table(attempts') /\ Follows(attempts, attempts') /\ SlotUsed(attempts', slot')
         /\ \A a \in Ids : ~ attempts'[a].current
  <1>1. PICK k \in 1 .. Len(branch) - 1 :
          attempts' = [a \in Ids |->
            IF a # slot THEN [attempts[a] EXCEPT !.current = FALSE]
            ELSE [attempts[a] EXCEPT !.current = FALSE, !.cancelled = TRUE,
                    !.reason = IF attempts[a].cancelled THEN @ ELSE "stop",
                    !.recorded = IF /\ attempts[a].settled /\ @ = "none"
                                    /\ OnBranch(a, SubSeq(branch, 1, k))
                                 THEN "cancelled" ELSE @]]
    BY DEF Navigate
  <1>2. ASSUME NEW a \in Ids
        PROVE  /\ attempts'[a] \in Attempt /\ SameAttempt(attempts[a], attempts'[a])
               /\ SoundAttempt(attempts'[a]) /\ ~ attempts'[a].current
               /\ attempts'[a].recorded \in {attempts[a].recorded, "cancelled"}
    <2> DEFINE o == attempts[a]
               p == [o EXCEPT !.current = FALSE]
               q == [p EXCEPT !.cancelled = TRUE]
               why == IF o.cancelled THEN o.reason ELSE "stop"
               r == [q EXCEPT !.reason = why]
               what == IF /\ o.settled /\ o.recorded = "none"
                          /\ OnBranch(a, SubSeq(branch, 1, k))
                       THEN "cancelled" ELSE o.recorded
               s == [r EXCEPT !.recorded = what]
    <2>1. o \in Attempt /\ SoundAttempt(o) /\ FALSE \in BOOLEAN /\ TRUE \in BOOLEAN
      BY DEF Table
    <2>2. why \in Reasons /\ what \in Outcomes /\ what \in {"cancelled", o.recorded}
          /\ (what # o.recorded => o.recorded = "none" /\ what # "adopted")
      BY <2>1 DEF Attempt, Reasons, Outcomes
    <2>3. attempts'[a] = IF a # slot THEN p ELSE s
      <3>1. /\ p.cancelled = o.cancelled /\ p.settled = o.settled /\ p.reason = o.reason
            /\ p.recorded = o.recorded
        <4> HIDE DEF o
        <4> QED
          BY <2>1, SetCurrent DEF Kept
      <3>2. CASE a # slot
        BY <1>1, <3>2
      <3>3. CASE a = slot
        <4>1. attempts'[a] =
                [o EXCEPT !.current = FALSE, !.cancelled = TRUE,
                    !.reason = IF o.cancelled THEN @ ELSE "stop",
                    !.recorded = IF /\ o.settled /\ @ = "none"
                                    /\ OnBranch(a, SubSeq(branch, 1, k))
                                 THEN "cancelled" ELSE @]
          BY <1>1, <3>3
        <4> HIDE DEF o
        <4>2. attempts'[a] = s
          BY <2>1, <4>1 DEF Attempt
        <4> QED
          BY <3>3, <4>2
      <3> QED
        BY <3>2, <3>3
    <2>4. p \in Attempt /\ p.current = FALSE /\ Kept(o, p, "current")
      <3> HIDE DEF o
      <3> QED
        BY <2>1, SetCurrent
    <2> HIDE DEF o, p, why, what
    <2>5. q \in Attempt /\ q.cancelled = TRUE /\ Kept(p, q, "cancelled")
      BY <2>1, <2>4, SetCancelled
    <2> HIDE DEF q
    <2>6. r \in Attempt /\ r.reason = why /\ Kept(q, r, "reason")
      BY <2>2, <2>5, SetReason
    <2> HIDE DEF r
    <2>7. s \in Attempt /\ s.recorded = what /\ Kept(r, s, "recorded")
      BY <2>2, <2>6, SetRecorded
    <2> HIDE DEF s
    <2>8. CASE a # slot
      <3>1. SoundAttempt(p) /\ SameAttempt(o, p) /\ p.recorded = o.recorded
        BY <2>1, <2>4 DEF SoundAttempt, SameAttempt, Lasting, Earned, Answered, Kept
      <3> QED
        BY <2>3, <2>4, <2>8, <3>1 DEF o
    <2>9. CASE a = slot
      <3>1. o.used
        BY <2>9, SlotIsAttempt DEF SlotUsed, o
      <3>2. /\ s.source = o.source /\ s.used = o.used /\ s.request = o.request
            /\ s.settled = o.settled /\ s.offered = o.offered /\ s.summary = o.summary
            /\ s.boundary = o.boundary /\ s.current = FALSE /\ s.cancelled = TRUE
        BY <2>4, <2>5, <2>6, <2>7 DEF Kept
      <3>3. SoundAttempt(s) /\ SameAttempt(o, s) /\ s.recorded \in {"cancelled", o.recorded}
        BY <2>1, <2>2, <2>7, <3>1, <3>2 DEF SoundAttempt, SameAttempt, Lasting, Earned, Answered
      <3> QED
        BY <2>3, <2>7, <2>9, <3>2, <3>3 DEF o
    <2> QED
      BY <2>8, <2>9
  <1>3. attempts' \in [Ids -> Attempt]
    <2> DEFINE f(a) ==
            IF a # slot THEN [attempts[a] EXCEPT !.current = FALSE]
            ELSE [attempts[a] EXCEPT !.current = FALSE, !.cancelled = TRUE,
                    !.reason = IF attempts[a].cancelled THEN @ ELSE "stop",
                    !.recorded = IF /\ attempts[a].settled /\ @ = "none"
                                    /\ OnBranch(a, SubSeq(branch, 1, k))
                                 THEN "cancelled" ELSE @]
    <2>1. attempts' = [a \in Ids |-> f(a)]
      BY <1>1
    <2> HIDE DEF f
    <2>2. \A a \in Ids : f(a) \in Attempt
      BY <1>2, <2>1
    <2> QED
      BY <2>1, <2>2
  <1>4. slot' \in {0, slot}
    BY DEF Navigate
  <1>5. Table(attempts') /\ Follows(attempts, attempts')
    BY <1>2, <1>3 DEF Table, Follows
  <1> QED
    BY <1>2, <1>4, <1>5, SlotKept, NoSlotUsed

\* A plan is an attempt whose snapshot is the branch, with neither answer nor offer yet.
Planned(r) ==
  /\ r \in Attempt /\ r.source = branch /\ r.boundary = Leaf(branch) /\ r.used
  /\ ~ r.offered /\ ~ r.summary /\ ~ r.nativeFallback

LEMMA PlanIs ==
  ASSUME NEW a, NEW k, branch \in Seq(Entry), branch[k] \in Entry, Leaf(branch) \in Nat
  PROVE  LET p == Plan(a, k)
             f == [p EXCEPT !.request = FALSE, !.cancelled = TRUE, !.recorded = "failed"]
         IN  /\ Planned(p) /\ p.reason = "none" /\ p.recorded = "none"
             /\ Planned(f) /\ f.cancelled = TRUE /\ f.recorded = "failed"
  <1> DEFINE o == Unused
             cut == branch[k].id
             leaf == Leaf(branch)
             p1 == [o EXCEPT !.source = branch]
             p2 == [p1 EXCEPT !.cut = cut]
             yes == TRUE
             p3 == [p2 EXCEPT !.used = yes]
             p4 == [p3 EXCEPT !.current = TRUE]
             p5 == [p4 EXCEPT !.fitting = TRUE]
             p6 == [p5 EXCEPT !.request = TRUE]
             p7 == [p6 EXCEPT !.boundary = leaf]
             f1 == [p7 EXCEPT !.request = FALSE]
             f2 == [f1 EXCEPT !.cancelled = TRUE]
             why == "failed"
             f3 == [f2 EXCEPT !.recorded = why]
  <1>0. yes \in BOOLEAN /\ TRUE \in BOOLEAN /\ FALSE \in BOOLEAN /\ why \in Outcomes /\ cut \in Nat /\ leaf \in Nat
    BY DEF Outcomes, Entry
  <1>1. /\ o \in Attempt /\ o.reason = "none" /\ o.recorded = "none" /\ ~ o.offered
        /\ ~ o.summary /\ ~ o.nativeFallback
    BY DEF Unused, Attempt, Reasons, Outcomes
  <1>2. Plan(a, k) = p7
    BY DEF Plan
  <1>y. yes = TRUE /\ leaf = Leaf(branch) /\ why = "failed"
    OBVIOUS
  <1>10. [p7 EXCEPT !.request = FALSE, !.cancelled = TRUE, !.recorded = "failed"] = f3
    <2> HIDE DEF p7
    <2> QED
      OBVIOUS
  <1> HIDE DEF o, cut, leaf, why, yes
  <1>3. p1 \in Attempt /\ p1.source = branch /\ Kept(o, p1, "source")
    BY <1>1, SetSource
  <1> HIDE DEF p1
  <1>4. p2 \in Attempt /\ Kept(p1, p2, "cut")
    BY <1>0, <1>3, SetCut
  <1> HIDE DEF p2
  <1>5. p3 \in Attempt /\ p3.used = yes /\ Kept(p2, p3, "used")
    BY <1>0, <1>4, SetUsed
  <1> HIDE DEF p3
  <1>6. p4 \in Attempt /\ Kept(p3, p4, "current")
    BY <1>0, <1>5, SetCurrent
  <1> HIDE DEF p4
  <1>7. p5 \in Attempt /\ Kept(p4, p5, "fitting")
    BY <1>0, <1>6, SetFitting
  <1> HIDE DEF p5
  <1>8. p6 \in Attempt /\ Kept(p5, p6, "request")
    BY <1>0, <1>7, SetRequest
  <1> HIDE DEF p6
  <1>9. p7 \in Attempt /\ p7.boundary = leaf /\ Kept(p6, p7, "boundary")
    BY <1>0, <1>8, SetBoundary
  <1> HIDE DEF p7
  <1>11. f1 \in Attempt /\ Kept(p7, f1, "request")
    BY <1>0, <1>9, SetRequest
  <1> HIDE DEF f1
  <1>12. f2 \in Attempt /\ f2.cancelled = TRUE /\ Kept(f1, f2, "cancelled")
    BY <1>0, <1>11, SetCancelled
  <1> HIDE DEF f2
  <1>13. f3 \in Attempt /\ f3.recorded = why /\ Kept(f2, f3, "recorded")
    BY <1>0, <1>12, SetRecorded
  <1> HIDE DEF f3
  <1>14. p3.source = branch /\ p3.used /\ ~ p3.offered /\ ~ p3.summary /\ ~ p3.nativeFallback
         /\ p3.reason = "none" /\ p3.recorded = "none"
    BY <1>1, <1>3, <1>4, <1>5, <1>y DEF Kept
  <1>15. Planned(p7) /\ p7.reason = "none" /\ p7.recorded = "none"
    BY <1>6, <1>7, <1>8, <1>9, <1>14, <1>y DEF Kept, Planned
  <1>16. Planned(f3) /\ f3.cancelled = TRUE /\ f3.recorded = "failed"
    BY <1>11, <1>12, <1>13, <1>15, <1>y DEF Kept, Planned
  <1> QED
    BY <1>2, <1>10, <1>15, <1>16

\* A new attempt takes an entry of the table that was not in use.
LEMMA StartKeeps ==
  ASSUME Table(attempts), SlotUsed(attempts, slot), branch \in Seq(Entry),
         Leaf(branch) \in Nat, NEW a \in Ids, Start(a)
  PROVE  /\ Table(attempts') /\ SlotUsed(attempts', slot')
         /\ OnceRecorded(attempts, attempts')
         /\ ~ attempts[a].used /\ Planned(attempts'[a])
         /\ \A b \in Ids \ {a} : Lasting(attempts[b], attempts'[b])
  <1> DEFINE t == Superseded
  <1>m. \A b : MayBeLost(b)
    BY DEF Start, MayBeLost
  <1>1. Table(t) /\ Follows(attempts, t)
    <2> DEFINE r == IF slot = 0 THEN attempts ELSE Record(attempts, slot, "discarded")
    <2>1. Table(r) /\ Follows(attempts, r)
      BY <1>m, SlotIsAttempt, Recorded, FollowsItself DEF SlotUsed
    <2>2. Superseded = Forget(r)
      BY DEF Superseded
    <2> HIDE DEF r
    <2>3. Table(Forget(r)) /\ Follows(attempts, Forget(r))
      BY <2>1, Forgotten, FollowsOn
    <2> QED
      BY <2>2, <2>3
  <1>2. PICK k \in 2 .. Len(branch) - 1 :
          \/ attempts' = [Superseded EXCEPT ![a] = Plan(a, k)]
          \/ attempts' = [Superseded EXCEPT ![a] =
               [Plan(a, k) EXCEPT !.request = FALSE, !.cancelled = TRUE, !.recorded = "failed"]]
    BY DEF Start
  <1>3. branch[k] \in Entry
    OBVIOUS
  <1>4. PICK s : /\ Planned(s) /\ attempts' = [t EXCEPT ![a] = s]
                 /\ s.cancelled = TRUE \/ s.reason = "none"
                 /\ s.recorded \in {"none", "failed"}
    <2> DEFINE p == Plan(a, k)
               f == [p EXCEPT !.request = FALSE, !.cancelled = TRUE, !.recorded = "failed"]
    <2>1. /\ Planned(p) /\ p.reason = "none" /\ p.recorded = "none"
          /\ Planned(f) /\ f.cancelled = TRUE /\ f.recorded = "failed"
      BY <1>3, PlanIs
    <2>2. attempts' = [t EXCEPT ![a] = p] \/ attempts' = [t EXCEPT ![a] = f]
      BY <1>2
    <2> HIDE DEF p, f, t
    <2> QED
      BY <2>1, <2>2
  <1> HIDE DEF t
  <1>5. attempts' \in [Ids -> Attempt] /\ attempts'[a] = s /\ \A b \in Ids \ {a} : attempts'[b] = t[b]
    BY <1>1, <1>4, OneChanged DEF Table, Planned
  <1>6. SoundAttempt(s)
    BY <1>4 DEF SoundAttempt, Earned, Planned
  <1>7. Table(attempts')
    BY <1>1, <1>5, <1>6 DEF Table
  <1>8. ~ attempts[a].used /\ attempts[a].recorded = "none" /\ slot' = a
    BY DEF Start, Table, SoundAttempt
  <1>9. SlotUsed(attempts', slot')
    BY <1>4, <1>5, <1>8, AsyncAssumption DEF SlotUsed, Ids, Planned
  <1>10. OnceRecorded(attempts, attempts')
    BY <1>1, <1>4, <1>5, <1>8, <1>m DEF OnceRecorded, Follows, SameAttempt
  <1>11. \A b \in Ids \ {a} : Lasting(attempts[b], attempts'[b])
    BY <1>1, <1>5 DEF Follows, SameAttempt
  <1> QED
    BY <1>4, <1>5, <1>7, <1>8, <1>9, <1>10, <1>11

(* ---- the branch and the snapshots ------------------------------------------------ *)

\* Entries are numbered in the order in which they were written.
Numbered(s, n) ==
  \A i \in 1 .. Len(s) : /\ s[i].id \in 1 .. n - 1
                         /\ \A j \in 1 .. Len(s) : i < j => s[i].id < s[j].id

\* A snapshot and the branch have the same entries up to any entry that is in both.
Shared(s, b) ==
  \A i \in 1 .. Len(s), j \in 1 .. Len(b) :
    s[i].id = b[j].id => i = j /\ \A k \in 1 .. i : s[k] = b[k]

\* The branch and every snapshot are numbered, and agree where they meet.
HistoryInv(b, n, t) ==
  /\ n \in Nat /\ b \in Seq(Entry) /\ Len(b) >= 1 /\ Numbered(b, n)
  /\ \A a \in Ids : Numbered(t[a].source, n) /\ Shared(t[a].source, b)

\* A numbered sequence shares all of itself.
LEMMA SharedWithItself ==
  ASSUME NEW n \in Nat, NEW s \in Seq(Entry), Numbered(s, n)
  PROVE  Shared(s, s)
  <1>1. ASSUME NEW i \in 1 .. Len(s), NEW j \in 1 .. Len(s), s[i].id = s[j].id
        PROVE  i = j
    <2>1. s[i].id \in Nat /\ s[j].id \in Nat
      BY DEF Numbered
    <2>2. ~ i < j /\ ~ j < i
      BY <1>1, <2>1 DEF Numbered
    <2> QED
      BY <2>2
  <1> QED
    BY <1>1 DEF Shared

\* Numbers leave room for later ones.
LEMMA LaterNumbered ==
  ASSUME NEW n \in Nat, NEW s \in Seq(Entry), Numbered(s, n)
  PROVE  Numbered(s, n + 1)
  BY DEF Numbered

\* A new entry is in no snapshot.
LEMMA AppendShared ==
  ASSUME NEW n \in Nat, NEW s \in Seq(Entry), NEW b \in Seq(Entry), NEW e \in Entry, e.id = n,
         Numbered(s, n), Shared(s, b)
  PROVE  Shared(s, Append(b, e))
  <1> DEFINE c == Append(b, e)
  <1>1. Len(b) \in Nat /\ Len(c) = Len(b) + 1 /\ c[Len(b) + 1] = e
        /\ \A j \in 1 .. Len(b) : c[j] = b[j]
    OBVIOUS
  <1> HIDE DEF c
  <1>2. ASSUME NEW i \in 1 .. Len(s), NEW j \in 1 .. Len(c), s[i].id = c[j].id
        PROVE  j \in 1 .. Len(b)
    <2>1. s[i].id \in 1 .. n - 1
      BY DEF Numbered
    <2>2. j # Len(b) + 1
      BY <1>1, <1>2, <2>1
    <2> QED
      BY <1>1, <2>2
  <1>3. ASSUME NEW i \in 1 .. Len(s), NEW j \in 1 .. Len(c), s[i].id = c[j].id
        PROVE  i = j /\ \A k \in 1 .. i : s[k] = c[k]
    <2>1. j \in 1 .. Len(b)
      BY <1>2, <1>3
    <2>2. i = j /\ \A k \in 1 .. i : s[k] = b[k]
      BY <1>1, <1>3, <2>1 DEF Shared
    <2> QED
      BY <1>1, <2>1, <2>2
  <1> QED
    BY <1>3 DEF Shared, c

\* The next number continues the order.
LEMMA AppendNumbered ==
  ASSUME NEW n \in Nat \ {0}, NEW b \in Seq(Entry), NEW e \in Entry, e.id = n, Numbered(b, n)
  PROVE  /\ Append(b, e) \in Seq(Entry) /\ Len(Append(b, e)) = Len(b) + 1
         /\ Numbered(Append(b, e), n + 1)
  <1> DEFINE c == Append(b, e)
  <1>1. Len(b) \in Nat /\ Len(c) = Len(b) + 1 /\ c[Len(b) + 1] = e /\ c \in Seq(Entry)
        /\ \A j \in 1 .. Len(b) : c[j] = b[j]
    OBVIOUS
  <1> HIDE DEF c
  <1>2. ASSUME NEW i \in 1 .. Len(c)
        PROVE  c[i].id \in 1 .. n /\ \A j \in 1 .. Len(c) : i < j => c[i].id < c[j].id
    <2>1. CASE i = Len(b) + 1
      BY <1>1, <2>1
    <2>2. CASE i \in 1 .. Len(b)
      <3>1. c[i].id \in 1 .. n - 1 /\ c[i] = b[i]
        BY <1>1, <2>2 DEF Numbered
      <3>2. ASSUME NEW j \in 1 .. Len(c), i < j
            PROVE  c[i].id < c[j].id
        <4>1. CASE j = Len(b) + 1
          BY <1>1, <3>1, <4>1
        <4>2. CASE j \in 1 .. Len(b)
          BY <1>1, <2>2, <3>1, <3>2, <4>2 DEF Numbered
        <4> QED
          BY <1>1, <4>1, <4>2
      <3> QED
        BY <3>1, <3>2
    <2> QED
      BY <1>1, <2>1, <2>2
  <1> QED
    BY <1>1, <1>2 DEF Numbered, c

\* Navigation leaves a beginning of the branch.
LEMMA PrefixShared ==
  ASSUME NEW n \in Nat, NEW b \in Seq(Entry), NEW k \in 1 .. Len(b)
  PROVE  LET c == SubSeq(b, 1, k)
         IN  /\ c \in Seq(Entry) /\ Len(c) = k
             /\ Numbered(b, n) => Numbered(c, n)
             /\ \A s : Shared(s, b) => Shared(s, c)
  <1> DEFINE c == SubSeq(b, 1, k)
  <1>1. Len(b) \in Nat /\ c \in Seq(Entry) /\ Len(c) = k /\ \A j \in 1 .. k : c[j] = b[j]
    OBVIOUS
  <1> HIDE DEF c
  <1>2. Numbered(b, n) => Numbered(c, n)
    BY <1>1 DEF Numbered
  <1>3. ASSUME NEW s, Shared(s, b), NEW i \in 1 .. Len(s), NEW j \in 1 .. Len(c), s[i].id = c[j].id
        PROVE  i = j /\ \A l \in 1 .. i : s[l] = c[l]
    <2>1. j \in 1 .. Len(b) /\ j \in 1 .. k
      BY <1>1
    <2>2. i = j /\ \A l \in 1 .. i : s[l] = b[l]
      BY <1>1, <1>3, <2>1 DEF Shared
    <2> QED
      BY <1>1, <2>1, <2>2
  <1> QED
    BY <1>1, <1>2, <1>3 DEF Shared, c

\* A set of places in a sequence has a last one.
LEMMA LastPlace ==
  ASSUME NEW n \in Nat, NEW T, T \subseteq 1 .. n, T # {}
  PROVE  \E x \in T : \A y \in T : x >= y
  <1> DEFINE U == {n - x : x \in T}
  <1>0. \A x \in T : x \in Nat /\ x <= n /\ n - x \in Nat
    OBVIOUS
  <1>1. U \subseteq Nat /\ U # {}
    BY <1>0
  <1>2. PICK u \in U : \A v \in U : ~ (<<v, u>> \in OpToRel(<, Nat))
    BY <1>1, WFMin, NatLessThanWellFounded
  <1>3. \A v \in U : ~ v < u
    BY <1>1, <1>2 DEF OpToRel
  <1>4. PICK x \in T : u = n - x
    BY <1>2
  <1>5. ASSUME NEW y \in T  PROVE x >= y
    <2>1. n - y \in U
      OBVIOUS
    <2>2. ~ (n - y) < (n - x)
      BY <1>3, <1>4, <2>1
    <2>3. x \in Nat /\ y \in Nat
      BY <1>0
    <2> QED
      BY <2>2, <2>3
  <1> QED
    BY <1>5

\* What the latest compaction is.
LEMMA LastCompactionIs ==
  ASSUME NEW n \in Nat, NEW s \in Seq(Entry), Numbered(s, n)
  PROVE  \/ /\ LastCompaction(s) = 0
            /\ \A i \in 1 .. Len(s) : s[i].kind # "compaction"
         \/ \E k \in 1 .. Len(s) : /\ LastCompaction(s) = s[k].id /\ s[k].id > 0
                                   /\ s[k].kind = "compaction"
                                   /\ \A i \in 1 .. Len(s) : s[i].kind = "compaction" => i <= k
  <1> DEFINE T == {i \in 1 .. Len(s) : s[i].kind = "compaction"}
             k == IF T # {} THEN Max(T) ELSE 0
  <1>1. LastCompaction(s) = IF k = 0 THEN 0 ELSE s[k].id
    BY DEF LastCompaction, SelectLastInSeq
  <1>2. CASE T = {}
    BY <1>1, <1>2
  <1>3. CASE T # {}
    <2>1. \E x \in T : \A y \in T : x >= y
      <3>1. T \subseteq 1 .. Len(s) /\ Len(s) \in Nat
        OBVIOUS
      <3> HIDE DEF T
      <3> QED
        BY <1>3, <3>1, LastPlace
    <2>2. k = CHOOSE x \in T : \A y \in T : x >= y
      BY <1>3 DEF Max
    <2> HIDE DEF T, k
    <2>3. k \in T /\ \A y \in T : k >= y
      BY <2>1, <2>2
    <2>4. /\ k \in 1 .. Len(s) /\ s[k].kind = "compaction"
          /\ \A i \in 1 .. Len(s) : s[i].kind = "compaction" => i <= k
      BY <2>3 DEF T
    <2>5. s[k].id > 0
      BY <2>4 DEF Numbered
    <2> QED
      BY <1>1, <2>4, <2>5
  <1> QED
    BY <1>2, <1>3

\* When the latest compactions agree, the branch has none that the snapshot lacks.
LEMMA SameCompactions ==
  ASSUME NEW n \in Nat, NEW s \in Seq(Entry), NEW b \in Seq(Entry), Numbered(s, n),
         Numbered(b, n), Shared(s, b), LastCompaction(b) = LastCompaction(s),
         NEW j \in 1 .. Len(b), b[j].kind = "compaction"
  PROVE  b[j] \in Range(s)
  <1>1. PICK k \in 1 .. Len(b) : /\ LastCompaction(b) = b[k].id /\ b[k].id > 0
                                 /\ \A i \in 1 .. Len(b) : b[i].kind = "compaction" => i <= k
    BY LastCompactionIs
  <1>2. PICK i \in 1 .. Len(s) : LastCompaction(s) = s[i].id
    <2>1. LastCompaction(s) > 0
      BY <1>1
    <2>2. \/ LastCompaction(s) = 0
          \/ \E i \in 1 .. Len(s) : LastCompaction(s) = s[i].id
      BY LastCompactionIs
    <2> QED
      BY <2>1, <2>2
  <1>3. i = k /\ \A l \in 1 .. i : s[l] = b[l]
    BY <1>1, <1>2 DEF Shared
  <1>4. j \in 1 .. i /\ j \in DOMAIN s
    BY <1>1, <1>2, <1>3
  <1> QED
    BY <1>3, <1>4 DEF Range

(* ---- the inductive invariant -------------------------------------------------------- *)

\* The inputs since the fence was last down: those not among them are not under way, and
\* the fence is up unless there are none.
Fenced(f, ins, open) ==
  /\ f.pending = Cardinality(open) /\ f.seen \subseteq open
  /\ \A i \in InputIds : IF i \in open THEN ins[i] # "none" ELSE ins[i] \in {"none", "stored"}
  /\ f.preflight \/ open = {}

FenceInv(h, f, ins) == h # "closed" => \E open \in SUBSET InputIds : Fenced(f, ins, open)

\* The host waits for the attempt in the slot.
HostInv(h, o, s) ==
  /\ h \in {"waiting", "offered"} => o \in Ids
  /\ h = "waiting" => o = s

\* The snapshot of a current attempt, and the end of the branch it was offered for, are on
\* the branch.
LiveInv ==
  \A a \in Ids : attempts[a].current =>
    Leaf(attempts[a].source) \in IdsOf(branch) /\ attempts[a].boundary \in IdsOf(branch)

\* The host has committed the summary of the attempt in the slot and has not yet said so.
Awaited(a) ==
  /\ slot = a /\ host = "committed" /\ attempts[a].settled /\ OwnsCommit(a)
  /\ committed # LastCompaction(branch)

\* An adopted summary follows the snapshot it was made from; its attempt has an outcome, or
\* the event that decides it is awaited.
Adopted(k, a) ==
  /\ attempts[a].used /\ Answered(attempts[a])
  /\ Leaf(attempts[a].source) \in IdsOf(SubSeq(branch, 1, k - 1))
  /\ attempts[a].recorded # "none" \/ Awaited(a)

AdoptedInv == \A k \in 1 .. Len(branch), a \in Ids : branch[k].by = a => Adopted(k, a)

\* The inductive invariant.
IInv ==
  /\ TypeOK
  /\ Table(attempts) /\ SlotUsed(attempts, slot)
  /\ HistoryInv(branch, nextEntry, attempts)
  /\ FenceInv(host, fence, inputs)
  /\ HostInv(host, offerOf, slot)
  /\ LiveInv /\ AdoptedInv
  /\ slot # 0 => bound
  /\ committed < nextEntry

\* The branch ends with an entry.
LEMMA LeafIs ==
  ASSUME HistoryInv(branch, nextEntry, attempts)
  PROVE  Leaf(branch) \in Nat
  <1>1. Len(branch) \in 1 .. Len(branch) /\ branch \in Seq(Entry)
    BY DEF HistoryInv
  <1> HIDE DEF HistoryInv
  <1>2. branch[Len(branch)] \in Entry
    BY <1>1
  <1> QED
    BY <1>2 DEF Leaf, Last, Entry

\* Something was written.
LEMMA NextIsPositive ==
  ASSUME HistoryInv(branch, nextEntry, attempts)
  PROVE  nextEntry \in Nat \ {0}
  <1>1. Len(branch) \in 1 .. Len(branch)
    BY DEF HistoryInv
  <1>2. branch[Len(branch)].id \in 1 .. nextEntry - 1 /\ nextEntry \in Nat
    BY <1>1 DEF HistoryInv, Numbered
  <1> QED
    BY <1>2

\* An attempt lasts, or it is new and of the branch.
Snapshots ==
  \A a \in Ids :
    \/ Lasting(attempts[a], attempts'[a])
    \/ /\ ~ attempts[a].used /\ Planned(attempts'[a])
       /\ host = "idle" /\ UNCHANGED <<branch, nextEntry, host>>

\* Snapshots stay with the attempts.
LEMMA KeptSnapshots ==
  ASSUME KeepsSource(attempts, attempts') \/ Follows(attempts, attempts')
  PROVE  Snapshots
  BY DEF KeepsSource, Follows, SameAttempt, Snapshots

\* Every step keeps the table of attempts, and records outcomes once.
LEMMA TableStep ==
  ASSUME IInv, [Next]_vars
  PROVE  /\ Table(attempts') /\ SlotUsed(attempts', slot')
         /\ OnceRecorded(attempts, attempts') /\ Snapshots
  <1> USE DEF IInv
  <1>0. Table(attempts) /\ SlotUsed(attempts, slot)
    OBVIOUS
  <1>k. ASSUME Table(attempts'), Follows(attempts, attempts'), slot' = slot
        PROVE  /\ Table(attempts') /\ SlotUsed(attempts', slot')
               /\ OnceRecorded(attempts, attempts') /\ Snapshots
    BY <1>0, <1>k, SlotKept, FollowsKeeps, KeptSnapshots
  <1>u. ASSUME UNCHANGED <<attempts, slot>>
        PROVE  Table(attempts') /\ Follows(attempts, attempts') /\ slot' = slot
    BY <1>0, <1>u, FollowsItself
  <1>1. CASE Refresh
    BY <1>0, <1>1, <1>k, ApplyBothKeeps DEF Refresh, ApplyPreference
  <1>2. ASSUME NEW i \in InputIds, Input(i) \/ QueueInput(i) \/ MessageEnd(i) \/ StoreInput(i)
        PROVE  UNCHANGED <<attempts, slot>>
    BY <1>2 DEF Input, QueueInput, MessageEnd, StoreInput, control
  <1>3. ASSUME NEW a \in Ids, Start(a)
        PROVE  /\ Table(attempts') /\ SlotUsed(attempts', slot')
               /\ OnceRecorded(attempts, attempts') /\ Snapshots
    <2>1. /\ Table(attempts') /\ SlotUsed(attempts', slot')
          /\ OnceRecorded(attempts, attempts')
          /\ ~ attempts[a].used /\ Planned(attempts'[a])
          /\ \A b \in Ids \ {a} : Lasting(attempts[b], attempts'[b])
      BY <1>0, <1>3, LeafIs, StartKeeps DEF HistoryInv
    <2>2. host = "idle" /\ UNCHANGED <<branch, nextEntry, host>>
      BY <1>3 DEF Start, session
    <2> QED
      BY <2>1, <2>2 DEF Snapshots
  <1>4. ASSUME NEW a \in Ids, Reply(a) \/ Deadline(a)
        PROVE  Table(attempts') /\ Follows(attempts, attempts') /\ slot' = slot
    BY <1>0, <1>4, ReplyKeeps, DeadlineKeeps DEF Reply, Deadline, control
  <1>5. CASE ManualCompact
    <2>1. \/ ApplyBoth(FALSE, FALSE)
          \/ StopAttempt("retire")
      BY <1>5 DEF ManualCompact, ApplyPreference
    <2>2. slot' = slot /\ "retire" \in {"stop", "retire"}
      BY <1>5 DEF ManualCompact
    <2> QED
      BY <1>0, <1>k, <2>1, <2>2, ApplyBothKeeps, StopAttemptKeeps
  <1>6. CASE ThresholdCompact
    <2>1. slot' = slot
      BY <1>6 DEF ThresholdCompact
    <2>2. CASE ApplyBoth(FALSE, FALSE) \/ ApplyBoth(TRUE, TRUE)
      BY <1>0, <1>k, <2>1, <2>2, ApplyBothKeeps
    <2>3. CASE slot # 0 /\ attempts[slot].summary /\ Offered(slot)
      <3>1. slot \in Ids
        BY <1>0, <2>3, SlotIsAttempt
      <3>2. attempts[slot].settled
        BY <1>0, <2>3, <3>1 DEF Table, SoundAttempt, Earned
      <3> QED
        BY <1>0, <1>k, <2>1, <2>3, <3>1, <3>2, LeafIs, OfferKeeps DEF Offered
    <2>4. CASE UNCHANGED attempts
      BY <1>k, <1>u, <2>1, <2>4
    <2> QED
      BY <1>6, <2>2, <2>3, <2>4 DEF ThresholdCompact, ApplyPreference, NoOffer, MayOffer
  <1>7. CASE WakeSettled
    <2>1. offerOf \in Ids /\ slot' = slot /\ attempts[offerOf].settled
      BY <1>7 DEF WakeSettled, HostInv, control
    <2>2. \/ attempts' = [attempts EXCEPT ![offerOf].offered = TRUE,
                                          ![offerOf].boundary = Leaf(branch)]
          \/ UNCHANGED attempts
      BY <1>7 DEF WakeSettled
    <2> QED
      BY <1>0, <1>k, <1>u, <2>1, <2>2, LeafIs, OfferKeeps
  <1>8. CASE WakeInterrupted
    <2>1. slot = offerOf /\ offerOf \in Ids /\ aborted \in BOOLEAN /\ slot' = slot
      BY <1>8 DEF WakeInterrupted, HostInv, TypeOK
    <2> QED
      BY <1>0, <1>8, <1>k, <2>1, WakeInterruptedKeeps
  <1>9. CASE WakeExpired
    <2>1. slot = offerOf /\ offerOf \in Ids /\ slot' = slot
      BY <1>9 DEF WakeExpired, HostInv, control
    <2> QED
      BY <1>0, <1>9, <1>k, <2>1, WakeExpiredKeeps
  <1>10. CASE DropStale \/ Adopt \/ NativeCommit \/ HostAborts \/ ChangePreference \/ BranchGrows
              \/ CooldownEnds
    BY <1>10, <1>k, <1>u
       DEF DropStale, Adopt, NativeCommit, HostAborts, ChangePreference, BranchGrows,
           CooldownEnds, control
  <1>11. CASE Decline
    <2>1. UNCHANGED attempts \/ ApplyBoth(FALSE, FALSE) \/ ApplyBoth(TRUE, TRUE)
      BY <1>11 DEF Decline, ApplyPreference
    <2>2. slot' = slot
      BY <1>11 DEF Decline
    <2> QED
      BY <1>0, <1>k, <1>u, <2>1, <2>2, ApplyBothKeeps
  <1>12. CASE Compact
    BY <1>0, <1>12, CompactKeeps, KeptSnapshots
  <1>13. CASE Failed
    BY <1>0, <1>13, FailedKeeps, FollowsKeeps, KeptSnapshots
  <1>14. CASE Escape \/ AgentAborted
    <2>1. StopAttempt("stop") /\ slot' = slot /\ "stop" \in {"stop", "retire"}
      BY <1>14 DEF Escape, AgentAborted
    <2> QED
      BY <1>0, <1>k, <2>1, StopAttemptKeeps
  <1>15. CASE Command
    <2>1. \E first, on \in BOOLEAN : ApplyBoth(first, on)
      BY <1>15 DEF Command
    <2>2. slot' = slot
      BY <1>15 DEF Command
    <2> QED
      BY <1>0, <1>k, <2>1, <2>2, ApplyBothKeeps
  <1>16. CASE Drift
    BY <1>0, <1>16, <1>k, DriftKeeps DEF Drift, control
  <1>17. CASE Navigate
    BY <1>0, <1>17, NavigateKeeps, FollowsKeeps, KeptSnapshots
  <1>18. CASE SessionStart \/ Shutdown
    BY <1>0, <1>18, SessionEnds, FollowsKeeps, KeptSnapshots
  <1>19. CASE UNCHANGED vars
    BY <1>19, <1>k, <1>u DEF vars, control
  <1> QED
    BY <1>1, <1>2, <1>3, <1>4, <1>5, <1>6, <1>7, <1>8, <1>9, <1>10, <1>11, <1>12, <1>13, <1>14,
       <1>15, <1>16, <1>17, <1>18, <1>19, <1>k, <1>u DEF Next

\* A step leaves the branch, extends it by an entry with the next number, or goes back.
LEMMA BranchStep ==
  ASSUME [Next]_vars
  PROVE  \/ UNCHANGED <<branch, nextEntry>>
         \/ \E kind \in {"message", "edit", "compaction"}, by \in {0, offerOf} :
              /\ AppendEntry(kind, by)
              /\ by # 0 => Adopt
         \/ /\ Navigate
            /\ \E k \in 1 .. Len(branch) - 1 : branch' = SubSeq(branch, 1, k) /\ UNCHANGED nextEntry
  <1>1. CASE UNCHANGED <<branch, nextEntry>>
    BY <1>1
  <1>2. ASSUME NEW i \in InputIds, Input(i) \/ QueueInput(i) \/ MessageEnd(i)
        PROVE  UNCHANGED <<branch, nextEntry>>
    BY <1>2 DEF Input, QueueInput, MessageEnd, session
  <1>3. ASSUME NEW i \in InputIds, StoreInput(i)
        PROVE  AppendEntry("message", 0)
    BY <1>3 DEF StoreInput
  <1>4. ASSUME NEW a \in Ids, Start(a) \/ Reply(a) \/ Deadline(a)
        PROVE  UNCHANGED <<branch, nextEntry>>
    BY <1>4 DEF Start, Reply, Deadline, session
  <1>5. CASE \/ Refresh \/ ManualCompact \/ ThresholdCompact \/ WakeSettled \/ WakeInterrupted
             \/ WakeExpired \/ DropStale \/ Decline \/ HostAborts \/ Compact \/ Failed \/ Escape
             \/ AgentAborted \/ Command \/ ChangePreference \/ Drift \/ CooldownEnds
             \/ SessionStart \/ Shutdown \/ UNCHANGED vars
    <2>1. UNCHANGED <<branch, nextEntry>>
      BY <1>5 DEF Refresh, ManualCompact, ThresholdCompact, WakeSettled, WakeInterrupted,
                  WakeExpired, DropStale, Decline, HostAborts, Compact, Failed, Escape,
                  AgentAborted, Command, ChangePreference, Drift, CooldownEnds, SessionStart,
                  Shutdown, vars, session
    <2> QED
      BY <2>1
  <1>6. CASE Adopt
    <2>1. AppendEntry("compaction", offerOf)
      BY <1>6 DEF Adopt
    <2> QED
      BY <1>6, <2>1
  <1>7. CASE NativeCommit
    <2>1. AppendEntry("compaction", 0)
      BY <1>7 DEF NativeCommit
    <2> QED
      BY <2>1
  <1>8. CASE BranchGrows
    <2>1. \E kind \in {"message", "edit"} : AppendEntry(kind, 0)
      BY <1>8 DEF BranchGrows
    <2> QED
      BY <2>1
  <1>9. CASE Navigate
    <2>1. \E k \in 1 .. Len(branch) - 1 : branch' = SubSeq(branch, 1, k) /\ UNCHANGED nextEntry
      BY <1>9 DEF Navigate
    <2> QED
      BY <1>9, <2>1
  <1> QED
    BY <1>2, <1>3, <1>4, <1>5, <1>6, <1>7, <1>8, <1>9 DEF Next

\* Every step keeps the order of the branch and what snapshots share with it.
LEMMA HistoryStep ==
  ASSUME IInv, [Next]_vars
  PROVE  HistoryInv(branch', nextEntry', attempts')
  <1>0. /\ HistoryInv(branch, nextEntry, attempts) /\ Snapshots /\ offerOf \in 0 .. MaxAttempts
        /\ attempts \in [Ids -> Attempt]
    BY TableStep DEF IInv, TypeOK
  <1>n. nextEntry \in Nat \ {0} /\ branch \in Seq(Entry)
    BY <1>0, NextIsPositive DEF HistoryInv
  <1>s. \A a \in Ids : attempts[a].source \in Seq(Entry)
    <2>1. \A a \in Ids : attempts[a] \in Attempt
      BY <1>0
    <2> QED
      BY <2>1 DEF Attempt
  \* Seen from the old branch, the new table is sound.
  <1>1. ASSUME NEW a \in Ids
        PROVE  /\ Numbered(attempts'[a].source, nextEntry) /\ Shared(attempts'[a].source, branch)
               /\ attempts'[a].source \in Seq(Entry)
    <2>1. CASE attempts'[a].source = attempts[a].source
      BY <1>0, <1>s, <2>1 DEF HistoryInv
    <2>2. CASE attempts'[a].source = branch
      BY <1>0, <1>n, <2>2, SharedWithItself DEF HistoryInv
    <2> QED
      BY <1>0, <2>1, <2>2 DEF Snapshots, Lasting, Planned
  <1>2. CASE UNCHANGED <<branch, nextEntry>>
    BY <1>0, <1>1, <1>2 DEF HistoryInv
  <1>3. ASSUME NEW kind \in {"message", "edit", "compaction"}, NEW by \in {0, offerOf},
               AppendEntry(kind, by)
        PROVE  HistoryInv(branch', nextEntry', attempts')
    <2> DEFINE e == [id |-> nextEntry, kind |-> kind, by |-> by]
    <2>1. branch' = Append(branch, e) /\ nextEntry' = nextEntry + 1
      BY <1>3 DEF AppendEntry
    <2>2. e \in Entry /\ e.id = nextEntry
      BY <1>0, <1>n, AsyncAssumption DEF Entry
    <2> HIDE DEF e
    <2>3. branch' \in Seq(Entry) /\ Len(branch') >= 1 /\ Numbered(branch', nextEntry')
      <3>1. Numbered(branch, nextEntry) /\ Len(branch) >= 1
        BY <1>0 DEF HistoryInv
      <3>2. /\ Append(branch, e) \in Seq(Entry) /\ Len(Append(branch, e)) = Len(branch) + 1
            /\ Numbered(Append(branch, e), nextEntry + 1)
        BY <1>n, <2>2, <3>1, AppendNumbered
      <3> QED
        BY <1>n, <2>1, <3>1, <3>2
    <2>4. ASSUME NEW a \in Ids
          PROVE  Numbered(attempts'[a].source, nextEntry') /\ Shared(attempts'[a].source, branch')
      <3>1. Numbered(attempts'[a].source, nextEntry + 1)
        BY <1>1, <1>n, LaterNumbered
      <3>2. Shared(attempts'[a].source, Append(branch, e))
        BY <1>1, <1>n, <2>2, AppendShared
      <3> QED
        BY <2>1, <3>1, <3>2
    <2> QED
      BY <1>n, <2>1, <2>3, <2>4 DEF HistoryInv
  <1>4. ASSUME NEW k \in 1 .. Len(branch) - 1, branch' = SubSeq(branch, 1, k), UNCHANGED nextEntry
        PROVE  HistoryInv(branch', nextEntry', attempts')
    <2>1. k \in 1 .. Len(branch) /\ k >= 1
      BY <1>n
    <2>2. /\ branch' \in Seq(Entry) /\ Len(branch') = k
          /\ Numbered(branch, nextEntry) => Numbered(branch', nextEntry)
          /\ \A s : Shared(s, branch) => Shared(s, branch')
      BY <1>4, <1>n, <2>1, PrefixShared
    <2> QED
      BY <1>0, <1>1, <1>4, <1>n, <2>1, <2>2 DEF HistoryInv
  <1> QED
    BY <1>2, <1>3, <1>4, BranchStep

(* ---- the fence ---------------------------------------------------------------------- *)

\* There are finitely many inputs.
LEMMA InputCount ==
  /\ IsFiniteSet(InputIds) /\ Cardinality(InputIds) = MaxInputs
  /\ \A open \in SUBSET InputIds : /\ IsFiniteSet(open) /\ Cardinality(open) \in 0 .. MaxInputs
  <1>1. MaxInputs \in Nat
    BY AsyncAssumption
  <1>2. IsFiniteSet(1 .. MaxInputs) /\ Cardinality(1 .. MaxInputs) = MaxInputs
    <2>1. 1 \in Int /\ MaxInputs \in Int
      BY <1>1
    <2>2. /\ IsFiniteSet(1 .. MaxInputs)
          /\ Cardinality(1 .. MaxInputs) = IF 1 > MaxInputs THEN 0 ELSE MaxInputs - 1 + 1
      BY <2>1, FS_Interval
    <2> QED
      BY <1>1, <2>2
  <1>3. ASSUME NEW open \in SUBSET (1 .. MaxInputs)
        PROVE  IsFiniteSet(open) /\ Cardinality(open) \in 0 .. MaxInputs
    <2>1. IsFiniteSet(open) /\ Cardinality(open) <= Cardinality(1 .. MaxInputs)
      BY <1>2, FS_Subset
    <2>2. Cardinality(open) \in Nat
      BY <2>1, FS_CardinalityType
    <2> QED
      BY <1>1, <1>2, <2>1, <2>2
  <1> QED
    BY <1>2, <1>3 DEF InputIds

\* When no input is pending, none is under way.
LEMMA NonePending ==
  ASSUME FenceInv(host, fence, inputs), host # "closed", ~ InputStillPending
  PROVE  \A i \in InputIds : inputs[i] \in {"none", "stored"}
  <1>1. PICK open \in SUBSET InputIds : Fenced(fence, inputs, open)
    BY DEF FenceInv
  <1>2. CASE ~ fence.preflight
    BY <1>1, <1>2 DEF Fenced
  <1>3. CASE FenceDrops
    <2>1. fence.seen \subseteq open /\ Cardinality(fence.seen) = Cardinality(open)
      BY <1>1, <1>3 DEF Fenced, FenceDrops
    <2>2. fence.seen = open
      BY <2>1, InputCount, FS_Subset
    <2> QED
      BY <1>1, <1>3, <2>2 DEF Fenced, FenceDrops
  <1> QED
    BY <1>2, <1>3 DEF InputStillPending

\* With no input under way the fence may be down.
LEMMA FenceDown ==
  ASSUME NEW h, NEW ins, \A i \in InputIds : ins[i] \in {"none", "stored"}
  PROVE  FenceInv(h, NoFence, ins)
  <1>1. Fenced(NoFence, ins, {})
    BY FS_EmptySet DEF Fenced, NoFence
  <1> QED
    BY <1>1 DEF FenceInv

\* The fence drops only when no input is under way.
LEMMA CheckedFence ==
  ASSUME FenceInv(host, fence, inputs), host # "closed", CheckFence
  PROVE  FenceInv(host', fence', inputs)
  <1>1. CASE FenceDrops
    <2>1. fence' = NoFence /\ ~ InputStillPending
      BY <1>1 DEF CheckFence, InputStillPending
    <2> QED
      BY <2>1, NonePending, FenceDown
  <1>2. CASE ~ FenceDrops
    BY <1>2 DEF CheckFence, FenceInv
  <1> QED
    BY <1>1, <1>2

\* Every step keeps count of the inputs.
LEMMA FenceStep ==
  ASSUME IInv, [Next]_vars
  PROVE  FenceInv(host', fence', inputs')
  <1>0. /\ FenceInv(host, fence, inputs)
        /\ inputs \in [InputIds -> {"none", "accepted", "queued", "seen", "stored"}]
        /\ fence \in [preflight : BOOLEAN, pending : 0..MaxInputs, seen : SUBSET InputIds]
    BY DEF IInv, TypeOK
  <1>i. ASSUME NEW i \in InputIds, Input(i) \/ QueueInput(i) \/ MessageEnd(i) \/ StoreInput(i)
        PROVE  FenceInv(host', fence', inputs')
    <2>0. host # "closed" /\ host' = host
      BY <1>i DEF Input, QueueInput, MessageEnd, StoreInput
    <2>1. PICK open \in SUBSET InputIds : Fenced(fence, inputs, open)
      BY <1>0, <2>0 DEF FenceInv
    <2>2. CASE Input(i)
      <3> DEFINE more == open \cup {i}
      <3>1. i \notin open /\ more \in SUBSET InputIds
        BY <2>1, <2>2 DEF Input, Fenced
      <3>2. Cardinality(more) = Cardinality(open) + 1
        BY <3>1, InputCount, FS_AddElement
      <3>3. fence'.preflight = TRUE /\ fence'.pending = fence.pending + 1
            /\ fence'.seen = fence.seen
        BY <1>0, <2>2 DEF Input
      <3>4. \A j \in InputIds : inputs'[j] = IF j = i THEN "accepted" ELSE inputs[j]
        BY <1>0, <2>2 DEF Input
      <3>5. Fenced(fence', inputs', more)
        BY <2>1, <3>1, <3>2, <3>3, <3>4 DEF Fenced
      <3> QED
        BY <3>1, <3>5 DEF FenceInv
    <2>3. CASE QueueInput(i) \/ MessageEnd(i) \/ StoreInput(i)
      <3>1. i \in open
        <4>1. inputs[i] \notin {"none", "stored"}
          BY <2>3 DEF QueueInput, MessageEnd, StoreInput
        <4> QED
          BY <2>1, <4>1 DEF Fenced
      <3>2. PICK where \in {"queued", "seen", "stored"} : inputs' = [inputs EXCEPT ![i] = where]
        BY <2>3 DEF QueueInput, MessageEnd, StoreInput
      <3>3. \A j \in InputIds : inputs'[j] = IF j = i THEN where ELSE inputs[j]
        BY <1>0, <3>2
      <3>4. /\ fence'.preflight = fence.preflight /\ fence'.pending = fence.pending
            /\ fence'.seen \in {fence.seen, fence.seen \cup {i}}
        BY <1>0, <2>3 DEF QueueInput, MessageEnd, StoreInput
      <3>5. Fenced(fence', inputs', open)
        BY <2>1, <3>1, <3>2, <3>3, <3>4 DEF Fenced
      <3> QED
        BY <3>5 DEF FenceInv
    <2> QED
      BY <1>i, <2>2, <2>3
  <1>c. CASE ThresholdCompact \/ WakeSettled \/ Decline \/ Adopt
    <2>1. host # "closed" /\ inputs' = inputs /\ (CheckFence \/ fence' = fence)
      BY <1>c DEF ThresholdCompact, WakeSettled, Decline, Adopt
    <2>2. CASE CheckFence
      BY <1>0, <2>1, <2>2, CheckedFence
    <2>3. CASE fence' = fence
      BY <1>0, <2>1, <2>3 DEF FenceInv
    <2> QED
      BY <2>1, <2>2, <2>3
  <1>n. CASE Navigate \/ SessionStart
    <2>1. fence' = NoFence /\ inputs' = inputs
          /\ \A i \in InputIds : inputs[i] \in {"none", "stored"}
      BY <1>n DEF Navigate, SessionStart, Reset
    <2> QED
      BY <2>1, FenceDown
  <1>s. CASE Shutdown
    BY <1>s DEF Shutdown, HostDone, FenceInv
  <1>u. ASSUME UNCHANGED <<fence, inputs>>, host = "closed" => host' = "closed"
        PROVE  FenceInv(host', fence', inputs')
    BY <1>0, <1>u DEF FenceInv
  <1>1. CASE \/ Refresh \/ ManualCompact \/ WakeInterrupted \/ WakeExpired \/ DropStale
             \/ NativeCommit \/ HostAborts \/ Compact \/ Failed \/ Escape \/ AgentAborted
             \/ Command \/ ChangePreference \/ Drift \/ BranchGrows \/ CooldownEnds
             \/ UNCHANGED vars
    <2>1. UNCHANGED <<fence, inputs>>
      BY <1>1 DEF Refresh, ManualCompact, WakeInterrupted, WakeExpired, DropStale, NativeCommit,
                  HostAborts, Compact, Failed, Escape, AgentAborted, Command, ChangePreference,
                  Drift, BranchGrows, CooldownEnds, vars
    <2>2. host = "closed" => host' = "closed"
      BY <1>1 DEF Refresh, ManualCompact, WakeInterrupted, WakeExpired, DropStale, NativeCommit,
                  HostAborts, Compact, Failed, Escape, AgentAborted, Command, ChangePreference,
                  Drift, BranchGrows, CooldownEnds, vars
    <2> QED
      BY <1>u, <2>1, <2>2
  <1>2. ASSUME NEW a \in Ids, Start(a) \/ Reply(a) \/ Deadline(a)
        PROVE  FenceInv(host', fence', inputs')
    <2>1. UNCHANGED <<fence, inputs, host>>
      BY <1>2 DEF Start, Reply, Deadline
    <2> QED
      BY <1>u, <2>1
  <1> QED
    BY <1>i, <1>c, <1>n, <1>s, <1>1, <1>2 DEF Next

\* The host waits for the attempt that was in the slot when it asked, and the slot does
\* not change hands meanwhile.
LEMMA HostStep ==
  ASSUME IInv, [Next]_vars
  PROVE  HostInv(host', offerOf', slot')
  <1>0. HostInv(host, offerOf, slot) /\ (slot # 0 => slot \in Ids)
    BY SlotIsAttempt DEF IInv
  <1>u. ASSUME host' \in {host, "idle", "native", "failing", "committed", "closed"},
               host' \in {"waiting", "offered"} => UNCHANGED <<offerOf, slot>>
        PROVE  HostInv(host', offerOf', slot')
    BY <1>0, <1>u DEF HostInv
  <1>1. ASSUME NEW i \in InputIds, Input(i) \/ QueueInput(i) \/ MessageEnd(i) \/ StoreInput(i)
        PROVE  HostInv(host', offerOf', slot')
    <2>1. UNCHANGED <<host, offerOf, slot>>
      BY <1>1 DEF Input, QueueInput, MessageEnd, StoreInput, control
    <2> QED
      BY <1>u, <2>1
  <1>2. ASSUME NEW a \in Ids, Start(a)
        PROVE  HostInv(host', offerOf', slot')
    BY <1>2, <1>u DEF Start
  <1>3. ASSUME NEW a \in Ids, Reply(a) \/ Deadline(a)
        PROVE  HostInv(host', offerOf', slot')
    <2>1. UNCHANGED <<host, offerOf, slot>>
      BY <1>3 DEF Reply, Deadline, control
    <2> QED
      BY <1>u, <2>1
  <1>4. CASE ThresholdCompact
    <2>1. \/ host' = "native"
          \/ slot # 0 /\ slot' = slot /\ host' \in {"waiting", "offered"} /\ offerOf' = slot
      BY <1>4 DEF ThresholdCompact, MayOffer, Offered, NoOffer
    <2> QED
      BY <1>0, <2>1 DEF HostInv
  <1>5. CASE WakeSettled
    <2>1. /\ host = "waiting" /\ UNCHANGED slot
          /\ host' = "native" \/ (host' = "offered" /\ offerOf' = offerOf)
      BY <1>5 DEF WakeSettled, FallsBack, control
    <2> QED
      BY <1>0, <2>1 DEF HostInv
  <1>6. CASE \/ ManualCompact \/ WakeInterrupted \/ WakeExpired \/ DropStale \/ Decline \/ Adopt
             \/ NativeCommit \/ HostAborts \/ Compact \/ Failed \/ Shutdown
    <2>1. \/ host' \in {"idle", "native", "failing", "committed", "closed"}
          \/ UNCHANGED <<host, offerOf, slot>>
      BY <1>6 DEF ManualCompact, WakeInterrupted, WakeExpired, DropStale, Decline, Adopt,
                  NativeCommit, HostAborts, Compact, HostDone, FallsBack, Failed, Shutdown, control
    <2> QED
      BY <1>u, <2>1
  <1>7. CASE \/ Refresh \/ Escape \/ AgentAborted \/ Command \/ ChangePreference \/ Drift
             \/ BranchGrows \/ CooldownEnds \/ UNCHANGED vars
    <2>1. UNCHANGED <<host, offerOf, slot>>
      BY <1>7 DEF Refresh, Escape, AgentAborted, Command, ChangePreference, Drift, BranchGrows,
                  CooldownEnds, control, vars
    <2> QED
      BY <1>u, <2>1
  <1>8. CASE Navigate \/ SessionStart
    <2>1. host = "idle" /\ host' = host
      BY <1>8 DEF Navigate, SessionStart
    <2> QED
      BY <2>1 DEF HostInv
  <1> QED
    BY <1>1, <1>2, <1>3, <1>4, <1>5, <1>6, <1>7, <1>8 DEF Next

(* ---- types ---------------------------------------------------------------------------- *)

\* The simple variables.
LEMMA ControlTypes ==
  ASSUME IInv, [Next]_vars
  PROVE  /\ disk' \in BOOLEAN /\ enabled' \in BOOLEAN /\ bound' \in BOOLEAN /\ aborted' \in BOOLEAN
         /\ cooling' \in BOOLEAN /\ failedAt' \in BOOLEAN /\ starts' \in 0 .. 2
         /\ host' \in HostPcs /\ prepared' \in Seq(Entry) /\ offerOf' \in 0 .. MaxAttempts
         /\ committed' \in Nat
  <1>0. /\ disk \in BOOLEAN /\ enabled \in BOOLEAN /\ bound \in BOOLEAN /\ aborted \in BOOLEAN
        /\ cooling \in BOOLEAN /\ failedAt \in BOOLEAN /\ starts \in 0 .. 2
        /\ host \in HostPcs /\ prepared \in Seq(Entry) /\ offerOf \in 0 .. MaxAttempts
        /\ committed \in Nat /\ branch \in Seq(Entry) /\ slot \in 0 .. MaxAttempts
        /\ 0 \in 0 .. MaxAttempts /\ <<>> \in Seq(Entry)
    BY AsyncAssumption DEF IInv, TypeOK
  <1>c. \A x : Cooldown(x) => cooling' \in BOOLEAN /\ failedAt' \in BOOLEAN
    BY DEF Cooldown
  <1>b. \A first, on \in BOOLEAN : ApplyBoth(first, on) =>
          enabled' \in BOOLEAN /\ bound' \in BOOLEAN /\ cooling' \in BOOLEAN /\ failedAt' \in BOOLEAN
    BY <1>c DEF ApplyBoth
  <1>s. \A r : StopAttempt(r) => cooling' \in BOOLEAN /\ failedAt' \in BOOLEAN
    BY <1>c DEF StopAttempt
  <1>l. LastCompaction(branch) \in Nat
    <2>1. nextEntry \in Nat /\ Numbered(branch, nextEntry)
      BY DEF IInv, HistoryInv
    <2>2. \/ LastCompaction(branch) = 0
          \/ \E k \in 1 .. Len(branch) : LastCompaction(branch) = branch[k].id
      BY <1>0, <2>1, LastCompactionIs
    <2>3. \A k \in 1 .. Len(branch) : branch[k].id \in Nat
      BY <2>1 DEF Numbered
    <2> QED
      BY <2>2, <2>3
  <1>1. CASE Refresh \/ Command
    <2>1. \E first, on \in BOOLEAN : ApplyBoth(first, on)
      BY <1>1 DEF Refresh, Command, ApplyPreference
    <2>2. /\ disk' \in BOOLEAN
          /\ UNCHANGED <<prepared, starts, committed, host, offerOf, aborted>>
      BY <1>0, <1>1 DEF Refresh, Command, session
    <2> QED
      BY <1>0, <1>b, <2>1, <2>2
  <1>2. ASSUME NEW i \in InputIds, Input(i) \/ QueueInput(i) \/ MessageEnd(i) \/ StoreInput(i)
        PROVE  UNCHANGED <<prepared, disk, control, host, offerOf, aborted>>
    BY <1>2 DEF Input, QueueInput, MessageEnd, StoreInput, session
  <1>3. CASE \/ DropStale \/ NativeCommit \/ HostAborts \/ ChangePreference \/ Drift
             \/ BranchGrows \/ WakeExpired \/ WakeSettled \/ UNCHANGED vars
    <2>1. UNCHANGED control /\ prepared' \in {prepared, <<>>} /\ offerOf' \in {offerOf, 0}
      BY <1>3 DEF DropStale, NativeCommit, HostAborts, ChangePreference, Drift, BranchGrows,
                  WakeExpired, WakeSettled, HostDone, FallsBack, session, vars
    <2>2. disk' \in BOOLEAN /\ aborted' \in BOOLEAN /\ host' \in HostPcs
      BY <1>0, <1>3 DEF DropStale, NativeCommit, HostAborts, ChangePreference, Drift,
                        BranchGrows, WakeExpired, WakeSettled, HostDone, FallsBack, vars, HostPcs
    <2> QED
      BY <1>0, <2>1, <2>2 DEF control
  <1>4. ASSUME NEW a \in Ids, Start(a)
        PROVE  /\ UNCHANGED <<prepared, disk, failedAt, committed, host, offerOf, aborted>>
               /\ enabled' = TRUE /\ bound' = TRUE /\ cooling' = TRUE /\ starts' \in 0 .. 2
    BY <1>0, <1>4 DEF Start, MaySchedule, session
  <1>5. ASSUME NEW a \in Ids, Reply(a)
        PROVE  /\ UNCHANGED <<prepared, disk, enabled, bound, starts, committed, host, offerOf,
                              aborted>>
               /\ cooling' \in BOOLEAN /\ failedAt' \in BOOLEAN
    <2>1. \E x : Cooldown(x)
      BY <1>5 DEF Reply
    <2> QED
      BY <1>5, <1>c, <2>1 DEF Reply, session
  <1>6. ASSUME NEW a \in Ids, Deadline(a)
        PROVE  UNCHANGED <<prepared, disk, control, host, offerOf, aborted>>
    BY <1>6 DEF Deadline, session
  <1>7. CASE ManualCompact
    <2>1. ApplyBoth(FALSE, FALSE) \/ (StopAttempt("retire") /\ enabled' \in BOOLEAN /\ bound' = TRUE)
      BY <1>7 DEF ManualCompact, ApplyPreference
    <2>2. /\ host' = "native" /\ prepared' = <<>>
          /\ UNCHANGED <<disk, starts, committed, offerOf, aborted>>
      BY <1>7 DEF ManualCompact
    <2>3. enabled' \in BOOLEAN /\ bound' \in BOOLEAN /\ cooling' \in BOOLEAN /\ failedAt' \in BOOLEAN
      BY <1>b, <1>s, <2>1
    <2> QED
      BY <1>0, <2>2, <2>3 DEF HostPcs
  <1>8. CASE ThresholdCompact
    <2>1. /\ prepared' \in {branch, <<>>} /\ UNCHANGED <<disk, starts, committed, aborted>>
          /\ host' \in {"native", "waiting", "offered"} /\ offerOf' \in {0, slot}
      BY <1>8 DEF ThresholdCompact, Offered, NoOffer
    <2>2. \/ ApplyBoth(FALSE, FALSE) \/ ApplyBoth(TRUE, TRUE)
          \/ enabled' = TRUE /\ UNCHANGED <<bound, cooling, failedAt>>
      BY <1>8 DEF ThresholdCompact, ApplyPreference
    <2>3. enabled' \in BOOLEAN /\ bound' \in BOOLEAN /\ cooling' \in BOOLEAN /\ failedAt' \in BOOLEAN
      BY <1>0, <1>b, <2>2
    <2> QED
      BY <1>0, <2>1, <2>3 DEF HostPcs
  <1>9. CASE WakeInterrupted
    <2>1. \E x : Cooldown(x)
      BY <1>9 DEF WakeInterrupted
    <2>2. /\ UNCHANGED <<disk, enabled, bound, starts, committed>>
          /\ prepared' \in {prepared, <<>>} /\ offerOf' = 0 /\ aborted' \in {aborted, FALSE}
          /\ host' \in {"failing", "native"}
      BY <1>9 DEF WakeInterrupted, HostDone, FallsBack
    <2> QED
      BY <1>0, <1>c, <2>1, <2>2 DEF HostPcs
  <1>10. CASE Decline
    <2>1. \/ UNCHANGED <<enabled, bound, attempts, cooling, failedAt>>
          \/ ApplyBoth(FALSE, FALSE) \/ ApplyBoth(TRUE, TRUE)
      BY <1>10 DEF Decline, ApplyPreference
    <2>2. host' = "native" /\ offerOf' = 0 /\ UNCHANGED <<prepared, disk, starts, committed, aborted>>
      BY <1>10 DEF Decline, FallsBack, session
    <2>3. enabled' \in BOOLEAN /\ bound' \in BOOLEAN /\ cooling' \in BOOLEAN /\ failedAt' \in BOOLEAN
      BY <1>0, <1>b, <2>1
    <2> QED
      BY <1>0, <2>2, <2>3 DEF HostPcs
  <1>11. CASE Adopt
    BY <1>0, <1>11 DEF Adopt, HostDone, HostPcs
  <1>12. CASE Compact
    <2>1. /\ UNCHANGED <<disk, enabled, bound>>
          /\ host' = "idle" /\ offerOf' = 0 /\ prepared' = <<>> /\ aborted' = FALSE
      BY <1>12 DEF Compact, HostDone
    <2>2. \/ UNCHANGED <<starts, failedAt, cooling, committed>>
          \/ committed' = LastCompaction(branch) /\ \E x : AfterNative(x)
      BY <1>12 DEF Compact
    <2>3. \A x : AfterNative(x) => starts' = 0 /\ failedAt' \in BOOLEAN /\ cooling' \in BOOLEAN
      BY DEF AfterNative
    <2>4. /\ starts' \in 0 .. 2 /\ failedAt' \in BOOLEAN /\ cooling' \in BOOLEAN
          /\ committed' \in Nat
      BY <1>0, <1>l, <2>2, <2>3
    <2> QED
      BY <1>0, <2>1, <2>4 DEF HostPcs
  <1>13. CASE Failed
    <2>1. \E x : Cooldown(x)
      BY <1>13 DEF Failed
    <2>2. /\ UNCHANGED <<disk, enabled, bound, starts, committed>>
          /\ host' = "idle" /\ offerOf' = 0 /\ prepared' = <<>> /\ aborted' = FALSE
      BY <1>13 DEF Failed, HostDone
    <2> QED
      BY <1>0, <1>c, <2>1, <2>2 DEF HostPcs
  <1>14. CASE Escape \/ AgentAborted
    <2>1. /\ StopAttempt("stop")
          /\ UNCHANGED <<prepared, disk, enabled, bound, starts, committed, host, offerOf, aborted>>
      BY <1>14 DEF Escape, AgentAborted, session
    <2> QED
      BY <1>0, <1>s, <2>1
  <1>15. CASE CooldownEnds
    BY <1>0, <1>15 DEF CooldownEnds, session
  <1>16. CASE Navigate
    <2>1. /\ bound' = TRUE /\ enabled' = FALSE /\ Zeroed
          /\ UNCHANGED <<prepared, disk, host, offerOf, aborted>>
      BY <1>16 DEF Navigate
    <2>2. starts' = 0 /\ cooling' = FALSE /\ failedAt' = FALSE /\ committed' = 0
      BY <2>1 DEF Zeroed
    <2>3. /\ enabled' \in BOOLEAN /\ bound' \in BOOLEAN /\ cooling' \in BOOLEAN
          /\ failedAt' \in BOOLEAN
      BY <2>1, <2>2
    <2>4. starts' \in 0 .. 2 /\ committed' \in Nat
      BY <2>2
    <2> QED
      BY <1>0, <2>1, <2>3, <2>4
  <1>17. CASE SessionStart \/ Shutdown
    <2>1. \E t : Reset(t)
      BY <1>17 DEF SessionStart, Shutdown
    <2>2. bound' = FALSE /\ enabled' = FALSE /\ Zeroed
      BY <2>1 DEF Reset
    <2>3. /\ host' \in {host, "closed"} /\ UNCHANGED disk /\ prepared' \in {prepared, <<>>}
          /\ offerOf' \in {offerOf, 0} /\ aborted' \in {aborted, FALSE}
      BY <1>17 DEF SessionStart, Shutdown, HostDone, session
    <2>4. starts' = 0 /\ cooling' = FALSE /\ failedAt' = FALSE /\ committed' = 0
      BY <2>2 DEF Zeroed
    <2>5. host' \in HostPcs
      BY <1>0, <2>3 DEF HostPcs
    <2>6. /\ enabled' \in BOOLEAN /\ bound' \in BOOLEAN /\ cooling' \in BOOLEAN
          /\ failedAt' \in BOOLEAN
      BY <2>2, <2>4
    <2>7. starts' \in 0 .. 2 /\ committed' \in Nat
      BY <2>4
    <2>8. offerOf' \in 0 .. MaxAttempts
      BY <1>0, <2>3
    <2> QED
      BY <1>0, <2>3, <2>5, <2>6, <2>7, <2>8
  <1> QED
    BY <1>0, <1>1, <1>2, <1>3, <1>4, <1>5, <1>6, <1>7, <1>8, <1>9, <1>10, <1>11, <1>12, <1>13,
       <1>14, <1>15, <1>16, <1>17 DEF Next, control

\* The inputs and the fence.
LEMMA InputTypes ==
  ASSUME IInv, [Next]_vars
  PROVE  /\ inputs' \in [InputIds -> {"none", "accepted", "queued", "seen", "stored"}]
         /\ fence' \in [preflight : BOOLEAN, pending : 0..MaxInputs, seen : SUBSET InputIds]
  <1>0. /\ inputs \in [InputIds -> {"none", "accepted", "queued", "seen", "stored"}]
        /\ fence \in [preflight : BOOLEAN, pending : 0..MaxInputs, seen : SUBSET InputIds]
        /\ NoFence \in [preflight : BOOLEAN, pending : 0..MaxInputs, seen : SUBSET InputIds]
    BY AsyncAssumption DEF IInv, TypeOK, NoFence
  <1>1. ASSUME NEW i \in InputIds, Input(i)
        PROVE  /\ inputs' \in [InputIds -> {"none", "accepted", "queued", "seen", "stored"}]
               /\ fence' \in [preflight : BOOLEAN, pending : 0..MaxInputs, seen : SUBSET InputIds]
    <2>1. fence'.pending \in 0 .. MaxInputs
      <3>1. host' # "closed"
        BY <1>1 DEF Input
      <3>2. \E open \in SUBSET InputIds : fence'.pending = Cardinality(open)
        BY <3>1, FenceStep DEF FenceInv, Fenced
      <3> QED
        BY <3>2, InputCount
    <2>2. fence' = [preflight |-> TRUE, pending |-> fence.pending + 1, seen |-> fence.seen]
      BY <1>0, <1>1 DEF Input
    <2>3. fence' \in [preflight : BOOLEAN, pending : 0..MaxInputs, seen : SUBSET InputIds]
      BY <1>0, <2>1, <2>2
    <2>4. inputs' \in [InputIds -> {"none", "accepted", "queued", "seen", "stored"}]
      BY <1>0, <1>1 DEF Input
    <2> QED
      BY <2>3, <2>4
  <1>2. ASSUME NEW i \in InputIds, QueueInput(i) \/ MessageEnd(i) \/ StoreInput(i)
        PROVE  /\ inputs' \in [InputIds -> {"none", "accepted", "queued", "seen", "stored"}]
               /\ fence' \in [preflight : BOOLEAN, pending : 0..MaxInputs, seen : SUBSET InputIds]
    <2>1. inputs' \in [InputIds -> {"none", "accepted", "queued", "seen", "stored"}]
      BY <1>0, <1>2 DEF QueueInput, MessageEnd, StoreInput
    <2>2. fence' \in {fence, [fence EXCEPT !.seen = fence.seen \cup {i}]}
      BY <1>0, <1>2 DEF QueueInput, MessageEnd, StoreInput
    <2> QED
      BY <1>0, <2>1, <2>2
  <1>3. CASE \/ Refresh \/ ManualCompact \/ ThresholdCompact \/ WakeSettled \/ WakeInterrupted
             \/ WakeExpired \/ DropStale \/ Decline \/ Adopt \/ NativeCommit \/ HostAborts
             \/ Compact \/ Failed \/ Escape \/ AgentAborted \/ Command \/ ChangePreference
             \/ Drift \/ BranchGrows \/ CooldownEnds \/ Navigate \/ SessionStart \/ Shutdown
             \/ UNCHANGED vars
    <2>1. inputs' = inputs
      BY <1>3 DEF Refresh, ManualCompact, ThresholdCompact, WakeSettled, WakeInterrupted,
                  WakeExpired, DropStale, Decline, Adopt, NativeCommit, HostAborts, Compact,
                  Failed, Escape, AgentAborted, Command, ChangePreference, Drift, BranchGrows,
                  CooldownEnds, Navigate, SessionStart, Shutdown, vars
    <2>2. fence' \in {fence, NoFence}
      BY <1>3 DEF Refresh, ManualCompact, ThresholdCompact, WakeSettled, WakeInterrupted,
                  WakeExpired, DropStale, Decline, Adopt, NativeCommit, HostAborts, Compact,
                  Failed, Escape, AgentAborted, Command, ChangePreference, Drift, BranchGrows,
                  CooldownEnds, Navigate, SessionStart, Shutdown, Reset, CheckFence, vars
    <2> QED
      BY <1>0, <2>1, <2>2
  <1>4. ASSUME NEW a \in Ids, Start(a) \/ Reply(a) \/ Deadline(a)
        PROVE  UNCHANGED <<inputs, fence>>
    BY <1>4 DEF Start, Reply, Deadline
  <1> QED
    BY <1>0, <1>1, <1>2, <1>3, <1>4 DEF Next

(* ---- adopted summaries --------------------------------------------------------------- *)

\* The end of a branch is on it.
LEMMA LeafOnBranch ==
  ASSUME NEW b \in Seq(Entry), Len(b) >= 1
  PROVE  Leaf(b) \in IdsOf(b)
  <1>1. Len(b) \in DOMAIN b /\ Last(b) = b[Len(b)]
    BY DEF Last
  <1> QED
    BY <1>1 DEF Leaf, IdsOf

\* Two branches that agree up to a place have the same beginning.
LEMMA SameBeginning ==
  ASSUME NEW b \in Seq(Entry), NEW c \in Seq(Entry), NEW m \in Nat, m <= Len(b), m <= Len(c),
         \A i \in 1 .. m : c[i] = b[i]
  PROVE  SubSeq(c, 1, m) = SubSeq(b, 1, m)
  <1> DEFINE x == SubSeq(c, 1, m)
             y == SubSeq(b, 1, m)
  <1>1. x \in Seq(Entry) /\ Len(x) = m /\ \A i \in 1 .. m : x[i] = c[i]
    OBVIOUS
  <1>2. y \in Seq(Entry) /\ Len(y) = m /\ \A i \in 1 .. m : y[i] = b[i]
    OBVIOUS
  <1> HIDE DEF x, y
  <1>3. x = y
    BY <1>1, <1>2, SeqEqual
  <1> QED
    BY <1>3 DEF x, y

\* What an entry is appended to.
LEMMA Appended ==
  ASSUME NEW b \in Seq(Entry), NEW e \in Entry
  PROVE  LET c == Append(b, e)
         IN  /\ Len(c) = Len(b) + 1 /\ c[Len(c)] = e
             /\ \A k \in 1 .. Len(b) : c[k] = b[k]
             /\ \A k \in 1 .. Len(b) + 1 : SubSeq(c, 1, k - 1) = SubSeq(b, 1, k - 1)
             /\ SubSeq(c, 1, Len(b)) = b /\ IdsOf(b) \subseteq IdsOf(c)
  <1> DEFINE c == Append(b, e)
  <1>1. /\ c \in Seq(Entry) /\ Len(b) \in Nat /\ Len(c) = Len(b) + 1 /\ c[Len(c)] = e
        /\ \A k \in 1 .. Len(b) : c[k] = b[k]
    OBVIOUS
  <1>2. ASSUME NEW k \in 1 .. Len(b) + 1
        PROVE  SubSeq(c, 1, k - 1) = SubSeq(b, 1, k - 1)
    <2> HIDE DEF c
    <2>1. /\ k - 1 \in Nat /\ k - 1 <= Len(b) /\ k - 1 <= Len(c)
          /\ \A i \in 1 .. k - 1 : c[i] = b[i]
      BY <1>1
    <2> QED
      BY <1>1, <2>1, SameBeginning
  <1>3. SubSeq(c, 1, Len(b)) = b
    OBVIOUS
  <1>4. IdsOf(b) \subseteq IdsOf(c)
    <2>1. \A k \in DOMAIN b : k \in DOMAIN c /\ c[k] = b[k]
      OBVIOUS
    <2> HIDE DEF c
    <2> QED
      BY <2>1 DEF IdsOf
  <1> QED
    BY <1>1, <1>2, <1>3, <1>4

\* A beginning of the branch keeps what came before each of its entries.
LEMMA Shortened ==
  ASSUME NEW b \in Seq(Entry), NEW l \in 1 .. Len(b)
  PROVE  LET c == SubSeq(b, 1, l)
         IN  /\ Len(c) = l /\ \A k \in 1 .. l : c[k] = b[k]
             /\ \A k \in 1 .. l : SubSeq(c, 1, k - 1) = SubSeq(b, 1, k - 1)
  <1> DEFINE c == SubSeq(b, 1, l)
  <1>1. /\ c \in Seq(Entry) /\ Len(b) \in Nat /\ Len(c) = l
        /\ \A k \in 1 .. l : c[k] = b[k]
    OBVIOUS
  <1>2. ASSUME NEW k \in 1 .. l
        PROVE  SubSeq(c, 1, k - 1) = SubSeq(b, 1, k - 1)
    <2> HIDE DEF c
    <2>1. /\ k - 1 \in Nat /\ k - 1 <= Len(b) /\ k - 1 <= Len(c)
          /\ \A i \in 1 .. k - 1 : c[i] = b[i]
      BY <1>1
    <2> QED
      BY <1>1, <2>1, SameBeginning
  <1> QED
    BY <1>1, <1>2

\* What came before an entry is on the branch.
LEMMA BeforeOnBranch ==
  ASSUME NEW b \in Seq(Entry), NEW k \in 1 .. Len(b)
  PROVE  IdsOf(SubSeq(b, 1, k - 1)) \subseteq IdsOf(b)
  <1>1. \A i \in DOMAIN SubSeq(b, 1, k - 1) : i \in DOMAIN b /\ SubSeq(b, 1, k - 1)[i] = b[i]
    OBVIOUS
  <1> QED
    BY <1>1 DEF IdsOf

\* A compaction appended is the latest; anything else appended leaves the latest.
LEMMA LatestAppended ==
  ASSUME NEW n \in Nat \ {0}, NEW b \in Seq(Entry), NEW e \in Entry, e.id = n, Numbered(b, n)
  PROVE  LastCompaction(Append(b, e)) = IF e.kind = "compaction" THEN n ELSE LastCompaction(b)
  <1> DEFINE c == Append(b, e)
  <1>1. /\ c \in Seq(Entry) /\ Len(c) = Len(b) + 1 /\ Numbered(c, n + 1) /\ c[Len(c)] = e
        /\ Len(b) \in Nat /\ \A k \in 1 .. Len(b) : c[k] = b[k]
    <2>1. c \in Seq(Entry) /\ Numbered(c, n + 1)
      BY AppendNumbered
    <2>2. /\ Len(b) \in Nat /\ Len(c) = Len(b) + 1 /\ c[Len(c)] = e
          /\ \A k \in 1 .. Len(b) : c[k] = b[k]
      OBVIOUS
    <2> QED
      BY <2>1, <2>2
  <1> HIDE DEF c
  <1>2. \/ /\ LastCompaction(c) = 0 /\ \A i \in 1 .. Len(c) : c[i].kind # "compaction"
        \/ \E k \in 1 .. Len(c) : /\ LastCompaction(c) = c[k].id /\ c[k].kind = "compaction"
                                  /\ \A i \in 1 .. Len(c) : c[i].kind = "compaction" => i <= k
    BY <1>1, LastCompactionIs
  <1>3. \/ /\ LastCompaction(b) = 0 /\ \A i \in 1 .. Len(b) : b[i].kind # "compaction"
        \/ \E k \in 1 .. Len(b) : /\ LastCompaction(b) = b[k].id /\ b[k].kind = "compaction"
                                  /\ \A i \in 1 .. Len(b) : b[i].kind = "compaction" => i <= k
    BY LastCompactionIs
  <1>4. CASE e.kind = "compaction"
    <2>1. PICK k \in 1 .. Len(c) : /\ LastCompaction(c) = c[k].id
                                   /\ \A i \in 1 .. Len(c) : c[i].kind = "compaction" => i <= k
      BY <1>1, <1>2, <1>4
    <2>2. k = Len(c)
      BY <1>1, <1>4, <2>1
    <2> QED
      BY <1>1, <1>4, <2>1, <2>2 DEF c
  <1>5. CASE e.kind # "compaction"
    <2>1. \A i \in 1 .. Len(c) : c[i].kind = "compaction" => i \in 1 .. Len(b)
      BY <1>1, <1>5
    <2>2. CASE \A i \in 1 .. Len(b) : b[i].kind # "compaction"
      BY <1>1, <1>2, <1>3, <1>5, <2>1, <2>2 DEF c
    <2>3. CASE \E i \in 1 .. Len(b) : b[i].kind = "compaction"
      <3>1. PICK k \in 1 .. Len(b) : /\ LastCompaction(b) = b[k].id /\ b[k].kind = "compaction"
                                     /\ \A i \in 1 .. Len(b) : b[i].kind = "compaction" => i <= k
        BY <1>3, <2>3
      <3>2. PICK l \in 1 .. Len(c) : /\ LastCompaction(c) = c[l].id /\ c[l].kind = "compaction"
                                     /\ \A i \in 1 .. Len(c) : c[i].kind = "compaction" => i <= l
        BY <1>1, <1>2, <3>1
      <3>3. l \in 1 .. Len(b) /\ k \in 1 .. Len(c)
        BY <1>1, <2>1, <3>2
      <3>4. k = l
        BY <1>1, <3>1, <3>2, <3>3
      <3> QED
        BY <1>1, <1>5, <3>1, <3>2, <3>4 DEF c
    <2> QED
      BY <2>2, <2>3
  <1> QED
    BY <1>4, <1>5

\* A settled attempt whose snapshot is on the branch has an outcome when it is cancelled.
LEMMA CancelRecords ==
  ASSUME NEW t \in [Ids -> Attempt], NEW a \in Ids, t[a].settled, ~ t[a].cancelled,
         SameBranch(a), NEW reason
  PROVE  Cancel(t, a, reason)[a].recorded # "none"
  <1> DEFINE marked == [t EXCEPT ![a].cancelled = TRUE,
                                 ![a].reason = IF @ = "none" THEN reason ELSE @]
  <1>1. Cancel(t, a, reason) = Record(marked, a, "cancelled")
    BY DEF Cancel
  <1>2. DOMAIN marked = Ids /\ "recorded" \in DOMAIN marked[a]
    BY DEF Attempt
  <1> HIDE DEF marked
  <1> QED
    BY <1>1, <1>2 DEF Record

\* ---- the awaited event

\* A step that leaves the slot, the host, the attempt and the last event alone, and at most
\* stores a message, leaves the event awaited.
LEMMA StillAwaited ==
  ASSUME IInv, NEW a \in Ids, Awaited(a), UNCHANGED <<slot, host, committed>>,
         UNCHANGED branch \/ AppendEntry("message", 0),
         LET r == attempts[a]
             s == attempts'[a]
         IN  /\ s.settled = r.settled /\ s.cancelled = r.cancelled /\ s.offered = r.offered
             /\ s.current = r.current /\ s.boundary = r.boundary
  PROVE  Awaited(a)'
  <1>1. CASE UNCHANGED branch
    BY <1>1 DEF Awaited, OwnsCommit
  <1>2. CASE AppendEntry("message", 0)
    <2> DEFINE e == [id |-> nextEntry, kind |-> "message", by |-> 0]
    <2>1. branch' = Append(branch, e)
      BY <1>2 DEF AppendEntry
    <2>2. nextEntry \in Nat \ {0} /\ branch \in Seq(Entry) /\ Numbered(branch, nextEntry)
      BY NextIsPositive DEF IInv, HistoryInv
    <2>3. e \in Entry /\ e.id = nextEntry /\ e.kind # "compaction"
      BY <2>2, AsyncAssumption DEF Entry
    <2> HIDE DEF e
    <2>4. LastCompaction(branch') = LastCompaction(branch)
      BY <2>1, <2>2, <2>3, LatestAppended
    <2>5. PICK k \in 1 .. Len(branch) :
            /\ branch[k].id = LastCompaction(branch) /\ branch[k].by = a
            /\ attempts[a].boundary \in IdsOf(SubSeq(branch, 1, k - 1))
      BY <2>2 DEF Awaited, OwnsCommit
    <2>6. /\ k \in DOMAIN branch' /\ branch'[k] = branch[k]
          /\ SubSeq(branch', 1, k - 1) = SubSeq(branch, 1, k - 1)
      <3>1. /\ Len(branch') = Len(branch) + 1 /\ branch'[k] = branch[k]
            /\ k \in 1 .. Len(branch) + 1 /\ branch' \in Seq(Entry)
            /\ \A i \in 1 .. Len(branch) + 1 : SubSeq(branch', 1, i - 1) = SubSeq(branch, 1, i - 1)
        BY <2>1, <2>2, <2>3, Appended
      <3> QED
        BY <3>1
    <2> QED
      BY <2>4, <2>5, <2>6 DEF Awaited, OwnsCommit
  <1> QED
    BY <1>1, <1>2

\* A settled attempt of the slot has an outcome once the feature is left.
LEMMA LeavingRecords ==
  ASSUME IInv, NEW a \in Ids, slot = a, attempts[a].settled, ~ attempts[a].cancelled,
         SameBranch(a), NEW first, NEW on, ApplyBoth(first, on)
  PROVE  attempts'[a].recorded # "none" \/ UNCHANGED attempts
  <1> DEFINE t == NewGeneration(attempts)
  <1>1. t \in [Ids -> Attempt] /\ Kept(attempts[a], t[a], "current")
    BY Outdated DEF IInv, Table
  <1>2. bound
    BY AsyncAssumption DEF IInv, Ids
  <1>3. attempts' \in {Cancel(t, slot, "retire"), attempts}
    BY <1>2 DEF ApplyBoth
  <1>4. t[a].settled /\ ~ t[a].cancelled
    BY <1>1 DEF Kept
  <1> HIDE DEF t
  <1> QED
    BY <1>1, <1>3, <1>4, CancelRecords

\* So it has once it is stopped.
LEMMA StoppingRecords ==
  ASSUME IInv, NEW a \in Ids, slot = a, attempts[a].settled, ~ attempts[a].cancelled,
         SameBranch(a), NEW reason \in {"stop", "retire"}, StopAttempt(reason)
  PROVE  attempts'[a].recorded # "none"
  <1> DEFINE named == [b \in Ids |-> IF b = slot /\ ~ attempts[b].cancelled
                                     THEN [attempts[b] EXCEPT !.reason = reason]
                                     ELSE attempts[b]]
             t == NewGeneration(named)
  <1>0. \A b \in Ids : attempts[b] \in Attempt
    BY DEF IInv, Table
  <1>1. ASSUME NEW b \in Ids
        PROVE  named[b] \in Attempt /\ Kept(attempts[b], named[b], "reason")
    <2>1. CASE b = slot /\ ~ attempts[b].cancelled
      <3>1. named[b] = [attempts[b] EXCEPT !.reason = reason] /\ reason \in Reasons
        BY <2>1 DEF Reasons
      <3> HIDE DEF named
      <3> QED
        BY <1>0, <3>1, SetReason
    <2>2. CASE ~ (b = slot /\ ~ attempts[b].cancelled)
      <3>1. named[b] = attempts[b]
        BY <2>2
      <3> HIDE DEF named
      <3> QED
        BY <1>0, <3>1 DEF Kept
    <2> QED
      BY <2>1, <2>2
  <1>2. named \in [Ids -> Attempt]
    <2>1. named = [b \in Ids |-> named[b]]
      OBVIOUS
    <2> HIDE DEF named
    <2> QED
      BY <1>1, <2>1
  <1>3. attempts' = Cancel(t, slot, reason)
    BY DEF StopAttempt
  <1> HIDE DEF named
  <1>4. t \in [Ids -> Attempt] /\ Kept(named[a], t[a], "current")
    BY <1>2, Outdated
  <1>5. t[a].settled /\ ~ t[a].cancelled
    BY <1>1, <1>4 DEF Kept
  <1> HIDE DEF t
  <1> QED
    BY <1>3, <1>4, <1>5, CancelRecords

\* While the event is awaited, every step leaves it awaited or gives the attempt its
\* outcome.
LEMMA AwaitedStep ==
  ASSUME IInv, [Next]_vars, NEW a \in Ids, Awaited(a), SameBranch(a)
  PROVE  attempts'[a].recorded # "none" \/ Awaited(a)'
  <1>0. /\ slot = a /\ host = "committed" /\ attempts[a].settled /\ ~ attempts[a].cancelled
        /\ OwnsCommit(a) /\ committed # LastCompaction(branch) /\ a # 0
        /\ attempts[a] \in Attempt /\ attempts \in [Ids -> Attempt]
    BY AsyncAssumption DEF Awaited, OwnsCommit, Ids, IInv, Table
  <1>u. ASSUME UNCHANGED <<slot, host, committed, branch, attempts>>
        PROVE  Awaited(a)'
    BY <1>u, StillAwaited
  <1>1. CASE Refresh \/ Command
    <2>1. \E first, on \in BOOLEAN : ApplyBoth(first, on)
      BY <1>1 DEF Refresh, Command, ApplyPreference
    <2>2. UNCHANGED <<slot, host, committed, branch>>
      BY <1>1 DEF Refresh, Command, session
    <2> QED
      BY <1>0, <1>u, <2>1, <2>2, LeavingRecords
  <1>2. ASSUME NEW i \in InputIds, Input(i) \/ QueueInput(i) \/ MessageEnd(i) \/ StoreInput(i)
        PROVE  Awaited(a)'
    <2>1. UNCHANGED <<slot, host, committed, attempts>>
      BY <1>2 DEF Input, QueueInput, MessageEnd, StoreInput, control
    <2>2. UNCHANGED branch \/ AppendEntry("message", 0)
      BY <1>2 DEF Input, QueueInput, MessageEnd, StoreInput, session
    <2> QED
      BY <2>1, <2>2, StillAwaited
  <1>3. ASSUME NEW b \in Ids, Reply(b) \/ Deadline(b)
        PROVE  Awaited(a)'
    <2>1. b # a /\ UNCHANGED <<slot, host, committed, branch>>
      BY <1>0, <1>3 DEF Reply, Deadline, control, session
    <2>2. attempts'[a] = attempts[a]
      <3>1. CASE Deadline(b)
        BY <1>0, <2>1, <3>1 DEF Deadline
      <3>2. CASE Reply(b)
        <4>1. PICK done \in {[attempts EXCEPT ![b].settled = TRUE, ![b].summary = kept] :
                               kept \in BOOLEAN} :
                \/ attempts' = done
                \/ \E what \in Outcomes : attempts' = Record(done, b, what)
          BY <3>2 DEF Reply, Outcomes
        <4>2. done[a] = attempts[a]
          BY <1>0, <2>1, <4>1
        <4>3. \A what : Record(done, b, what)[a] = done[a]
          BY <1>0, <2>1 DEF Record
        <4> QED
          BY <4>1, <4>2, <4>3
      <3> QED
        BY <1>3, <3>1, <3>2
    <2> QED
      BY <2>1, <2>2, StillAwaited
  <1>4. CASE Compact
    <2> DEFINE t == Record(attempts, a, "adopted")
    <2>1. ~ attempts[a].nativeFallback /\ attempts[a].used
      BY <1>0 DEF IInv, Table, SoundAttempt, SlotUsed
    <2>2. attempts' = NewGeneration(t)
      BY <1>0, <1>4, <2>1 DEF Compact
    <2>3. Table(t) /\ t[a].recorded # "none"
      BY <2>1, OutcomeRecorded DEF IInv, Outcomes
    <2> HIDE DEF t
    <2>4. Kept(t[a], NewGeneration(t)[a], "current")
      BY <2>3, Outdated DEF Table
    <2> QED
      BY <2>2, <2>3, <2>4 DEF Kept
  <1>5. CASE Escape \/ AgentAborted
    <2>1. StopAttempt("stop") /\ "stop" \in {"stop", "retire"}
      BY <1>5 DEF Escape, AgentAborted
    <2> QED
      BY <1>0, <2>1, StoppingRecords
  <1>6. CASE ChangePreference \/ UNCHANGED vars
    BY <1>6, <1>u DEF ChangePreference, control, session, vars
  <1>7. CASE Drift
    <2>1. UNCHANGED <<slot, host, committed, branch>>
      BY <1>7 DEF Drift, control, session
    <2>2. attempts'[a] = [attempts[a] EXCEPT !.fitting = FALSE] /\ FALSE \in BOOLEAN
      BY <1>7 DEF Drift
    <2>3. Kept(attempts[a], attempts'[a], "fitting")
      BY <1>0, <2>2, SetFitting
    <2> QED
      BY <2>1, <2>3, StillAwaited DEF Kept
  <1>8. CASE Shutdown
    <2> DEFINE left == Cancel(attempts, slot, "stop")
    <2>1. left[a].recorded # "none"
      BY <1>0, CancelRecords
    <2>2. Follows(left, attempts')
      BY <1>0, <1>8, SessionEnds DEF IInv
    <2> HIDE DEF left
    <2> QED
      BY <2>1, <2>2 DEF Follows, SameAttempt
  <1>9. ASSUME NEW b \in Ids, Start(b)
        PROVE  FALSE
    BY <1>0, <1>9 DEF Start
  <1>10. ~ (\/ ManualCompact \/ ThresholdCompact \/ WakeSettled \/ WakeInterrupted \/ WakeExpired
            \/ DropStale \/ Decline \/ Adopt \/ NativeCommit \/ HostAborts \/ Failed \/ BranchGrows
            \/ CooldownEnds \/ Navigate \/ SessionStart)
    BY <1>0 DEF ManualCompact, ThresholdCompact, WakeSettled, WakeInterrupted, WakeExpired,
                DropStale, Decline, Adopt, NativeCommit, HostAborts, Failed, BranchGrows,
                CooldownEnds, Navigate, SessionStart
  <1> QED
    BY <1>1, <1>2, <1>3, <1>4, <1>5, <1>6, <1>7, <1>8, <1>9, <1>10 DEF Next

\* Snapshots of current attempts stay on the branch.
LEMMA LiveStep ==
  ASSUME IInv, [Next]_vars
  PROVE  LiveInv'
  <1>0. /\ Snapshots /\ LiveInv /\ branch \in Seq(Entry) /\ Len(branch) >= 1
        /\ Leaf(branch) \in IdsOf(branch)
    BY TableStep, LeafOnBranch DEF IInv, HistoryInv
  <1>1. ASSUME NEW a \in Ids, attempts'[a].current
        PROVE  Leaf(attempts'[a].source) \in IdsOf(branch) /\ attempts'[a].boundary \in IdsOf(branch)
    <2>1. CASE Lasting(attempts[a], attempts'[a])
      BY <1>0, <1>1, <2>1 DEF Lasting, LiveInv
    <2>2. CASE Planned(attempts'[a])
      BY <1>0, <2>2 DEF Planned
    <2> QED
      BY <1>0, <2>1, <2>2 DEF Snapshots
  <1>2. ASSUME IdsOf(branch) \subseteq IdsOf(branch')
        PROVE  LiveInv'
    BY <1>1, <1>2 DEF LiveInv
  <1>3. CASE UNCHANGED <<branch, nextEntry>>
    BY <1>2, <1>3
  <1>4. ASSUME NEW kind \in {"message", "edit", "compaction"}, NEW by \in {0, offerOf},
               AppendEntry(kind, by)
        PROVE  LiveInv'
    <2>1. branch' = Append(branch, [id |-> nextEntry, kind |-> kind, by |-> by])
          /\ [id |-> nextEntry, kind |-> kind, by |-> by] \in Entry
      BY <1>4, AsyncAssumption DEF AppendEntry, IInv, HistoryInv, TypeOK, Entry
    <2> QED
      BY <1>0, <1>2, <2>1, Appended
  <1>5. CASE Navigate
    BY <1>5, NavigateKeeps DEF IInv, LiveInv
  <1> QED
    BY <1>3, <1>4, <1>5, BranchStep

\* An adopted summary keeps its place and its attempt.
LEMMA AdoptedStays ==
  ASSUME IInv, [Next]_vars, NEW k \in 1 .. Len(branch), NEW a \in Ids, branch[k].by = a,
         SubSeq(branch', 1, k - 1) = SubSeq(branch, 1, k - 1)
  PROVE  Adopted(k, a)'
  <1>1. Adopted(k, a)
    BY DEF IInv, AdoptedInv
  <1>2. branch \in Seq(Entry)
    BY DEF IInv, TypeOK
  <1>3. Lasting(attempts[a], attempts'[a]) /\ OnceRecorded(attempts, attempts')
    BY <1>1, <1>2, TableStep DEF Snapshots, Adopted
  <1>4. attempts'[a].recorded # "none" \/ Awaited(a)'
    <2>1. CASE attempts[a].recorded # "none"
      BY <1>2, <1>3, <2>1 DEF OnceRecorded
    <2>2. CASE Awaited(a)
      <3>1. SameBranch(a)
        BY <1>1, <1>2, BeforeOnBranch DEF Adopted, SameBranch, OnBranch
      <3> QED
        BY <1>2, <2>2, <3>1, AwaitedStep
    <2> QED
      BY <1>1, <2>1, <2>2 DEF Adopted
  <1> QED
    BY <1>1, <1>3, <1>4 DEF Adopted, Lasting

\* A summary is adopted after its snapshot, and its event is awaited.
LEMMA AdoptedNow ==
  ASSUME IInv, Adopt, NEW k, k = Len(branch) + 1, NEW a, a = offerOf
  PROVE  Adopted(k, a)'
  <1> DEFINE e == [id |-> nextEntry, kind |-> "compaction", by |-> a]
  <1>1. /\ branch' = Append(branch, e) /\ UNCHANGED <<attempts, slot, committed>>
        /\ host' = "committed" /\ CanAdopt(a)
    BY DEF Adopt, AppendEntry, HostDone
  <1>2. /\ nextEntry \in Nat \ {0} /\ branch \in Seq(Entry) /\ Numbered(branch, nextEntry)
        /\ a \in Ids /\ a \in 0 .. MaxAttempts
    <2>1. a = slot /\ slot \in 0 .. MaxAttempts /\ host = "offered"
      BY <1>1 DEF CanAdopt, IInv, SlotUsed, Adopt
    <2> QED
      BY <2>1, NextIsPositive DEF IInv, HistoryInv, HostInv
  <1>3. e \in Entry /\ e.id = nextEntry /\ e.kind = "compaction" /\ e.by = a
    BY <1>2 DEF Entry
  <1>4. /\ attempts[a].offered /\ attempts[a].settled /\ attempts[a].used
        /\ attempts[a].current /\ ~ attempts[a].cancelled /\ slot = a
    BY <1>1, <1>2, SlotIsAttempt DEF CanAdopt, IInv, Table, SoundAttempt, Earned, SlotUsed
  <1>5. /\ Leaf(attempts[a].source) \in IdsOf(branch) /\ attempts[a].boundary \in IdsOf(branch)
    BY <1>2, <1>4 DEF IInv, LiveInv
  <1> HIDE DEF e
  <1>6. /\ Len(branch') = k /\ branch'[k] = e /\ SubSeq(branch', 1, k - 1) = branch
        /\ k \in DOMAIN branch'
    <2>1. /\ Len(branch') = Len(branch) + 1 /\ branch'[Len(branch')] = e
          /\ SubSeq(branch', 1, Len(branch)) = branch /\ Len(branch) \in Nat
          /\ branch' \in Seq(Entry)
      BY <1>1, <1>2, <1>3, Appended
    <2>2. k - 1 = Len(branch)
      BY <2>1
    <2> QED
      BY <2>1, <2>2
  <1>7. LastCompaction(branch') = nextEntry
    BY <1>1, <1>2, <1>3, LatestAppended
  <1>8. committed # nextEntry
    BY <1>2 DEF IInv, TypeOK
  <1>9. Awaited(a)'
    BY <1>1, <1>3, <1>4, <1>5, <1>6, <1>7, <1>8 DEF Awaited, OwnsCommit
  <1> QED
    BY <1>1, <1>4, <1>5, <1>6, <1>9 DEF Adopted, Answered

\* Every step keeps what is known of adopted summaries.
LEMMA AdoptedStep ==
  ASSUME IInv, [Next]_vars
  PROVE  AdoptedInv'
  <1>0. branch \in Seq(Entry) /\ Len(branch) \in Nat /\ nextEntry \in Nat
        /\ offerOf \in 0 .. MaxAttempts
    BY DEF IInv, TypeOK
  <1>1. CASE UNCHANGED <<branch, nextEntry>>
    BY <1>1, AdoptedStays DEF AdoptedInv
  <1>2. ASSUME NEW kind \in {"message", "edit", "compaction"}, NEW by \in {0, offerOf},
               AppendEntry(kind, by), by # 0 => Adopt
        PROVE  AdoptedInv'
    <2> DEFINE e == [id |-> nextEntry, kind |-> kind, by |-> by]
    <2>1. branch' = Append(branch, e) /\ e \in Entry /\ e.by = by
      BY <1>0, <1>2, AsyncAssumption DEF AppendEntry, Entry
    <2> HIDE DEF e
    <2>2. /\ Len(branch') = Len(branch) + 1 /\ branch'[Len(branch')] = e
          /\ \A k \in 1 .. Len(branch) :
               /\ branch'[k] = branch[k]
               /\ SubSeq(branch', 1, k - 1) = SubSeq(branch, 1, k - 1)
      <3>1. \A k \in 1 .. Len(branch) : k \in 1 .. Len(branch) + 1
        BY <1>0
      <3> QED
        BY <1>0, <2>1, <3>1, Appended
    <2>3. ASSUME NEW k \in 1 .. Len(branch'), NEW a \in Ids, branch'[k].by = a
          PROVE  Adopted(k, a)'
      <3>1. CASE k \in 1 .. Len(branch)
        BY <2>2, <2>3, <3>1, AdoptedStays
      <3>2. CASE k = Len(branch) + 1
        <4>1. Adopt /\ a = offerOf
          BY <1>2, <2>1, <2>2, <2>3, <3>2, AsyncAssumption DEF Ids
        <4> QED
          BY <3>2, <4>1, AdoptedNow
      <3> QED
        BY <1>0, <2>2, <3>1, <3>2
    <2> QED
      BY <2>3 DEF AdoptedInv
  <1>3. ASSUME NEW l \in 1 .. Len(branch) - 1, branch' = SubSeq(branch, 1, l)
        PROVE  AdoptedInv'
    <2>1. l \in 1 .. Len(branch)
      BY <1>0
    <2>2. /\ Len(branch') = l
          /\ \A k \in 1 .. l : /\ k \in 1 .. Len(branch) /\ branch'[k] = branch[k]
                               /\ SubSeq(branch', 1, k - 1) = SubSeq(branch, 1, k - 1)
      <3>1. \A k \in 1 .. l : k \in 1 .. Len(branch)
        BY <1>0, <2>1
      <3> QED
        BY <1>0, <1>3, <2>1, <3>1, Shortened
    <2>3. ASSUME NEW k \in 1 .. Len(branch'), NEW a \in Ids, branch'[k].by = a
          PROVE  Adopted(k, a)'
      BY <2>2, <2>3, AdoptedStays
    <2> QED
      BY <2>3 DEF AdoptedInv
  <1> QED
    BY <1>1, <1>2, <1>3, BranchStep

\* The slot is filled only in a bound session.
LEMMA BoundStep ==
  ASSUME [Next]_vars
  PROVE  bound' = TRUE \/ slot' = 0 \/ (bound' = bound /\ slot' \in {0, slot})
  <1>1. ASSUME NEW i \in InputIds, Input(i) \/ QueueInput(i) \/ MessageEnd(i) \/ StoreInput(i)
        PROVE  UNCHANGED <<bound, slot>>
    BY <1>1 DEF Input, QueueInput, MessageEnd, StoreInput, control
  <1>2. ASSUME NEW a \in Ids, Start(a) \/ Reply(a) \/ Deadline(a)
        PROVE  bound' = TRUE \/ UNCHANGED <<bound, slot>>
    BY <1>2 DEF Start, Reply, Deadline, control
  <1>3. CASE Refresh \/ Command \/ ManualCompact \/ Navigate \/ Decline
    BY <1>3 DEF Refresh, Command, ManualCompact, Navigate, Decline, ApplyPreference, ApplyBoth
  <1>4. CASE ThresholdCompact
    BY <1>4 DEF ThresholdCompact, ApplyPreference, ApplyBoth
  <1>5. CASE \/ WakeSettled \/ WakeInterrupted \/ WakeExpired \/ DropStale \/ Adopt
             \/ NativeCommit \/ HostAborts \/ Escape \/ AgentAborted \/ ChangePreference \/ Drift
             \/ BranchGrows \/ CooldownEnds \/ UNCHANGED vars
    BY <1>5 DEF WakeSettled, WakeInterrupted, WakeExpired, DropStale, Adopt, NativeCommit,
                HostAborts, Escape, AgentAborted, ChangePreference, Drift, BranchGrows,
                CooldownEnds, vars, control
  <1>6. CASE Compact \/ Failed
    BY <1>6 DEF Compact, Failed
  <1>7. CASE SessionStart \/ Shutdown
    BY <1>7 DEF SessionStart, Shutdown, Reset
  <1> QED
    BY <1>1, <1>2, <1>3, <1>4, <1>5, <1>6, <1>7 DEF Next

\* The last event seen was of an entry that was written.
LEMMA CommittedStep ==
  ASSUME IInv, [Next]_vars
  PROVE  committed' < nextEntry'
  <1>0. /\ committed \in Nat /\ committed < nextEntry /\ nextEntry \in Nat \ {0}
        /\ branch \in Seq(Entry) /\ Numbered(branch, nextEntry)
    BY NextIsPositive DEF IInv, TypeOK, HistoryInv
  <1>1. nextEntry' \in {nextEntry, nextEntry + 1}
    BY BranchStep DEF AppendEntry
  <1>2. LastCompaction(branch) \in 0 .. nextEntry - 1
    <2>1. \A k \in 1 .. Len(branch) : branch[k].id \in 1 .. nextEntry - 1
      BY <1>0 DEF Numbered
    <2>2. \/ LastCompaction(branch) = 0
          \/ \E k \in 1 .. Len(branch) : LastCompaction(branch) = branch[k].id
      BY <1>0, LastCompactionIs
    <2> QED
      BY <1>0, <2>1, <2>2
  <1>3. committed' \in {committed, 0, LastCompaction(branch)}
    <2>1. ASSUME NEW i \in InputIds, Input(i) \/ QueueInput(i) \/ MessageEnd(i) \/ StoreInput(i)
          PROVE  committed' = committed
      BY <2>1 DEF Input, QueueInput, MessageEnd, StoreInput, control
    <2>2. ASSUME NEW a \in Ids, Start(a) \/ Reply(a) \/ Deadline(a)
          PROVE  committed' = committed
      BY <2>2 DEF Start, Reply, Deadline, control
    <2>3. CASE \/ Refresh \/ ManualCompact \/ ThresholdCompact \/ WakeSettled \/ WakeInterrupted
               \/ WakeExpired \/ DropStale \/ Decline \/ Adopt \/ NativeCommit \/ HostAborts
               \/ Failed \/ Escape \/ AgentAborted \/ Command \/ ChangePreference \/ Drift
               \/ BranchGrows \/ CooldownEnds \/ UNCHANGED vars
      BY <2>3 DEF Refresh, ManualCompact, ThresholdCompact, WakeSettled, WakeInterrupted,
                  WakeExpired, DropStale, Decline, Adopt, NativeCommit, HostAborts, Failed,
                  Escape, AgentAborted, Command, ChangePreference, Drift, BranchGrows,
                  CooldownEnds, vars, control
    <2>4. CASE Compact
      BY <2>4 DEF Compact
    <2>5. CASE Navigate \/ SessionStart \/ Shutdown
      BY <2>5 DEF Navigate, SessionStart, Shutdown, Reset, Zeroed
    <2> QED
      BY <2>1, <2>2, <2>3, <2>4, <2>5 DEF Next
  <1> QED
    BY <1>0, <1>1, <1>2, <1>3

\* Every step keeps the invariant.
LEMMA StepInv ==
  ASSUME IInv, [Next]_vars
  PROVE  IInv'
  <1>1. Table(attempts') /\ SlotUsed(attempts', slot')
    BY TableStep
  <1>2. HistoryInv(branch', nextEntry', attempts')
    BY HistoryStep
  <1>3. FenceInv(host', fence', inputs') /\ HostInv(host', offerOf', slot')
    BY FenceStep, HostStep
  <1>4. TypeOK'
    <2>1. branch' \in Seq(Entry) /\ nextEntry' \in Nat
      BY <1>2 DEF HistoryInv
    <2>2. attempts' \in [Ids -> Attempt] /\ slot' \in 0 .. MaxAttempts
      BY <1>1 DEF Table, SlotUsed
    <2> QED
      BY <2>1, <2>2, ControlTypes, InputTypes DEF TypeOK
  <1>5. slot' # 0 => bound'
    BY BoundStep DEF IInv
  <1> QED
    BY <1>1, <1>2, <1>3, <1>4, <1>5, LiveStep, AdoptedStep, CommittedStep
       DEF IInv, Table, SlotUsed, HistoryInv, FenceInv, HostInv

\* It holds at the start.
LEMMA InitInv ==
  ASSUME Init
  PROVE  IInv
  <1>1. /\ History \in Nat \ {0} /\ MaxAttempts \in Nat \ {0} /\ MaxInputs \in Nat
        /\ 0 \in 0 .. MaxAttempts /\ <<>> \in Seq(Entry) /\ Len(<<>>) = 0
    BY AsyncAssumption
  <1>2. Unused \in Attempt /\ SoundAttempt(Unused) /\ Unused.source = <<>>
    BY <1>1 DEF Unused, Attempt, Reasons, Outcomes, SoundAttempt, Earned
  <1>3. Table(attempts) /\ SlotUsed(attempts, slot)
    BY <1>1, <1>2 DEF Init, Table, SlotUsed
  <1>4. branch \in Seq(Entry) /\ Len(branch) = History /\ Numbered(branch, nextEntry)
    <2>1. branch = [k \in 1 .. History |-> Message(k)] /\ nextEntry = History + 1
      BY DEF Init
    <2>2. \A k \in 1 .. History : Message(k) \in Entry /\ Message(k).id = k
      BY <1>1 DEF Message, Entry
    <2>3. branch \in Seq(Entry) /\ Len(branch) = History
      BY <1>1, <2>1, <2>2
    <2>4. \A k \in 1 .. History : branch[k].id = k
      BY <2>1, <2>2
    <2> QED
      BY <1>1, <2>1, <2>3, <2>4 DEF Numbered
  <1>5. HistoryInv(branch, nextEntry, attempts)
    <2>1. nextEntry \in Nat /\ Len(branch) >= 1
      BY <1>1, <1>4 DEF Init
    <2>2. \A a \in Ids : attempts[a].source = <<>>
      BY <1>2 DEF Init
    <2>3. Numbered(<<>>, nextEntry) /\ Shared(<<>>, branch)
      BY <1>1 DEF Numbered, Shared
    <2> QED
      BY <1>4, <2>1, <2>2, <2>3 DEF HistoryInv
  <1>6. FenceInv(host, fence, inputs)
    <2>1. fence = NoFence /\ \A i \in InputIds : inputs[i] \in {"none", "stored"}
      BY DEF Init
    <2> QED
      BY <2>1, FenceDown
  <1>7. HostInv(host, offerOf, slot)
    BY DEF Init, HostInv
  <1>8. TypeOK
    <2>1. attempts \in [Ids -> Attempt] /\ nextEntry \in Nat
      BY <1>1, <1>3 DEF Init, Table
    <2>2. fence \in [preflight : BOOLEAN, pending : 0..MaxInputs, seen : SUBSET InputIds]
      BY <1>1 DEF Init, NoFence
    <2>3. inputs \in [InputIds -> {"none", "accepted", "queued", "seen", "stored"}]
      BY DEF Init
    <2>4. /\ disk \in BOOLEAN /\ enabled \in BOOLEAN /\ bound \in BOOLEAN
          /\ cooling \in BOOLEAN /\ failedAt \in BOOLEAN /\ aborted \in BOOLEAN
      BY DEF Init
    <2>5. /\ prepared \in Seq(Entry) /\ slot \in 0..MaxAttempts /\ offerOf \in 0..MaxAttempts
          /\ starts \in 0..2 /\ committed \in Nat
      BY <1>1 DEF Init
    <2>6. host \in HostPcs
      BY DEF Init, HostPcs
    <2> QED
      BY <1>4, <2>1, <2>2, <2>3, <2>4, <2>5, <2>6 DEF TypeOK
  <1>9. LiveInv
    BY <1>2 DEF LiveInv, Init, Unused
  <1>10. AdoptedInv
    <2>1. branch = [k \in 1 .. History |-> Message(k)] /\ Len(branch) = History
      BY <1>4 DEF Init
    <2>2. \A k \in 1 .. Len(branch) : branch[k].by = 0
      BY <2>1 DEF Message
    <2>3. 0 \notin Ids
      BY <1>1 DEF Ids
    <2> QED
      BY <2>2, <2>3 DEF AdoptedInv
  <1>11. (slot # 0 => bound) /\ committed < nextEntry
    BY <1>1 DEF Init
  <1> QED
    BY <1>3, <1>5, <1>6, <1>7, <1>8, <1>9, <1>10, <1>11 DEF IInv

\* Every reachable state satisfies the inductive invariant.
THEOREM CompactionInvariance == Spec => []IInv
  <1>1. IInv /\ [Next]_vars => IInv'
    BY StepInv
  <1> QED
    BY <1>1, InitInv, PTL DEF Spec

\* Every reachable state is well typed.
THEOREM TypeCorrect == Spec => []TypeOK
  <1>1. IInv => TypeOK
    BY DEF IInv
  <1> QED
    BY <1>1, CompactionInvariance, PTL

\* A step that commits a compaction made by an attempt is an adoption.
LEMMA AdoptionIs ==
  ASSUME IInv, [Next]_vars, NEW a \in Ids, Len(branch') > Len(branch), Last(branch').by = a
  PROVE  Adopt /\ a = offerOf
  <1>0. branch \in Seq(Entry) /\ a # 0
    BY AsyncAssumption DEF IInv, TypeOK, Ids
  <1>1. CASE UNCHANGED <<branch, nextEntry>>
    BY <1>0, <1>1
  <1>2. ASSUME NEW kind \in {"message", "edit", "compaction"}, NEW by \in {0, offerOf},
               AppendEntry(kind, by), by # 0 => Adopt
        PROVE  Adopt /\ a = offerOf
    <2> DEFINE e == [id |-> nextEntry, kind |-> kind, by |-> by]
    <2>1. branch' = Append(branch, e) /\ e.by = by
      BY <1>2 DEF AppendEntry
    <2> HIDE DEF e
    <2>2. Last(branch') = e
      BY <1>0, <2>1 DEF Last
    <2> QED
      BY <1>0, <1>2, <2>1, <2>2
  <1>3. ASSUME NEW k \in 1 .. Len(branch) - 1, branch' = SubSeq(branch, 1, k)
        PROVE  FALSE
    <2>1. Len(branch') = k /\ Len(branch) \in Nat
      BY <1>0, <1>3
    <2> QED
      BY <2>1
  <1> QED
    BY <1>1, <1>2, <1>3, BranchStep

\* An adopted summary stands for the history it was made from (canAdopt, valid), though
\* the branch, the inputs, the preference and the surroundings all change while it waits.
THEOREM AdoptsOwnHistory == Spec => AdoptsOnlyUnchanged
  <1>1. ASSUME IInv, [Next]_vars, NEW a \in Ids, Len(branch') > Len(branch), Last(branch').by = a
        PROVE  /\ \A e \in Range(branch) : e.kind # "message" => e \in Range(attempts[a].source)
               /\ attempts[a].cut \in IdsOf(branch)
               /\ \A i \in InputIds : inputs[i] \in {"none", "stored"}
               /\ disk /\ ~attempts[a].cancelled /\ attempts[a].fitting
    <2>1. Adopt /\ a = offerOf
      BY <1>1, AdoptionIs
    <2>2. host = "offered" /\ ~ InputStillPending /\ disk /\ CanAdopt(a)
      BY <2>1 DEF Adopt
    <2>3. ~ attempts[a].cancelled /\ Valid(a)
      BY <2>2 DEF CanAdopt
    <2>4. \A i \in InputIds : inputs[i] \in {"none", "stored"}
      BY <1>1, <2>2, NonePending DEF IInv
    <2>5. ASSUME NEW e \in Range(branch), e.kind # "message"
          PROVE  e \in Range(attempts[a].source)
      <3>1. PICK j \in 1 .. Len(branch) : e = branch[j]
        BY <1>1, <2>5 DEF Range, IInv, TypeOK
      <3>2. e.kind \in {"message", "edit", "compaction"}
        <4>1. branch \in Seq(Entry) /\ j \in DOMAIN branch
          BY <1>1, <3>1 DEF IInv, TypeOK
        <4>2. branch[j] \in Entry
          BY <4>1
        <4> QED
          BY <3>1, <4>2 DEF Entry
      <3>3. CASE e.kind = "edit"
        BY <2>3, <3>3 DEF Valid
      <3>4. CASE e.kind = "compaction"
        <4>1. /\ nextEntry \in Nat /\ branch \in Seq(Entry) /\ Numbered(branch, nextEntry)
              /\ Numbered(attempts[a].source, nextEntry) /\ Shared(attempts[a].source, branch)
          BY <1>1 DEF IInv, HistoryInv
        <4>2. attempts[a].source \in Seq(Entry)
          <5>1. attempts[a] \in Attempt
            BY <1>1 DEF IInv, TypeOK
          <5> QED
            BY <5>1 DEF Attempt
        <4>3. LastCompaction(branch) = LastCompaction(attempts[a].source)
          BY <2>3 DEF Valid
        <4> QED
          BY <3>1, <3>4, <4>1, <4>2, <4>3, SameCompactions
      <3> QED
        BY <2>5, <3>2, <3>3, <3>4
    <2> QED
      BY <2>2, <2>3, <2>4, <2>5 DEF Valid
  <1>2. IInv /\ [Next]_vars =>
          [\A a \in Ids :
             (Len(branch') > Len(branch) /\ Last(branch').by = a) =>
               /\ \A e \in Range(branch) : e.kind # "message" => e \in Range(attempts[a].source)
               /\ attempts[a].cut \in IdsOf(branch)
               /\ \A i \in InputIds : inputs[i] \in {"none", "stored"}
               /\ disk /\ ~attempts[a].cancelled /\ attempts[a].fitting]_vars
    BY <1>1
  <1> QED
    BY <1>2, CompactionInvariance, PTL DEF Spec, AdoptsOnlyUnchanged

\* An outcome once recorded stands, adoption is recorded only for an own compaction, and
\* an attempt whose summary is in the branch is never booked as discarded or failed
\* (record, handleCompact).
THEOREM OutcomesStand == Spec => OutcomeIsHonest
  <1>1. ASSUME IInv, [Next]_vars, NEW a \in Ids, attempts'[a].recorded # attempts[a].recorded
        PROVE  /\ attempts[a].recorded = "none"
               /\ attempts'[a].recorded = "adopted" =>
                    \E e \in Range(branch) : e.id = LastCompaction(branch) /\ e.by = a
               /\ attempts'[a].recorded \in {"discarded", "failed"} =>
                    \A e \in Range(branch) : e.by # a
    <2>1. /\ attempts[a].recorded = "none"
          /\ attempts'[a].recorded = "adopted" => OwnsCommit(a)
          /\ attempts'[a].recorded \in {"discarded", "failed"} => MayBeLost(a)
      BY <1>1, TableStep DEF OnceRecorded
    <2>2. ASSUME OwnsCommit(a)
          PROVE  \E e \in Range(branch) : e.id = LastCompaction(branch) /\ e.by = a
      BY <2>2 DEF OwnsCommit, Range
    <2>3. ASSUME MayBeLost(a), NEW e \in Range(branch)
          PROVE  e.by # a
      <3>1. PICK k \in 1 .. Len(branch) : e = branch[k]
        BY <1>1, <2>3 DEF Range, IInv, TypeOK
      <3>2. a # 0 /\ ~ Awaited(a)
        BY <2>3, AsyncAssumption DEF Ids, MayBeLost, Awaited, Answered
      <3>3. branch[k].by = a => Adopted(k, a)
        BY <1>1, <3>2 DEF IInv, AdoptedInv
      <3> QED
        BY <2>1, <3>1, <3>2, <3>3 DEF Adopted
    <2> QED
      BY <2>1, <2>2, <2>3
  <1>2. IInv /\ [Next]_vars =>
          [\A a \in Ids : attempts'[a].recorded # attempts[a].recorded =>
             /\ attempts[a].recorded = "none"
             /\ attempts'[a].recorded = "adopted" =>
                  \E e \in Range(branch) : e.id = LastCompaction(branch) /\ e.by = a
             /\ attempts'[a].recorded \in {"discarded", "failed"} =>
                  \A e \in Range(branch) : e.by # a]_vars
    BY <1>1
  <1> QED
    BY <1>2, CompactionInvariance, PTL DEF Spec, OutcomeIsHonest

\* A stop while the host waits for the candidate stops its compaction too
\* (beforeCompact).
THEOREM StopStops == Spec => CancelIsNotFallback
  <1>1. ASSUME IInv, [Next]_vars, host = "waiting", host' = "native"
        PROVE  ~ aborted /\ attempts'[offerOf].reason # "stop"
    <2>0. /\ Table(attempts) /\ SlotUsed(attempts, slot) /\ slot = offerOf /\ offerOf \in Ids
          /\ aborted \in BOOLEAN
      BY <1>1 DEF IInv, HostInv, TypeOK
    <2>1. WakeSettled \/ WakeInterrupted \/ WakeExpired
      <3>1. ASSUME NEW i \in InputIds,
                   Input(i) \/ QueueInput(i) \/ MessageEnd(i) \/ StoreInput(i)
            PROVE  host' = host
        BY <3>1 DEF Input, QueueInput, MessageEnd, StoreInput
      <3>2. ASSUME NEW a \in Ids, Start(a) \/ Reply(a) \/ Deadline(a)
            PROVE  host' = host
        BY <3>2 DEF Start, Reply, Deadline
      <3>3. CASE \/ Refresh \/ Escape \/ AgentAborted \/ Command \/ ChangePreference \/ Drift
                 \/ BranchGrows \/ CooldownEnds \/ Navigate \/ SessionStart \/ UNCHANGED vars
        BY <1>1, <3>3 DEF Refresh, Escape, AgentAborted, Command, ChangePreference, Drift,
                          BranchGrows, CooldownEnds, Navigate, SessionStart, vars
      <3>4. ~ (\/ ManualCompact \/ ThresholdCompact \/ DropStale \/ Decline \/ Adopt
               \/ NativeCommit \/ Compact \/ Failed)
        BY <1>1 DEF ManualCompact, ThresholdCompact, DropStale, Decline, Adopt, NativeCommit,
                    Compact, Failed
      <3>5. ~ HostAborts /\ ~ Shutdown
        BY <1>1 DEF HostAborts, Shutdown, HostDone
      <3> QED
        BY <1>1, <3>1, <3>2, <3>3, <3>4, <3>5 DEF Next
    <2>2. CASE WakeSettled
      <3>1. ~ aborted /\ ~ attempts[offerOf].cancelled
        BY <2>2 DEF WakeSettled
      <3>2. \/ attempts' = [attempts EXCEPT ![offerOf].offered = TRUE,
                                            ![offerOf].boundary = Leaf(branch)]
            \/ UNCHANGED attempts
        BY <2>2 DEF WakeSettled
      <3>3. attempts'[offerOf].reason = attempts[offerOf].reason
        BY <2>0, <3>2 DEF Table, Attempt
      <3>4. attempts[offerOf].reason # "stop"
        BY <2>0, <3>1 DEF Table, SoundAttempt
      <3> QED
        BY <3>1, <3>3, <3>4
    <2>3. CASE WakeInterrupted
      BY <1>1, <2>0, <2>3, WakeInterruptedKeeps
    <2>4. CASE WakeExpired
      BY <1>1, <2>0, <2>4, WakeExpiredKeeps
    <2> QED
      BY <2>1, <2>2, <2>3, <2>4
  <1>2. IInv /\ [Next]_vars =>
          [host = "waiting" /\ host' = "native" =>
             ~aborted /\ attempts'[offerOf].reason # "stop"]_vars
    BY <1>1
  <1> QED
    BY <1>2, CompactionInvariance, PTL DEF Spec, CancelIsNotFallback

-----------------------------------------------------------------------------
(* The usage display. A context is not the lack of one.                    *)
Apart == None \notin Context

(* The fields of the controller.                                           *)
Fields ==
  {"context", "eligible", "scope", "lease", "snapshot", "failure", "rested", "login",
   "fetch", "scopePending", "scopeNow", "fetchPending", "fetchNow", "display"}

Formed(c) ==
  /\ DOMAIN c = Fields
  /\ c.login # None => "current" \in DOMAIN c.login
  /\ c.fetch # None => "current" \in DOMAIN c.fetch

(* A request counts only while the display is meant for the model chosen:  *)
(* whatever ends that also ends the generation.                            *)
Request(c, r) == r # None => "current" \in DOMAIN r /\ (r.current => c.eligible)

(* What holds of the controller between any two of its methods.            *)
Sound(c) ==
  /\ DOMAIN c = Fields
  /\ Request(c, c.login) /\ Request(c, c.fetch)
  /\ c.scope # None => c.lease # "none"
  /\ c.snapshot # None => c.snapshot = c.scope /\ c.lease # "none"

Shows(c) ==
  c.display.kind \in {"fresh", "stale"} =>
    c.display.of = c.scope /\ c.lease # "none" /\ Usage!Meant(c)

UsageInv == Sound(ctl) /\ Shows(ctl)

(* The part of the controller the display depends on is the same.          *)
Same(c, e) ==
  /\ e.context = c.context /\ e.eligible = c.eligible /\ e.scope = c.scope
  /\ e.lease = c.lease /\ e.snapshot = c.snapshot /\ e.display = c.display

-----------------------------------------------------------------------------
(* Methods that only send requests or remember that they should.           *)
LEMMA FetchUsageSends ==
  ASSUME NEW c, Sound(c), NEW auth
  PROVE  Sound(Usage!FetchUsage(c, auth)) /\ Same(c, Usage!FetchUsage(c, auth))
  BY SMT DEF Usage!FetchUsage, Sound, Same, Request, Fields, Usage!Own, Usage!Meant

LEMMA RequestUsageSends ==
  ASSUME NEW c, Sound(c), NEW auth, NEW now
  PROVE  Sound(Usage!RequestUsage(c, auth, now)) /\ Same(c, Usage!RequestUsage(c, auth, now))
  <1> DEFINE e == [c EXCEPT !.fetchPending = FALSE, !.fetchNow = FALSE]
  <1>1. Sound(e) /\ Same(c, e)  BY SMT DEF Sound, Same, Request, Fields
  <1>2. Sound(Usage!FetchUsage(e, auth)) /\ Same(e, Usage!FetchUsage(e, auth))
    <2> HIDE DEF e
    <2> QED  BY <1>1, FetchUsageSends
  <1>3. CASE c.fetch # None
    BY <1>3, SMT DEF Usage!RequestUsage, Sound, Same, Request, Fields
  <1>4. CASE c.fetch = None /\ ~now /\ ~c.rested
    BY <1>4 DEF Usage!RequestUsage, Same
  <1>5. CASE c.fetch = None /\ ~(~now /\ ~c.rested)
    <2>1. Usage!RequestUsage(c, auth, now) = Usage!FetchUsage(e, auth)  BY <1>5 DEF Usage!RequestUsage
    <2> QED  BY <1>1, <1>2, <2>1 DEF Same
  <1> QED  BY <1>3, <1>4, <1>5

LEMMA DrainUsageSends ==
  ASSUME NEW c, Sound(c)
  PROVE  Sound(Usage!DrainUsage(c)) /\ Same(c, Usage!DrainUsage(c))
  <1> DEFINE e == [c EXCEPT !.fetchPending = FALSE, !.fetchNow = FALSE]
  <1>1. Sound(e) /\ Same(c, e)  BY SMT DEF Sound, Same, Request, Fields
  <1>2. /\ Sound(Usage!RequestUsage(e, None, c.fetchNow))
        /\ Same(e, Usage!RequestUsage(e, None, c.fetchNow))
    <2> HIDE DEF e
    <2> QED  BY <1>1, RequestUsageSends
  <1>3. Usage!DrainUsage(c) = Usage!RequestUsage(e, None, c.fetchNow) \/ Usage!DrainUsage(c) = c
    BY DEF Usage!DrainUsage
  <1> QED  BY <1>1, <1>2, <1>3 DEF Same

LEMMA RequestScopeSends ==
  ASSUME NEW c, Sound(c), NEW now
  PROVE  Sound(Usage!RequestScope(c, now)) /\ Same(c, Usage!RequestScope(c, now))
  BY SMT DEF Usage!RequestScope, Sound, Same, Request, Fields, Usage!Own, Usage!Meant

LEMMA DrainScopeSends ==
  ASSUME NEW c, Sound(c)
  PROVE  Sound(Usage!DrainScope(c)) /\ Same(c, Usage!DrainScope(c))
  <1> DEFINE e == [c EXCEPT !.scopePending = FALSE, !.scopeNow = FALSE]
  <1>1. Sound(e) /\ Same(c, e)  BY SMT DEF Sound, Same, Request, Fields
  <1>2. Sound(Usage!RequestScope(e, c.scopeNow)) /\ Same(e, Usage!RequestScope(e, c.scopeNow))
    <2> HIDE DEF e
    <2> QED  BY <1>1, RequestScopeSends
  <1>3. Usage!DrainScope(c) = Usage!RequestScope(e, c.scopeNow) \/ Usage!DrainScope(c) = c
    BY DEF Usage!DrainScope
  <1> QED  BY <1>1, <1>2, <1>3 DEF Same

(* What is shown is a matter of that part only.                            *)
LEMMA SameShows ==
  ASSUME NEW c, NEW e, Same(c, e), Shows(c)
  PROVE  Shows(e)
  BY DEF Same, Shows, Usage!Own, Usage!Meant

(* A new generation holds and remembers nothing, and its requests are none *)
(* of those in flight.                                                     *)
LEMMA SoundFormed == \A c : Sound(c) => Formed(c)
  BY DEF Sound, Formed, Request

LEMMA Invalidated ==
  ASSUME NEW c, Formed(c)
  PROVE  LET e == Usage!Invalidate(c)
         IN  /\ Sound(e)
             /\ e.login # None => ~e.login.current
             /\ e.fetch # None => ~e.fetch.current
             /\ e.context = c.context /\ e.eligible = c.eligible /\ e.display = c.display
             /\ e.scope = None /\ e.snapshot = None
  BY SMT DEF Usage!Invalidate, Usage!Outdate, Sound, Formed, Request, Fields

LEMMA Unavailable ==
  ASSUME NEW c, Sound(c), c.context = None => Shows(c)
  PROVE  /\ Sound(Usage!RenderUnavailable(c)) /\ Shows(Usage!RenderUnavailable(c))
         /\ Usage!RenderUnavailable(c).context = c.context
         /\ Usage!RenderUnavailable(c).eligible = c.eligible
  BY SMT DEF Usage!RenderUnavailable, Usage!NoFigures, Sound, Shows, Request, Fields, Usage!Own, Usage!Meant

LEMMA GoneUnavailable ==
  ASSUME NEW c, Sound(c), c.context = None => Shows(c)
  PROVE  /\ Sound(Usage!RenderUnavailable(Usage!Invalidate(c)))
         /\ Shows(Usage!RenderUnavailable(Usage!Invalidate(c)))
  <1> DEFINE e == Usage!Invalidate(c)
  <1>1. Sound(e) /\ e.context = c.context /\ e.eligible = c.eligible /\ e.display = c.display
    BY Invalidated, SoundFormed
  <1>2. e.context = None => Shows(e)  BY <1>1 DEF Shows, Usage!Own, Usage!Meant
  <1> HIDE DEF e
  <1>3. Sound(Usage!RenderUnavailable(e)) /\ Shows(Usage!RenderUnavailable(e))  BY <1>1, <1>2, Unavailable
  <1> QED  BY <1>3 DEF e

(* The display is drawn only for a model it is meant for.                  *)
LEMMA Drawn ==
  ASSUME NEW c, Sound(c), c.context = None => Shows(c), c.context # None => c.eligible
  PROVE  Sound(Usage!Render(c)) /\ Shows(Usage!Render(c))
  <1>1. CASE c.context = None \/ c.snapshot = None \/ c.snapshot # c.scope
    BY <1>1, Unavailable DEF Usage!Render
  <1>2. CASE ~(c.context = None \/ c.snapshot = None \/ c.snapshot # c.scope)
    BY <1>2, SMT DEF Usage!Render, Usage!Figures, Sound, Shows, Request, Fields, Usage!Own, Usage!Meant
  <1> QED  BY <1>1, <1>2

LEMMA DrawnStale ==
  ASSUME NEW c, Sound(c), Shows(c), c.eligible
  PROVE  Sound(Usage!RenderUnavailableOrStale(c)) /\ Shows(Usage!RenderUnavailableOrStale(c))
  <1> DEFINE e == [c EXCEPT !.snapshot = None]
  <1>1. Sound(e) /\ e.context = c.context /\ (c.context = None => Shows(e))
    BY SMT DEF Sound, Shows, Request, Fields, Usage!Own, Usage!Meant
  <1>2. Sound(Usage!RenderUnavailable(e)) /\ Shows(Usage!RenderUnavailable(e))
    <2> HIDE DEF e
    <2> QED  BY <1>1, Unavailable
  <1>3. CASE c.snapshot = None \/ c.snapshot # c.scope
    BY <1>2, <1>3 DEF Usage!RenderUnavailableOrStale
  <1>4. CASE ~(c.snapshot = None \/ c.snapshot # c.scope)
    BY <1>4, SMT DEF Usage!RenderUnavailableOrStale, Usage!Figures, Sound, Shows, Request, Fields, Usage!Own, Usage!Meant
  <1> QED  BY <1>3, <1>4

LEMMA Disabled ==
  ASSUME NEW c, Formed(c)
  PROVE  Sound(Usage!Disable(c)) /\ Shows(Usage!Disable(c))
  <1> DEFINE e == Usage!Invalidate(c)
             f == [e EXCEPT !.failure = FALSE, !.display = Usage!Nothing]
  <1>1. Sound(e)  BY Invalidated
  <1>2. Sound(f) /\ f.display = Usage!Nothing
    <2> HIDE DEF e
    <2> QED  BY <1>1, SMT DEF Sound, Request, Fields
  <1>3. Sound(Usage!ForgetPending(f)) /\ Usage!ForgetPending(f).display = Usage!Nothing
    <2> HIDE DEF f
    <2> QED  BY <1>2, SMT DEF Usage!ForgetPending, Sound, Request, Fields
  <1> QED  BY <1>3 DEF Usage!Disable, Shows, Usage!Nothing

-----------------------------------------------------------------------------
(* A handler of the host's events leaves a controller that is sound.       *)
LEMMA HandledSound ==
  ASSUME Apart, Sound(ctl), Shows(ctl), NEW x \in Context, NEW fits \in BOOLEAN, NEW force \in BOOLEAN
  PROVE  Sound(Usage!Handled(x, fits, force)) /\ Shows(Usage!Handled(x, fits, force))
  <1> DEFINE forced  == IF force THEN [Usage!Invalidate(ctl) EXCEPT !.failure = FALSE] ELSE ctl
             adopted == [forced EXCEPT !.context = x, !.eligible = fits]
             leased  == IF adopted.lease = "lapsed"
                        THEN Usage!RenderUnavailable(Usage!Invalidate(adopted)) ELSE adopted
             shown   == Usage!Render(leased)
  <1>0. x # None  BY DEF Apart
  <1>1. Sound(forced)
    <2>1. Sound(Usage!Invalidate(ctl))  BY Invalidated, SoundFormed
    <2>2. Sound([Usage!Invalidate(ctl) EXCEPT !.failure = FALSE])
      <3> DEFINE e == Usage!Invalidate(ctl)
      <3> HIDE DEF e
      <3>1. Sound([e EXCEPT !.failure = FALSE])
        BY <2>1, SMT DEF e, Sound, Request, Fields
      <3> QED  BY <3>1 DEF e
    <2> QED  BY <2>2
  <1>2. Formed(adopted) /\ adopted.context = x /\ adopted.eligible = fits
    <2> HIDE DEF forced
    <2> QED  BY <1>1, SMT DEF Sound, Formed, Request, Fields
  <1>3. fits => Sound(adopted)
    <2> HIDE DEF forced
    <2> QED  BY <1>1, SMT DEF Sound, Request, Fields
  <1>4. /\ Formed(leased) /\ leased.context = x /\ leased.eligible = fits
        /\ Usage!Own(leased) => fits /\ Sound(leased)
    <2> DEFINE e == Usage!Invalidate(adopted)
    <2>1. Sound(e) /\ e.context = x /\ e.eligible = fits
      <3> HIDE DEF adopted
      <3> QED  BY <1>2, Invalidated
    <2>2. /\ Sound(Usage!RenderUnavailable(e)) /\ Usage!RenderUnavailable(e).context = x
          /\ Usage!RenderUnavailable(e).eligible = fits
      <3> HIDE DEF e
      <3> QED  BY <1>0, <2>1, Unavailable
    <2> HIDE DEF adopted
    <2> QED  BY <1>2, <1>3, <2>2, SoundFormed DEF Usage!Own, Usage!Meant
  <1> HIDE DEF leased
  <1>5. CASE ~Usage!Own(leased)
    <2>1. Usage!Handled(x, fits, force) = Usage!Disable(leased)  BY <1>5 DEF Usage!Handled, leased
    <2> QED  BY <1>4, <2>1, Disabled
  <1>6. CASE Usage!Own(leased) /\ ~Usage!HasLease(leased)
    <2> DEFINE e == Usage!RenderUnavailable(leased)
    <2>1. Sound(e) /\ Shows(e)  BY <1>0, <1>4, <1>6, Unavailable
    <2>2. Usage!Handled(x, fits, force) = Usage!RequestScope(e, TRUE)  BY <1>6 DEF Usage!Handled, leased
    <2> HIDE DEF e
    <2> QED  BY <2>1, <2>2, RequestScopeSends, SameShows
  <1>7. CASE Usage!Own(leased) /\ Usage!HasLease(leased)
    <2>1. Sound(shown) /\ Shows(shown)  BY <1>0, <1>4, <1>7, Drawn
    <2>2. Usage!Handled(x, fits, force) \in {shown, Usage!RequestUsage(shown, None, FALSE)}
      BY <1>7 DEF Usage!Handled, leased
    <2> HIDE DEF shown
    <2> QED  BY <2>1, <2>2, RequestUsageSends, SameShows
  <1> QED  BY <1>5, <1>6, <1>7

(* A confirmed account takes the lease, and figures of another are dropped.*)
LEMMA ConfirmedSound ==
  ASSUME NEW c, Sound(c), Usage!Own(c), NEW a, NEW now
  PROVE  Sound(Usage!Confirmed(c, a, now)) /\ Shows(Usage!Confirmed(c, a, now))
  <1> DEFINE kept  == IF c.scope # None /\ c.scope # a THEN [c EXCEPT !.snapshot = None] ELSE c
             held  == [kept EXCEPT !.scope = a, !.lease = "valid"]
             drawn == Usage!Render(held)
  <1>1. /\ Sound(kept) /\ kept.context = c.context /\ kept.eligible = c.eligible
        /\ kept.snapshot # None => kept.snapshot = a
    BY SMT DEF Sound, Request, Fields
  <1>2. Sound(held) /\ held.context = c.context /\ held.eligible = c.eligible
    <2> HIDE DEF kept
    <2> QED  BY <1>1, SMT DEF Sound, Request, Fields
  <1>3. Sound(drawn) /\ Shows(drawn)
    <2> HIDE DEF held
    <2> QED  BY <1>2, Drawn DEF Usage!Own, Usage!Meant
  <1>4. Usage!Confirmed(c, a, now) \in {drawn, Usage!RequestUsage(drawn, a, now)}
    BY DEF Usage!Confirmed
  <1> HIDE DEF drawn
  <1> QED  BY <1>3, <1>4, RequestUsageSends, SameShows

LEMMA ScopeAnswerSound ==
  ASSUME UsageInv, NEW a, Usage!ScopeAnswer(a)
  PROVE  UsageInv'
  <1> DEFINE c == Usage!ScopeAnswered(ctl, ctl.login, a)
             e == [c EXCEPT !.login = None]
             f == Usage!DrainScope(e)
  <1>1. Sound(c) /\ Shows(c)
    <2>1. ctl.login.current => ctl.eligible  BY DEF UsageInv, Sound, Request, Usage!ScopeAnswer
    <2>2. CASE c = Usage!RenderUnavailableOrStale(ctl) /\ ctl.login.current
      BY <2>1, <2>2, DrawnStale DEF UsageInv
    <2>3. CASE c = Usage!RenderUnavailable(Usage!Invalidate(ctl))
      BY <2>3, GoneUnavailable DEF UsageInv
    <2>4. CASE c = Usage!Confirmed(ctl, a, ctl.login.now) /\ Usage!Own(ctl)
      BY <2>4, ConfirmedSound DEF UsageInv
    <2>5. CASE c = ctl  BY <2>5 DEF UsageInv
    <2> QED  BY <2>2, <2>3, <2>4, <2>5 DEF Usage!ScopeAnswered
  <1>2. Sound(e) /\ Shows(e)
    <2> HIDE DEF c
    <2> QED  BY <1>1, SMT DEF Sound, Shows, Usage!Own, Usage!Meant, Request, Fields
  <1>3. Sound(f) /\ Shows(f)
    <2> HIDE DEF e
    <2> QED  BY <1>2, DrainScopeSends, SameShows
  <1>4. ctl' = Usage!DrainUsage(f)  BY DEF Usage!ScopeAnswer
  <1>5. Sound(ctl') /\ Shows(ctl')
    <2> HIDE DEF f
    <2> QED  BY <1>3, <1>4, DrainUsageSends, SameShows
  <1> QED  BY <1>5 DEF UsageInv, Sound, Shows, Usage!Own, Usage!Meant, Request

LEMMA FetchEndsSound ==
  ASSUME NEW c, Sound(c), Shows(c)
  PROVE  Sound(Usage!FetchEnds(c)) /\ Shows(Usage!FetchEnds(c))
  <1> DEFINE e == [c EXCEPT !.fetch = None]
  <1>1. Sound(e) /\ Shows(e)  BY SMT DEF Sound, Shows, Usage!Own, Usage!Meant, Request, Fields
  <1>2. Usage!FetchEnds(c) = Usage!DrainUsage(e)  BY DEF Usage!FetchEnds
  <1> HIDE DEF e
  <1> QED  BY <1>1, <1>2, DrainUsageSends, SameShows

LEMMA UsageLoginSound ==
  ASSUME UsageInv, NEW a, Usage!UsageLogin(a)
  PROVE  UsageInv'
  <1> DEFINE failed == [ctl EXCEPT !.failure = TRUE]
  <1>0. Sound(ctl) /\ Shows(ctl)  BY DEF UsageInv
  <1>1. ctl.fetch.current => ctl.eligible  BY DEF UsageInv, Sound, Request, Usage!UsageLogin
  <1>2. Sound(failed) /\ Shows(failed) /\ failed.eligible = ctl.eligible
    BY <1>0, SMT DEF Sound, Shows, Usage!Own, Usage!Meant, Request, Fields
  <1>3. CASE ctl' = Usage!FetchEnds(Usage!RenderUnavailableOrStale(failed)) /\ ctl.fetch.current
    <2> DEFINE e == Usage!RenderUnavailableOrStale(failed)
    <2>1. Sound(e) /\ Shows(e)
      <3> HIDE DEF failed
      <3> QED  BY <1>1, <1>2, <1>3, DrawnStale
    <2> HIDE DEF e
    <2>2. Sound(ctl') /\ Shows(ctl')  BY <1>3, <2>1, FetchEndsSound DEF e
    <2> QED  BY <2>2 DEF UsageInv, Sound, Shows, Usage!Own, Usage!Meant, Request
  <1>4. CASE ctl' = Usage!FetchEnds(Usage!RenderUnavailable(Usage!Invalidate(ctl)))
    <2>1. Sound(ctl') /\ Shows(ctl')  BY <1>0, <1>4, GoneUnavailable, FetchEndsSound
    <2> QED  BY <2>1 DEF UsageInv, Sound, Shows, Usage!Own, Usage!Meant, Request
  <1>5. CASE ctl' = Usage!FetchEnds(ctl)
    <2>1. Sound(ctl') /\ Shows(ctl')  BY <1>0, <1>5, FetchEndsSound
    <2> QED  BY <2>1 DEF UsageInv, Sound, Shows, Usage!Own, Usage!Meant, Request
  <1>6. CASE ctl' = [ctl EXCEPT !.fetch.phase = "figures", !.fetch.of = a]
    <2> DEFINE q == ctl.fetch
               s == [q EXCEPT !.phase = "figures"]
               t == [s EXCEPT !.of = a]
    <2>1. q # None /\ "current" \in DOMAIN q  BY DEF UsageInv, Sound, Request, Usage!UsageLogin
    <2>2. "current" \in DOMAIN t /\ t.current = q.current
      <3> HIDE DEF q
      <3> QED  BY <2>1, SMT
    <2>3. ctl' = [ctl EXCEPT !.fetch = t]
      BY <1>0, <1>6 DEF Sound, Fields
    <2> HIDE DEF t
    <2>4. /\ DOMAIN ctl' = Fields /\ ctl'.fetch = t /\ ctl'.login = ctl.login
          /\ Same(ctl, ctl')
      BY <1>0, <2>3, SMT DEF Sound, Fields, Same
    <2> QED  BY <1>0, <1>1, <2>2, <2>4 DEF UsageInv, Sound, Shows, Usage!Own, Usage!Meant, Request, Same
  <1> QED  BY <1>3, <1>4, <1>5, <1>6 DEF Usage!UsageLogin

LEMMA UsageAnswerSound ==
  ASSUME UsageInv, NEW ok \in BOOLEAN, Usage!UsageAnswer(ok)
  PROVE  UsageInv'
  <1> DEFINE r == ctl.fetch
             c == Usage!Fetched(ctl, r, ok)
             failed == [ctl EXCEPT !.failure = TRUE]
             held == [ctl EXCEPT !.snapshot = r.of, !.failure = FALSE]
  <1>0. Sound(ctl) /\ Shows(ctl)  BY DEF UsageInv
  <1>1. r.current => ctl.eligible  BY DEF UsageInv, Sound, Request, Usage!UsageAnswer
  <1>2. CASE c = ctl
    <2>1. Sound(c) /\ Shows(c)  BY <1>0, <1>2
    <2> HIDE DEF c
    <2>2. Sound(ctl') /\ Shows(ctl')  BY <2>1, FetchEndsSound DEF Usage!UsageAnswer, c
    <2> QED  BY <2>2 DEF UsageInv, Sound, Shows, Usage!Own, Usage!Meant, Request
  <1>3. CASE Usage!Fits(ctl, r) /\ ~ok
    <2>1. Sound(failed) /\ Shows(failed) /\ failed.eligible
      BY <1>0, <1>1, <1>3, SMT DEF Sound, Shows, Usage!Own, Usage!Meant, Request, Fields, Usage!Fits
    <2>2. c = Usage!RenderUnavailableOrStale(failed)  BY <1>3 DEF Usage!Fetched
    <2>3. Sound(c) /\ Shows(c)
      <3> HIDE DEF failed, c
      <3> QED  BY <2>1, <2>2, DrawnStale
    <2> HIDE DEF c
    <2>4. Sound(ctl') /\ Shows(ctl')  BY <2>3, FetchEndsSound DEF Usage!UsageAnswer, c
    <2> QED  BY <2>4 DEF UsageInv, Sound, Shows, Usage!Own, Usage!Meant, Request
  <1>4. CASE Usage!Fits(ctl, r) /\ ok
    <2>1. Sound(held) /\ Shows(held) /\ held.eligible
      BY <1>0, <1>1, <1>4, SMT DEF Sound, Shows, Usage!Own, Usage!Meant, Request, Fields, Usage!Fits
    <2>2. c = Usage!Render(held)  BY <1>4 DEF Usage!Fetched
    <2>3. Sound(c) /\ Shows(c)
      <3> HIDE DEF held, c
      <3> QED  BY <2>1, <2>2, Drawn
    <2> HIDE DEF c
    <2>4. Sound(ctl') /\ Shows(ctl')  BY <2>3, FetchEndsSound DEF Usage!UsageAnswer, c
    <2> QED  BY <2>4 DEF UsageInv, Sound, Shows, Usage!Own, Usage!Meant, Request
  <1> QED  BY <1>2, <1>3, <1>4 DEF Usage!Fetched

LEMMA ShutdownSound ==
  ASSUME UsageInv, Usage!Shutdown
  PROVE  UsageInv'
  <1> DEFINE e == [ctl EXCEPT !.display = Usage!Nothing, !.context = None, !.eligible = FALSE]
             f == Usage!ForgetPending(e)
  <1>1. Formed(e) /\ e.display = Usage!Nothing
    BY SMT DEF UsageInv, Sound, Formed, Request, Fields
  <1>2. Formed(f) /\ f.display = Usage!Nothing
    <2> HIDE DEF e
    <2> QED  BY <1>1, SMT DEF Usage!ForgetPending, Formed, Fields
  <1>3. Sound(Usage!Invalidate(f)) /\ Usage!Invalidate(f).display = Usage!Nothing
    <2> HIDE DEF f
    <2> QED  BY <1>2, Invalidated
  <1>4. Sound(ctl') /\ ctl'.display = Usage!Nothing  BY <1>3 DEF Usage!Shutdown
  <1> QED  BY <1>4 DEF UsageInv, Sound, Shows, Usage!Own, Usage!Meant, Request, Usage!Nothing

LEMMA NextUsageInv ==
  ASSUME Apart, UsageInv, [Usage!Next]_(Usage!vars)
  PROVE  UsageInv'
  <1>0. Sound(ctl) /\ Shows(ctl)  BY DEF UsageInv
  <1>1. ASSUME Sound(ctl'), Shows(ctl')  PROVE UsageInv'
    BY <1>1 DEF UsageInv, Sound, Shows, Usage!Own, Usage!Meant, Request
  <1>2. ASSUME NEW x \in Context, NEW fits \in BOOLEAN, Usage!Handle(x, fits) \/ Usage!SelectModel(x, fits)
        PROVE  UsageInv'
    BY <1>0, <1>1, <1>2, HandledSound DEF Usage!Handle, Usage!SelectModel
  <1>3. CASE Usage!UpdateFastDisplay
    <2>1. CASE Usage!Own(ctl)
      BY <1>0, <1>1, <1>3, <2>1, Drawn DEF Usage!UpdateFastDisplay, Usage!Own, Usage!Meant
    <2>2. CASE ctl' = [ctl EXCEPT !.display = Usage!Nothing]
      <3>1. Sound(ctl') /\ ctl'.display = Usage!Nothing
        BY <1>0, <2>2, SMT DEF Sound, Request, Fields
      <3> QED  BY <1>1, <3>1 DEF Shows, Usage!Nothing
    <2> QED  BY <1>3, <2>1, <2>2 DEF Usage!UpdateFastDisplay
  <1>4. CASE Usage!LeaseLapses
    <2>1. Sound(ctl') /\ Shows(ctl')
      BY <1>0, <1>4, SMT DEF Usage!LeaseLapses, Sound, Shows, Usage!Own, Usage!Meant, Request, Fields
    <2> QED  BY <1>1, <2>1
  <1>5. CASE Usage!LeaseTimer
    <2> DEFINE e == Usage!RenderUnavailable(Usage!Invalidate(ctl))
    <2>1. Sound(e) /\ Shows(e)  BY <1>0, GoneUnavailable
    <2> HIDE DEF e
    <2>2. ctl' = Usage!RequestScope(e, TRUE)  BY <1>5 DEF Usage!LeaseTimer, e
    <2> QED  BY <1>1, <2>1, <2>2, RequestScopeSends, SameShows
  <1>6. CASE Usage!Rest
    <2>1. Sound(ctl') /\ Shows(ctl')
      BY <1>0, <1>6, SMT DEF Usage!Rest, Sound, Shows, Usage!Own, Usage!Meant, Request, Fields
    <2> QED  BY <1>1, <2>1
  <1>7. CASE UNCHANGED ctl  BY <1>0, <1>1, <1>7
  <1> QED
    BY <1>2, <1>3, <1>4, <1>5, <1>6, <1>7, ScopeAnswerSound, UsageLoginSound, UsageAnswerSound,
       ShutdownSound DEF Usage!Next, Usage!Login, Usage!vars

(* Every reachable state of the display satisfies its invariant.           *)
THEOREM UsageInvariance == ASSUME Apart PROVE Usage!Spec => []UsageInv
  <1>1. Usage!Init => UsageInv
    BY SMT DEF Usage!Init, Usage!InitController, Usage!Nothing, UsageInv, Sound, Shows, Request, Fields
  <1>2. UsageInv /\ [Usage!Next]_(Usage!vars) => UsageInv'  BY NextUsageInv
  <1> QED  BY <1>1, <1>2, PTL DEF Usage!Spec

(* Figures are held and shown only of the account confirmed last.          *)
THEOREM OnlyOwnFigures == ASSUME Apart PROVE Usage!Spec => []OwnFigures
  <1>1. UsageInv => OwnFigures  BY DEF UsageInv, Sound, Shows, OwnFigures, Meant, Usage!Meant
  <1> QED  BY <1>1, UsageInvariance, PTL

=============================================================================
