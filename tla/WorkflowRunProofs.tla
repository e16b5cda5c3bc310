------------------------- MODULE WorkflowRunProofs -------------------------
(* Safety of a Fix run for any number of artifacts, revisions, worker failures and  *)
(* kills of the process: acceptance is earned, nobody votes twice, plans and changes *)
(* pass their reviews, and saved work is kept.                                       *)
EXTENDS WorkflowRun, Integers, WellFoundedInduction, SequenceTheorems, FiniteSetTheorems,
        TLAPS

(* ---- sets of numbers -------------------------------------------------------- *)

\* A set of numbers that is not empty has a least one.
LEMMA LeastExists ==
  ASSUME NEW T, T \subseteq Nat, T # {}
  PROVE  \E x \in T : \A y \in T : x <= y
  <1>1. PICK x \in T : \A y \in T : ~ (<<y, x>> \in OpToRel(<, Nat))
    BY WFMin, NatLessThanWellFounded
  <1>2. \A y \in T : ~ y < x
    BY <1>1 DEF OpToRel
  <1> QED
    BY <1>2

\* A set of places in a sequence has a last one.
LEMMA LastExists ==
  ASSUME NEW n \in Nat, NEW T, T \subseteq 1 .. n, T # {}
  PROVE  \E x \in T : \A y \in T : y <= x
  <1> DEFINE U == {n - x : x \in T}
  <1>0. \A x \in T : x \in Nat /\ x <= n /\ n - x \in Nat
    OBVIOUS
  <1>1. U \subseteq Nat /\ U # {}
    BY <1>0
  <1>2. PICK u \in U : \A v \in U : u <= v
    BY <1>1, LeastExists
  <1>3. PICK x \in T : u = n - x
    BY <1>2
  <1>4. ASSUME NEW y \in T  PROVE y <= x
    <2>1. n - y \in U
      OBVIOUS
    <2>2. n - x <= n - y
      BY <1>2, <1>3, <2>1
    <2> QED
      BY <1>0, <2>2
  <1> QED
    BY <1>4

\* Finitely many numbers in a row have a greatest one.
LEMMA GreatestOfRow ==
  ASSUME NEW n \in Nat, NEW f, \A i \in 1 .. n : f[i] \in Nat
  PROVE  \E m \in Nat : (m = 0 \/ \E i \in 1 .. n : m = f[i]) /\ \A i \in 1 .. n : f[i] <= m
  <1> DEFINE Bounded(k) == \E m \in Nat : (m = 0 \/ \E i \in 1 .. k : m = f[i])
                                          /\ \A i \in 1 .. k : f[i] <= m
             T == {k \in 0 .. n : ~ Bounded(k)}
  <1>1. CASE T = {}
    BY <1>1
  <1>2. CASE T # {}
    <2>1. PICK k \in T : \A j \in T : k <= j
      <3>1. T \subseteq Nat
        OBVIOUS
      <3> QED
        BY <1>2, <3>1, LeastExists
    <2>2. k # 0
      <3>1. Bounded(0)
        OBVIOUS
      <3> QED
        BY <2>1, <3>1
    <2>3. k - 1 \in 0 .. n /\ Bounded(k - 1)
      <3>1. k \in 0 .. n /\ k - 1 \in 0 .. n
        BY <2>1, <2>2
      <3>2. k - 1 \notin T
        <4>1. ~ k <= k - 1
          BY <3>1
        <4> HIDE DEF T
        <4> QED
          BY <2>1, <4>1
      <3> HIDE DEF Bounded
      <3> QED
        BY <3>1, <3>2
    <2>4. PICK m \in Nat : /\ m = 0 \/ \E i \in 1 .. k - 1 : m = f[i]
                           /\ \A i \in 1 .. k - 1 : f[i] <= m
      BY <2>3
    <2>5. k \in 1 .. n /\ f[k] \in Nat
      BY <2>1, <2>2
    <2>6. CASE f[k] <= m
      <3>1. \A i \in 1 .. k : f[i] <= m
        BY <2>4, <2>5, <2>6
      <3> QED
        BY <2>1, <2>4, <2>5, <3>1
    <2>7. CASE ~ f[k] <= m
      <3>1. \A i \in 1 .. k : f[i] <= f[k]
        BY <2>4, <2>5, <2>7
      <3> QED
        BY <2>1, <2>5, <3>1
    <2> QED
      BY <2>6, <2>7
  <1> QED
    BY <1>1, <1>2

(* ---- the newest artifact of a kind ------------------------------------------ *)

\* p is the place of the newest artifact of a kind, 0 when there is none.
IsNewest(arts, kind, p) ==
  \/ p = 0 /\ \A i \in 1 .. Len(arts) : arts[i].kind # kind
  \/ /\ p \in 1 .. Len(arts) /\ arts[p].kind = kind
     /\ \A i \in 1 .. Len(arts) : arts[i].kind = kind => i <= p

\* Newest finds the last artifact of a kind, or says that there is none.
LEMMA NewestIs ==
  ASSUME NEW arts \in Seq(Artifacts), NEW kind
  PROVE  Newest(arts, kind) \in Nat /\ IsNewest(arts, kind, Newest(arts, kind))
  <1> DEFINE T == {i \in DOMAIN arts : arts[i].kind = kind}
  <1>0. DOMAIN arts = 1 .. Len(arts) /\ Len(arts) \in Nat
    OBVIOUS
  <1>1. CASE T = {}
    BY <1>0, <1>1 DEF Newest, IsNewest
  <1>2. CASE T # {}
    <2>1. \E x \in T : \A y \in T : y <= x
      BY <1>0, <1>2, LastExists
    <2>2. Newest(arts, kind) = CHOOSE i \in T : \A j \in T : j <= i
      BY <1>2 DEF Newest
    <2> HIDE DEF T
    <2>3. Newest(arts, kind) \in T /\ \A j \in T : j <= Newest(arts, kind)
      BY <2>1, <2>2
    <2> QED
      BY <1>0, <2>3 DEF T, IsNewest
  <1> QED
    BY <1>1, <1>2

\* There is one answer to what the newest artifact of a kind is.
LEMMA NewestUnique ==
  ASSUME NEW arts \in Seq(Artifacts), NEW kind, NEW p \in Nat, IsNewest(arts, kind, p)
  PROVE  Newest(arts, kind) = p
  <1>1. Newest(arts, kind) \in Nat /\ IsNewest(arts, kind, Newest(arts, kind))
    BY NewestIs
  <1>2. Len(arts) \in Nat
    OBVIOUS
  <1> QED
    BY <1>1, <1>2 DEF IsNewest

\* An artifact that is appended is the newest of its kind, and only of its kind.
LEMMA NewestAppended ==
  ASSUME NEW arts \in Seq(Artifacts), NEW x \in Artifacts, NEW kind
  PROVE  Newest(Append(arts, x), kind) = IF x.kind = kind THEN Len(arts) + 1
                                         ELSE Newest(arts, kind)
  <1> DEFINE b == Append(arts, x)
             p == IF x.kind = kind THEN Len(arts) + 1 ELSE Newest(arts, kind)
  <1>1. /\ b \in Seq(Artifacts) /\ Len(b) = Len(arts) + 1 /\ Len(arts) \in Nat
        /\ b[Len(arts) + 1] = x /\ \A i \in 1 .. Len(arts) : b[i] = arts[i]
    OBVIOUS
  <1>2. Newest(arts, kind) \in Nat /\ IsNewest(arts, kind, Newest(arts, kind))
    BY NewestIs
  <1> HIDE DEF b
  <1>3. IsNewest(b, kind, p) /\ p \in Nat
    <2>1. CASE x.kind = kind
      BY <1>1, <2>1 DEF IsNewest
    <2>2. CASE x.kind # kind
      BY <1>1, <1>2, <2>2 DEF IsNewest
    <2> QED
      BY <2>1, <2>2
  <1>4. Newest(b, kind) = p
    BY <1>1, <1>3, NewestUnique
  <1> QED
    BY <1>4 DEF b

(* ---- the note that a run is blocked ------------------------------------------ *)

\* The note that a run is blocked.
Note == "guard_rejection"

\* What is left of a history without one of its artifacts.
LEMMA RemovedAt ==
  ASSUME NEW arts \in Seq(Artifacts), NEW p \in 1 .. Len(arts)
  PROVE  /\ RemoveAt(arts, p) \in Seq(Artifacts) /\ Len(RemoveAt(arts, p)) = Len(arts) - 1
         /\ \A i \in 1 .. Len(arts) - 1 :
              RemoveAt(arts, p)[i] = IF i < p THEN arts[i] ELSE arts[i + 1]
  <1> DEFINE b == SubSeq(arts, 1, p - 1)
             c == SubSeq(arts, p + 1, Len(arts))
  <1>0. Len(arts) \in Nat /\ p \in Nat
    OBVIOUS
  <1>1. b \in Seq(Artifacts) /\ Len(b) = p - 1 /\ \A i \in 1 .. p - 1 : b[i] = arts[i]
    BY <1>0
  <1>2. c \in Seq(Artifacts) /\ Len(c) = Len(arts) - p
        /\ \A i \in 1 .. Len(arts) - p : c[i] = arts[i + p]
    BY <1>0
  <1>3. RemoveAt(arts, p) = b \o c
    BY DEF RemoveAt
  <1> HIDE DEF b, c
  <1>4. b \o c \in Seq(Artifacts) /\ Len(b \o c) = Len(arts) - 1
    <2>1. b \o c \in Seq(Artifacts) /\ Len(b \o c) = Len(b) + Len(c)
      BY <1>1, <1>2, ConcatProperties
    <2> QED
      BY <1>0, <1>1, <1>2, <2>1
  <1>5. ASSUME NEW i \in 1 .. Len(arts) - 1
        PROVE  (b \o c)[i] = IF i < p THEN arts[i] ELSE arts[i + 1]
    <2>1. CASE i < p
      BY <1>0, <1>1, <1>2, <2>1
    <2>2. CASE ~ i < p
      <3>1. i - (p - 1) \in 1 .. Len(arts) - p
        BY <1>0, <2>2
      <3>2. (b \o c)[i] = c[i - (p - 1)]
        BY <1>0, <1>1, <1>2, <2>2, <3>1
      <3>3. i - (p - 1) + p = i + 1
        BY <1>0
      <3> QED
        BY <1>2, <2>2, <3>1, <3>2, <3>3
    <2> QED
      BY <2>1, <2>2
  <1> QED
    BY <1>3, <1>4, <1>5

\* A history has at most one note.
OneNote(arts) ==
  \A i, j \in 1 .. Len(arts) : arts[i].kind = Note /\ arts[j].kind = Note => i = j

\* A history without its note: as it was, or one artifact shorter.
LEMMA WithoutNoteShape ==
  ASSUME NEW arts \in Seq(Artifacts)
  PROVE  \/ /\ Newest(arts, Note) = 0 /\ WithoutNote(arts) = arts
            /\ \A i \in 1 .. Len(arts) : arts[i].kind # Note
         \/ \E p \in 1 .. Len(arts) :
              /\ Newest(arts, Note) = p /\ arts[p].kind = Note
              /\ Len(WithoutNote(arts)) = Len(arts) - 1
              /\ WithoutNote(arts) \in Seq(Artifacts)
              /\ \A i \in 1 .. Len(arts) - 1 :
                   WithoutNote(arts)[i] = IF i < p THEN arts[i] ELSE arts[i + 1]
  <1>1. Newest(arts, Note) \in Nat /\ IsNewest(arts, Note, Newest(arts, Note))
    BY NewestIs
  <1>2. CASE Newest(arts, Note) = 0
    BY <1>1, <1>2 DEF WithoutNote, Has, IsNewest, Note
  <1>3. CASE Newest(arts, Note) # 0
    <2> DEFINE p == Newest(arts, Note)
    <2>1. p \in 1 .. Len(arts) /\ arts[p].kind = Note
      BY <1>1, <1>3 DEF IsNewest
    <2>2. WithoutNote(arts) = RemoveAt(arts, p)
      BY <1>3 DEF WithoutNote, Has, Note
    <2>3. /\ RemoveAt(arts, p) \in Seq(Artifacts) /\ Len(RemoveAt(arts, p)) = Len(arts) - 1
          /\ \A i \in 1 .. Len(arts) - 1 :
               RemoveAt(arts, p)[i] = IF i < p THEN arts[i] ELSE arts[i + 1]
      BY <2>1, RemovedAt
    <2> HIDE DEF p
    <2> QED
      BY <2>1, <2>2, <2>3 DEF p
  <1> QED
    BY <1>2, <1>3

\* It is a history.
LEMMA WithoutNoteType ==
  ASSUME NEW arts \in Seq(Artifacts)
  PROVE  WithoutNote(arts) \in Seq(Artifacts)
  BY WithoutNoteShape

(* ---- what two histories have in common --------------------------------------- *)

\* Two histories agree in what the gates read of every kind but one.
SameWork(a, b, kind) ==
  /\ \A k \in Kinds \ {kind} : /\ Newest(a, k) = 0 <=> Newest(b, k) = 0
                               /\ Newest(a, k) # 0 => Latest(a, k) = Latest(b, k)
  /\ \A k, l \in Kinds \ {kind} : Newest(a, k) > Newest(a, l) <=> Newest(b, k) > Newest(b, l)
  /\ \A k \in Reviews \ {kind}, c \in Nat : Voters(a, k, c) = Voters(b, k, c)

\* A reviewer has voted in a cycle.
Voted(arts, kind, cycle, w) ==
  \E i \in 1 .. Len(arts) : arts[i].kind = kind /\ arts[i].cycle = cycle /\ arts[i].who = w

\* Who has voted in a cycle, by the votes there are.
LEMMA VotersAre ==
  ASSUME NEW arts \in Seq(Artifacts), NEW kind, NEW cycle
  PROVE  Voters(arts, kind, cycle) = {w \in Nat : Voted(arts, kind, cycle, w)}
  <1>1. DOMAIN arts = 1 .. Len(arts) /\ \A i \in 1 .. Len(arts) : arts[i] \in Artifacts
    OBVIOUS
  <1>2. \A i \in 1 .. Len(arts) : arts[i].who \in Nat
    BY <1>1 DEF Artifacts
  <1> QED
    BY <1>1, <1>2 DEF Voters, Votes, Voted

\* An artifact changes nothing about the other kinds.
LEMMA AppendedSame ==
  ASSUME NEW arts \in Seq(Artifacts), NEW x \in Artifacts
  PROVE  SameWork(arts, Append(arts, x), x.kind)
  <1> DEFINE b == Append(arts, x)
  <1>1. /\ b \in Seq(Artifacts) /\ Len(b) = Len(arts) + 1 /\ Len(arts) \in Nat
        /\ b[Len(arts) + 1] = x /\ \A i \in 1 .. Len(arts) : b[i] = arts[i]
    OBVIOUS
  <1>2. \A k : k # x.kind => Newest(b, k) = Newest(arts, k)
    BY NewestAppended
  <1>3. \A k : Newest(arts, k) \in Nat /\ IsNewest(arts, k, Newest(arts, k))
    BY NewestIs
  <1> HIDE DEF b
  <1>4. \A k : k # x.kind /\ Newest(arts, k) # 0 => Latest(arts, k) = Latest(b, k)
    BY <1>1, <1>2, <1>3 DEF IsNewest, Latest
  <1>5. ASSUME NEW k \in Reviews \ {x.kind}, NEW c \in Nat
        PROVE  Voters(arts, k, c) = Voters(b, k, c)
    <2>1. \A w : Voted(arts, k, c, w) <=> Voted(b, k, c, w)
      BY <1>1 DEF Voted
    <2> QED
      BY <1>1, <2>1, VotersAre
  <1>6. SameWork(arts, b, x.kind)
    BY <1>2, <1>4, <1>5 DEF SameWork
  <1> QED
    BY <1>6 DEF b

\* Taking out the note changes nothing about the other kinds.
LEMMA WithoutSame ==
  ASSUME NEW arts \in Seq(Artifacts)
  PROVE  SameWork(arts, WithoutNote(arts), Note)
  <1> DEFINE b == WithoutNote(arts)
  <1>0. b \in Seq(Artifacts)
    BY WithoutNoteType
  <1>1. CASE b = arts
    BY <1>1 DEF SameWork
  <1>2. CASE b # arts
    <2>1. PICK p \in 1 .. Len(arts) :
            /\ arts[p].kind = Note /\ Len(b) = Len(arts) - 1
            /\ \A i \in 1 .. Len(arts) - 1 : b[i] = IF i < p THEN arts[i] ELSE arts[i + 1]
      BY <1>2, WithoutNoteShape
    <2> HIDE DEF b
    <2>2. \A k : Newest(arts, k) \in Nat /\ IsNewest(arts, k, Newest(arts, k))
      BY NewestIs
    <2>n. Len(arts) \in Nat
      OBVIOUS
    <2>3. ASSUME NEW k, k # Note
          PROVE  Newest(b, k) = IF Newest(arts, k) > p THEN Newest(arts, k) - 1 ELSE Newest(arts, k)
      <3> DEFINE n == Newest(arts, k)
                 q == IF n > p THEN n - 1 ELSE n
      <3>1. n \in Nat /\ IsNewest(arts, k, n)
        BY <2>2
      <3> HIDE DEF n
      <3>2. n # p
        BY <2>1, <2>3, <3>1 DEF IsNewest
      <3>3. q \in Nat
        BY <2>1, <3>1
      <3>4. IsNewest(b, k, q)
        <4>1. CASE n = 0
          <5>1. q = 0
            BY <2>1, <4>1
          <5>2. \A i \in 1 .. Len(b) : b[i].kind # k
            BY <2>1, <2>n, <3>1, <4>1 DEF IsNewest
          <5> QED
            BY <5>1, <5>2 DEF IsNewest
        <4>2. CASE n # 0
          <5>1. n \in 1 .. Len(arts) /\ arts[n].kind = k
                /\ \A i \in 1 .. Len(arts) : arts[i].kind = k => i <= n
            BY <3>1, <4>2 DEF IsNewest
          <5>2. q \in 1 .. Len(b) /\ b[q] = arts[n]
            BY <2>1, <2>n, <3>2, <5>1
          <5>3. \A i \in 1 .. Len(b) : b[i].kind = k => i <= q
            BY <2>1, <2>n, <3>2, <5>1
          <5> QED
            BY <5>1, <5>2, <5>3 DEF IsNewest
        <4> QED
          BY <4>1, <4>2
      <3>5. Newest(b, k) = q
        BY <1>0, <3>3, <3>4, NewestUnique
      <3> QED
        BY <3>5 DEF n
    <2>4. \A k : k # Note => Newest(arts, k) # p
      BY <2>1, <2>2 DEF IsNewest
    <2>5. \A k \in Kinds \ {Note} : Newest(arts, k) = 0 <=> Newest(b, k) = 0
      BY <2>1, <2>2, <2>3, <2>4
    <2>6. ASSUME NEW k \in Kinds \ {Note}, Newest(arts, k) # 0
          PROVE  Latest(arts, k) = Latest(b, k)
      <3>1. Newest(arts, k) \in 1 .. Len(arts)
        BY <2>2, <2>6 DEF IsNewest
      <3> QED
        BY <2>1, <2>n, <2>3, <2>4, <3>1 DEF Latest
    <2>7. \A k, l \in Kinds \ {Note} :
            Newest(arts, k) > Newest(arts, l) <=> Newest(b, k) > Newest(b, l)
      BY <2>1, <2>2, <2>3, <2>4
    <2>8. ASSUME NEW k \in Reviews \ {Note}, NEW c \in Nat
          PROVE  Voters(arts, k, c) = Voters(b, k, c)
      <3>1. ASSUME NEW w, Voted(arts, k, c, w)  PROVE Voted(b, k, c, w)
        <4>1. PICK i \in 1 .. Len(arts) : arts[i].kind = k /\ arts[i].cycle = c /\ arts[i].who = w
          BY <3>1 DEF Voted
        <4>2. i # p
          BY <2>1, <4>1
        <4>3. CASE i < p
          <5>1. i \in 1 .. Len(b) /\ b[i] = arts[i]
            BY <2>1, <2>n, <4>3
          <5> QED
            BY <4>1, <5>1 DEF Voted
        <4>4. CASE i > p
          <5>1. i - 1 \in 1 .. Len(b) /\ b[i - 1] = arts[i]
            BY <2>1, <2>n, <4>4
          <5> QED
            BY <4>1, <5>1 DEF Voted
        <4> QED
          BY <4>2, <4>3, <4>4
      <3>2. ASSUME NEW w, Voted(b, k, c, w)  PROVE Voted(arts, k, c, w)
        <4>1. PICK i \in 1 .. Len(b) : b[i].kind = k /\ b[i].cycle = c /\ b[i].who = w
          BY <3>2 DEF Voted
        <4>2. PICK j \in 1 .. Len(arts) : b[i] = arts[j]
          BY <2>1, <2>n
        <4> QED
          BY <4>1, <4>2 DEF Voted
      <3> QED
        BY <1>0, <3>1, <3>2, VotersAre
    <2>9. SameWork(arts, b, Note)
      BY <2>5, <2>6, <2>7, <2>8 DEF SameWork
    <2> QED
      BY <2>9 DEF b
  <1> QED
    BY <1>1, <1>2

(* ---- what a history says of its reviews --------------------------------------- *)

\* Only reviewers vote, within their panel, once in a cycle and in order.
Votings(arts) ==
  /\ \A i \in 1 .. Len(arts) : arts[i].kind \in Reviews => arts[i].who \in 1 .. Panel[arts[i].kind]
  /\ \A i \in 1 .. Len(arts) : arts[i].kind \notin Reviews => arts[i].who = 0
  /\ \A i, j \in 1 .. Len(arts) :
       arts[i].who # 0 /\ arts[i].kind = arts[j].kind /\ arts[i].cycle = arts[j].cycle
         /\ arts[i].who = arts[j].who => i = j
  /\ \A i \in 1 .. Len(arts) :
       arts[i].who = 2 => Voted(arts, arts[i].kind, arts[i].cycle, 1)

\* A review that came after what it reviews had the newest of it in front of it.
Informed(arts) ==
  \A k \in Reviews :
    Newest(arts, Reviewed[k]) # 0 /\ Newest(arts, k) > Newest(arts, Reviewed[k]) =>
      Latest(arts, k).of = Latest(arts, Reviewed[k]).n

\* What holds of the artifacts of a run at any time.
Good(arts) == OneNote(arts) /\ Votings(arts) /\ Informed(arts)

\* The panels and what they review.
LEMMA ReviewFacts ==
  /\ Reviews = {"investigation_review", "change_plan_review", "change_review"}
  /\ \A k \in Reviews : Panel[k] \in 1 .. 2
  /\ Panel["investigation_review"] = 1 /\ Panel["change_plan_review"] = 2
  /\ Panel["change_review"] = 1
  /\ Reviewed["investigation_review"] = "investigation"
  /\ Reviewed["change_plan_review"] = "disposition"
  /\ Reviewed["change_review"] = "implementation"
  /\ \A k \in Reviews : Reviewed[k] \notin Reviews \cup {Note}
  BY DEF Reviews, Panel, Reviewed, Note

\* The kinds of artifacts.
LEMMA KindFacts ==
  /\ Kinds = {"intake", "investigation", "disposition", "implementation", "verification",
              "guard_rejection", "user_decision"} \cup Reviews
  /\ \A k \in Reviews : Reviewed[k] \in Kinds
  <1>1. DOMAIN ProducedAt = {"INTAKE", "INVESTIGATING", "DISPOSITION", "IMPLEMENTING", "VERIFYING"}
    BY DEF ProducedAt
  <1>2. {ProducedAt[s] : s \in DOMAIN ProducedAt} =
          {"intake", "investigation", "disposition", "implementation", "verification"}
    BY <1>1 DEF ProducedAt
  <1>3. Kinds = {"intake", "investigation", "disposition", "implementation", "verification",
              "guard_rejection", "user_decision"} \cup Reviews
    BY <1>2 DEF Kinds
  <1> QED
    BY <1>3, ReviewFacts

\* A worker's artifact spoils no review: one of what it reviews must follow it.
LEMMA AppendedGood ==
  ASSUME NEW arts \in Seq(Artifacts), Good(arts),
         NEW x \in Artifacts, x.kind \notin Reviews, x.who = 0,
         x.kind = Note => \A i \in 1 .. Len(arts) : arts[i].kind # Note
  PROVE  Good(Append(arts, x))
  <1> DEFINE b == Append(arts, x)
  <1>1. /\ b \in Seq(Artifacts) /\ Len(b) = Len(arts) + 1 /\ Len(arts) \in Nat
        /\ b[Len(arts) + 1] = x /\ \A i \in 1 .. Len(arts) : b[i] = arts[i]
    OBVIOUS
  <1>2. SameWork(arts, b, x.kind)
    BY AppendedSame
  <1>3. \A k : Newest(b, k) = IF x.kind = k THEN Len(arts) + 1 ELSE Newest(arts, k)
    BY NewestAppended
  <1>4. \A k : Newest(b, k) \in Nat /\ IsNewest(b, k, Newest(b, k))
    BY <1>1, NewestIs
  <1> HIDE DEF b
  <1>5. OneNote(b)
    BY <1>1 DEF Good, OneNote
  <1>6. Votings(b)
    <2>1. \A k, c, w : Voted(arts, k, c, w) => Voted(b, k, c, w)
      BY <1>1 DEF Voted
    <2>2. \A i \in 1 .. Len(b) : b[i].kind \in Reviews => b[i].who \in 1 .. Panel[b[i].kind]
      BY <1>1 DEF Good, Votings
    <2>3. \A i \in 1 .. Len(b) : b[i].kind \notin Reviews => b[i].who = 0
      BY <1>1 DEF Good, Votings
    <2>4. ASSUME NEW i \in 1 .. Len(b), NEW j \in 1 .. Len(b), b[i].who # 0,
                 b[i].kind = b[j].kind, b[i].cycle = b[j].cycle, b[i].who = b[j].who
          PROVE  i = j
      <3>1. i # Len(arts) + 1 /\ j # Len(arts) + 1
        BY <1>1, <2>4
      <3>2. i \in 1 .. Len(arts) /\ j \in 1 .. Len(arts)
        BY <1>1, <3>1
      <3> QED
        BY <1>1, <2>4, <3>2 DEF Good, Votings
    <2>5. ASSUME NEW i \in 1 .. Len(b), b[i].who = 2  PROVE Voted(b, b[i].kind, b[i].cycle, 1)
      <3>1. i # Len(arts) + 1
        BY <1>1, <2>5
      <3>2. i \in 1 .. Len(arts)
        BY <1>1, <3>1
      <3> QED
        BY <1>1, <2>1, <2>5, <3>2 DEF Good, Votings
    <2> QED
      BY <2>2, <2>3, <2>4, <2>5 DEF Votings
  <1>7. Informed(b)
    <2> SUFFICES ASSUME NEW k \in Reviews, Newest(b, Reviewed[k]) # 0,
                        Newest(b, k) > Newest(b, Reviewed[k])
                 PROVE  Latest(b, k).of = Latest(b, Reviewed[k]).n
      BY DEF Informed
    <2>1. x.kind # k
      OBVIOUS
    <2>2. CASE x.kind = Reviewed[k]
      <3>1. Newest(b, Reviewed[k]) = Len(arts) + 1
        BY <1>3, <2>2
      <3>2. Newest(b, k) <= Len(b)
        BY <1>1, <1>4 DEF IsNewest
      <3> QED
        BY <1>1, <1>4, <3>1, <3>2
    <2>3. CASE x.kind # Reviewed[k]
      <3>1. Newest(b, k) = Newest(arts, k) /\ Newest(b, Reviewed[k]) = Newest(arts, Reviewed[k])
        BY <1>3, <2>1, <2>3
      <3>2. Newest(arts, k) # 0
        BY <1>4, <3>1
      <3>3. k \in Kinds \ {x.kind} /\ Reviewed[k] \in Kinds \ {x.kind}
        BY <2>1, <2>3, KindFacts
      <3>4. Latest(b, k) = Latest(arts, k) /\ Latest(b, Reviewed[k]) = Latest(arts, Reviewed[k])
        BY <1>2, <3>1, <3>2, <3>3 DEF SameWork
      <3> QED
        BY <3>1, <3>4 DEF Good, Informed
    <2> QED
      BY <2>2, <2>3
  <1>8. Good(b)
    BY <1>5, <1>6, <1>7 DEF Good
  <1> QED
    BY <1>8 DEF b

\* Without its note a history has none.
LEMMA NotedIs ==
  ASSUME NEW arts \in Seq(Artifacts), OneNote(arts)
  PROVE  \A i \in 1 .. Len(WithoutNote(arts)) : WithoutNote(arts)[i].kind # Note
  <1>n. Len(arts) \in Nat
    OBVIOUS
  <1>1. CASE \A i \in 1 .. Len(arts) : arts[i].kind # Note
    <2>1. WithoutNote(arts) = arts
      BY <1>1, WithoutNoteShape
    <2> QED
      BY <1>1, <2>1
  <1>2. CASE \E i \in 1 .. Len(arts) : arts[i].kind = Note
    <2> DEFINE b == WithoutNote(arts)
    <2>1. PICK p \in 1 .. Len(arts) :
              /\ arts[p].kind = Note /\ Len(b) = Len(arts) - 1
              /\ \A i \in 1 .. Len(arts) - 1 : b[i] = IF i < p THEN arts[i] ELSE arts[i + 1]
      BY <1>2, WithoutNoteShape
    <2> HIDE DEF b
    <2>2. ASSUME NEW i \in 1 .. Len(b)  PROVE b[i].kind # Note
      <3>1. CASE i < p
        BY <1>n, <2>1, <3>1 DEF OneNote
      <3>2. CASE ~ i < p
        <4>1. i + 1 \in 1 .. Len(arts) /\ i + 1 # p /\ b[i] = arts[i + 1]
          BY <1>n, <2>1, <3>2
        <4> QED
          BY <2>1, <4>1 DEF OneNote
      <3> QED
        BY <3>1, <3>2
    <2> QED
      BY <2>2 DEF b
  <1> QED
    BY <1>1, <1>2

\* Taking out the note spoils no review.
LEMMA WithoutGood ==
  ASSUME NEW arts \in Seq(Artifacts), Good(arts)
  PROVE  Good(WithoutNote(arts))
  <1> DEFINE b == WithoutNote(arts)
  <1>0. b \in Seq(Artifacts) /\ Len(arts) \in Nat
    BY WithoutNoteType
  <1>1. CASE \A i \in 1 .. Len(arts) : arts[i].kind # Note
    <2>1. b = arts
      BY <1>1, WithoutNoteShape
    <2> QED
      BY <2>1
  <1>2. CASE \E i \in 1 .. Len(arts) : arts[i].kind = Note
    <2> DEFINE at(i) == IF i < Newest(arts, Note) THEN i ELSE i + 1
    <2>1. PICK p \in 1 .. Len(arts) :
              /\ Newest(arts, Note) = p
              /\ arts[p].kind = Note /\ Len(b) = Len(arts) - 1
              /\ \A i \in 1 .. Len(arts) - 1 : b[i] = IF i < p THEN arts[i] ELSE arts[i + 1]
      BY <1>2, WithoutNoteShape
    <2>2. SameWork(arts, b, Note)
      BY WithoutSame
    <2>3. OneNote(b)
      BY NotedIs DEF Good, OneNote
    <2> HIDE DEF b
    <2>4. \A i \in 1 .. Len(b) : at(i) \in 1 .. Len(arts) /\ b[i] = arts[at(i)]
      BY <1>0, <2>1
    <2>5. \A i, j \in 1 .. Len(b) : at(i) = at(j) => i = j
      BY <1>0, <2>1
    <2> HIDE DEF at
    <2>6. Votings(b)
      <3>1. \A i \in 1 .. Len(b) : b[i].kind \in Reviews => b[i].who \in 1 .. Panel[b[i].kind]
        BY <2>4 DEF Good, Votings
      <3>2. \A i \in 1 .. Len(b) : b[i].kind \notin Reviews => b[i].who = 0
        BY <2>4 DEF Good, Votings
      <3>3. ASSUME NEW i \in 1 .. Len(b), NEW j \in 1 .. Len(b), b[i].who # 0,
                   b[i].kind = b[j].kind, b[i].cycle = b[j].cycle, b[i].who = b[j].who
            PROVE  i = j
        <4>1. at(i) = at(j)
          BY <2>4, <3>3 DEF Good, Votings
        <4> QED
          BY <2>5, <4>1
      <3>4. ASSUME NEW i \in 1 .. Len(b), b[i].who = 2  PROVE Voted(b, b[i].kind, b[i].cycle, 1)
        <4>1. Voted(arts, b[i].kind, b[i].cycle, 1)
          BY <2>4, <3>4 DEF Good, Votings
        <4>2. b[i].kind \in Reviews
          BY <3>2, <3>4
        <4>3. b[i].kind \in Reviews \ {Note}
          BY <4>2, ReviewFacts DEF Note
        <4>4. b[i] \in Artifacts
          BY <1>0
        <4>5. b[i].cycle \in Nat
          BY <4>4 DEF Artifacts
        <4>6. Voters(arts, b[i].kind, b[i].cycle) = Voters(b, b[i].kind, b[i].cycle)
          BY <2>2, <4>3, <4>5 DEF SameWork
        <4>7. 1 \in Voters(arts, b[i].kind, b[i].cycle)
          BY <4>1, VotersAre
        <4>8. 1 \in {w \in Nat : Voted(b, b[i].kind, b[i].cycle, w)}
          BY <1>0, <4>6, <4>7, VotersAre
        <4> QED
          BY <4>8
      <3> QED
        BY <3>1, <3>2, <3>3, <3>4 DEF Votings
    <2>7. Informed(b)
      <3> SUFFICES ASSUME NEW k \in Reviews, Newest(b, Reviewed[k]) # 0,
                          Newest(b, k) > Newest(b, Reviewed[k])
                   PROVE  Latest(b, k).of = Latest(b, Reviewed[k]).n
        BY DEF Informed
      <3>1. k \in Kinds \ {Note} /\ Reviewed[k] \in Kinds \ {Note}
        BY KindFacts, ReviewFacts DEF Note
      <3>2. Newest(arts, Reviewed[k]) # 0 /\ Newest(arts, k) > Newest(arts, Reviewed[k])
        BY <2>2, <3>1 DEF SameWork
      <3>3. Newest(arts, k) # 0
        BY <3>2, NewestIs
      <3>4. Latest(b, k) = Latest(arts, k) /\ Latest(b, Reviewed[k]) = Latest(arts, Reviewed[k])
        BY <2>2, <3>1, <3>2, <3>3 DEF SameWork
      <3> QED
        BY <3>2, <3>4 DEF Good, Informed
    <2>8. Good(b)
      BY <2>3, <2>6, <2>7 DEF Good
    <2> QED
      BY <2>8 DEF b
  <1> QED
    BY <1>1, <1>2

\* A new note in the place of the old one spoils no review.
LEMMA NotedGood ==
  ASSUME NEW arts \in Seq(Artifacts), Good(arts), NEW x \in Artifacts, x.kind = Note, x.who = 0
  PROVE  /\ Append(WithoutNote(arts), x) \in Seq(Artifacts)
         /\ Good(Append(WithoutNote(arts), x))
         /\ SameWork(arts, Append(WithoutNote(arts), x), Note)
  <1> DEFINE b == WithoutNote(arts)
  <1>1. b \in Seq(Artifacts) /\ Good(b) /\ SameWork(arts, b, Note)
    BY WithoutNoteType, WithoutGood, WithoutSame
  <1>2. \A i \in 1 .. Len(b) : b[i].kind # Note
    BY NotedIs DEF Good
  <1> HIDE DEF b
  <1>3. x.kind \notin Reviews
    BY ReviewFacts DEF Note
  <1>4. Good(Append(b, x)) /\ Append(b, x) \in Seq(Artifacts)
    BY <1>1, <1>2, <1>3, AppendedGood
  <1>5. SameWork(b, Append(b, x), Note)
    BY <1>1, AppendedSame
  <1>6. SameWork(arts, Append(b, x), Note)
    BY <1>1, <1>5 DEF SameWork
  <1> QED
    BY <1>4, <1>6 DEF b

\* The vote of the next reviewer in line, on the newest work, spoils no review.
LEMMA VotedGood ==
  ASSUME NEW arts \in Seq(Artifacts), Good(arts), NEW x \in Artifacts, x.kind \in Reviews,
         x.who \in 1 .. Panel[x.kind], Voters(arts, x.kind, x.cycle) = 1 .. x.who - 1,
         Newest(arts, Reviewed[x.kind]) # 0, x.of = Latest(arts, Reviewed[x.kind]).n
  PROVE  /\ Good(Append(arts, x))
         /\ Voters(Append(arts, x), x.kind, x.cycle) = 1 .. x.who
  <1> DEFINE b == Append(arts, x)
  <1>1. /\ b \in Seq(Artifacts) /\ Len(b) = Len(arts) + 1 /\ Len(arts) \in Nat
        /\ b[Len(arts) + 1] = x /\ \A i \in 1 .. Len(arts) : b[i] = arts[i]
    OBVIOUS
  <1>2. SameWork(arts, b, x.kind)
    BY AppendedSame
  <1>3. \A k : Newest(b, k) = IF x.kind = k THEN Len(arts) + 1 ELSE Newest(arts, k)
    BY NewestAppended
  <1>4. \A k : Newest(b, k) \in Nat /\ IsNewest(b, k, Newest(b, k))
    BY <1>1, NewestIs
  <1>x. x.who \in Nat /\ x.cycle \in Nat /\ x.kind # Note
    BY ReviewFacts DEF Artifacts, Note
  <1>v. \A w \in Nat : Voted(arts, x.kind, x.cycle, w) <=> w \in 1 .. x.who - 1
    <2>1. {w \in Nat : Voted(arts, x.kind, x.cycle, w)} = 1 .. x.who - 1
      BY VotersAre
    <2> QED
      BY <2>1
  <1> HIDE DEF b
  <1>5. OneNote(b)
    BY <1>1, <1>x DEF Good, OneNote
  <1>6. Votings(b)
    <2>1. \A k, c, w : Voted(arts, k, c, w) => Voted(b, k, c, w)
      BY <1>1 DEF Voted
    <2>2. \A i \in 1 .. Len(b) : b[i].kind \in Reviews => b[i].who \in 1 .. Panel[b[i].kind]
      BY <1>1 DEF Good, Votings
    <2>3. \A i \in 1 .. Len(b) : b[i].kind \notin Reviews => b[i].who = 0
      BY <1>1 DEF Good, Votings
    <2>n. ~ Voted(arts, x.kind, x.cycle, x.who)
      BY <1>v, <1>x
    <2>m. \A i \in 1 .. Len(arts) :
            ~ (arts[i].kind = x.kind /\ arts[i].cycle = x.cycle /\ arts[i].who = x.who)
      BY <2>n DEF Voted
    <2>4. ASSUME NEW i \in 1 .. Len(b), NEW j \in 1 .. Len(b), b[i].who # 0,
                 b[i].kind = b[j].kind, b[i].cycle = b[j].cycle, b[i].who = b[j].who
          PROVE  i = j
      <3>1. CASE i \in 1 .. Len(arts) /\ j \in 1 .. Len(arts)
        BY <1>1, <2>4, <3>1 DEF Good, Votings
      <3>2. CASE i = Len(arts) + 1 /\ j \in 1 .. Len(arts)
        BY <1>1, <2>4, <2>m, <3>2
      <3>3. CASE i \in 1 .. Len(arts) /\ j = Len(arts) + 1
        BY <1>1, <2>4, <2>m, <3>3
      <3> QED
        BY <1>1, <3>1, <3>2, <3>3
    <2>5. ASSUME NEW i \in 1 .. Len(b), b[i].who = 2  PROVE Voted(b, b[i].kind, b[i].cycle, 1)
      <3>1. CASE i \in 1 .. Len(arts)
        BY <1>1, <2>1, <2>5, <3>1 DEF Good, Votings
      <3>2. CASE i = Len(arts) + 1
        BY <1>1, <1>v, <1>x, <2>1, <2>5, <3>2
      <3> QED
        BY <1>1, <3>1, <3>2
    <2> QED
      BY <2>2, <2>3, <2>4, <2>5 DEF Votings
  <1>7. Informed(b)
    <2> SUFFICES ASSUME NEW k \in Reviews, Newest(b, Reviewed[k]) # 0,
                        Newest(b, k) > Newest(b, Reviewed[k])
                 PROVE  Latest(b, k).of = Latest(b, Reviewed[k]).n
      BY DEF Informed
    <2>1. Reviewed[k] # x.kind /\ Reviewed[k] \in Kinds \ {x.kind}
      BY ReviewFacts, KindFacts
    <2>2. Newest(arts, Reviewed[k]) # 0 /\ Latest(b, Reviewed[k]) = Latest(arts, Reviewed[k])
      BY <1>2, <1>3, <2>1 DEF SameWork
    <2>3. CASE x.kind = k
      <3>1. Latest(b, k) = x
        BY <1>1, <1>3, <2>3 DEF Latest
      <3> QED
        BY <2>2, <2>3, <3>1
    <2>4. CASE x.kind # k
      <3>1. k \in Kinds \ {x.kind}
        BY <2>4, KindFacts
      <3>2. Newest(b, k) = Newest(arts, k) /\ Newest(b, Reviewed[k]) = Newest(arts, Reviewed[k])
        BY <1>3, <2>1, <2>4
      <3>3. Newest(arts, k) # 0
        BY <1>4, <3>2
      <3>4. Latest(b, k) = Latest(arts, k)
        BY <1>2, <3>1, <3>3 DEF SameWork
      <3> QED
        BY <2>2, <3>2, <3>4 DEF Good, Informed
    <2> QED
      BY <2>3, <2>4
  <1>8. Good(b)
    BY <1>5, <1>6, <1>7 DEF Good
  <1>9. Voters(b, x.kind, x.cycle) = 1 .. x.who
    <2>1. \A w \in Nat : Voted(b, x.kind, x.cycle, w) <=> w \in 1 .. x.who
      <3>1. \A w \in Nat : Voted(b, x.kind, x.cycle, w) <=>
              (Voted(arts, x.kind, x.cycle, w) \/ w = x.who)
        BY <1>1 DEF Voted
      <3> QED
        BY <1>v, <1>x, <3>1
    <2>2. Voters(b, x.kind, x.cycle) = {w \in Nat : Voted(b, x.kind, x.cycle, w)}
      BY <1>1, VotersAre
    <2> QED
      BY <1>x, <2>1, <2>2
  <1> QED
    BY <1>8, <1>9 DEF b

(* ---- what is kept ------------------------------------------------------------- *)

\* The work of one history begins that of another.
IsKept(a, b) == IsPrefix(WithoutNote(a), WithoutNote(b))

\* One history is the beginning of another when they agree as far as it goes.
LEMMA PrefixIs ==
  ASSUME NEW s \in Seq(Artifacts), NEW t \in Seq(Artifacts)
  PROVE  IsPrefix(s, t) <=> Len(s) <= Len(t) /\ \A i \in 1 .. Len(s) : s[i] = t[i]
  <1>0. Len(s) \in Nat /\ Len(t) \in Nat
    OBVIOUS
  <1>1. ASSUME Len(s) <= Len(t)
        PROVE  /\ Len(SubSeq(s, 1, Len(s))) = Len(s) /\ Len(SubSeq(t, 1, Len(s))) = Len(s)
               /\ SubSeq(s, 1, Len(s)) \in Seq(Artifacts) /\ SubSeq(t, 1, Len(s)) \in Seq(Artifacts)
               /\ \A i \in 1 .. Len(s) : SubSeq(s, 1, Len(s))[i] = s[i] /\ SubSeq(t, 1, Len(s))[i] = t[i]
    BY <1>0, <1>1
  <1>2. ASSUME Len(s) <= Len(t)
        PROVE  SubSeq(s, 1, Len(s)) = SubSeq(t, 1, Len(s)) <=> \A i \in 1 .. Len(s) : s[i] = t[i]
    <2> DEFINE u == SubSeq(s, 1, Len(s))
               v == SubSeq(t, 1, Len(s))
    <2>1. /\ u \in Seq(Artifacts) /\ v \in Seq(Artifacts) /\ Len(u) = Len(s) /\ Len(v) = Len(s)
          /\ \A i \in 1 .. Len(s) : u[i] = s[i] /\ v[i] = t[i]
      BY <1>1, <1>2
    <2> HIDE DEF u, v
    <2>2. u = v <=> \A i \in 1 .. Len(s) : u[i] = v[i]
      BY <2>1, SeqEqual
    <2>3. u = v <=> \A i \in 1 .. Len(s) : s[i] = t[i]
      BY <2>1, <2>2
    <2> QED
      BY <2>3 DEF u, v
  <1> QED
    BY <1>2 DEF IsPrefix

\* A history keeps its own work,
LEMMA KeptSelf ==
  ASSUME NEW a \in Seq(Artifacts)
  PROVE  IsKept(a, a)
  BY WithoutNoteType, PrefixIs DEF IsKept

\* what is kept twice is kept,
LEMMA KeptOn ==
  ASSUME NEW a \in Seq(Artifacts), NEW b \in Seq(Artifacts), NEW c \in Seq(Artifacts),
         IsKept(a, b), IsKept(b, c)
  PROVE  IsKept(a, c)
  <1> DEFINE s == WithoutNote(a)
             t == WithoutNote(b)
             u == WithoutNote(c)
  <1>1. /\ s \in Seq(Artifacts) /\ t \in Seq(Artifacts) /\ u \in Seq(Artifacts)
        /\ Len(s) \in Nat /\ Len(t) \in Nat /\ Len(u) \in Nat
    BY WithoutNoteType
  <1>2. IsPrefix(s, t) /\ IsPrefix(t, u)
    BY DEF IsKept
  <1> HIDE DEF s, t, u
  <1>3. Len(s) <= Len(t) /\ \A i \in 1 .. Len(s) : s[i] = t[i]
    BY <1>1, <1>2, PrefixIs
  <1>4. Len(t) <= Len(u) /\ \A i \in 1 .. Len(t) : t[i] = u[i]
    BY <1>1, <1>2, PrefixIs
  <1>5. IsPrefix(s, u)
    <2>1. Len(s) <= Len(u) /\ \A i \in 1 .. Len(s) : s[i] = u[i]
      BY <1>1, <1>3, <1>4
    <2> QED
      BY <1>1, <2>1, PrefixIs
  <1> QED
    BY <1>5 DEF IsKept, s, u

\* appending work keeps what there is,
LEMMA AppendedKept ==
  ASSUME NEW a \in Seq(Artifacts), NEW x \in Artifacts, x.kind # Note
  PROVE  IsKept(a, Append(a, x))
  <1> DEFINE b == Append(a, x)
             s == WithoutNote(a)
             t == WithoutNote(b)
  <1>1. /\ b \in Seq(Artifacts) /\ Len(b) = Len(a) + 1 /\ Len(a) \in Nat
        /\ b[Len(a) + 1] = x /\ \A i \in 1 .. Len(a) : b[i] = a[i]
    OBVIOUS
  <1>2. Newest(b, Note) = Newest(a, Note)
    BY NewestAppended
  <1>3. s \in Seq(Artifacts) /\ t \in Seq(Artifacts)
    BY <1>1, WithoutNoteType
  <1>4. \/ Newest(a, Note) = 0 /\ s = a
        \/ \E p \in 1 .. Len(a) : /\ Newest(a, Note) = p /\ Len(s) = Len(a) - 1
             /\ \A i \in 1 .. Len(a) - 1 : s[i] = IF i < p THEN a[i] ELSE a[i + 1]
    BY WithoutNoteShape
  <1> HIDE DEF b
  <1>5. \/ Newest(b, Note) = 0 /\ t = b
        \/ \E p \in 1 .. Len(b) : /\ Newest(b, Note) = p /\ Len(t) = Len(b) - 1
             /\ \A i \in 1 .. Len(b) - 1 : t[i] = IF i < p THEN b[i] ELSE b[i + 1]
    BY <1>1, WithoutNoteShape
  <1> HIDE DEF s, t
  <1>6. Len(s) <= Len(t) /\ \A i \in 1 .. Len(s) : s[i] = t[i]
    <2>1. CASE Newest(a, Note) = 0
      <3>1. s = a /\ t = b
        BY <1>2, <1>4, <1>5, <2>1
      <3> QED
        BY <1>1, <3>1
    <2>2. CASE Newest(a, Note) # 0
      <3>1. PICK p \in 1 .. Len(a) : /\ Newest(a, Note) = p /\ Len(s) = Len(a) - 1
             /\ \A i \in 1 .. Len(a) - 1 : s[i] = IF i < p THEN a[i] ELSE a[i + 1]
        BY <1>4, <2>2
      <3>2. Len(t) = Len(a) /\ \A i \in 1 .. Len(a) : t[i] = IF i < p THEN b[i] ELSE b[i + 1]
        BY <1>1, <1>2, <1>5, <2>2, <3>1
      <3> QED
        BY <1>1, <3>1, <3>2
    <2> QED
      BY <2>1, <2>2
  <1>7. IsPrefix(s, t)
    BY <1>3, <1>6, PrefixIs
  <1> QED
    BY <1>7 DEF IsKept, b, s, t

\* and so does replacing the note.
LEMMA NotedKept ==
  ASSUME NEW a \in Seq(Artifacts), OneNote(a), NEW x \in Artifacts, x.kind = Note
  PROVE  IsKept(a, Append(WithoutNote(a), x))
  <1> DEFINE s == WithoutNote(a)
             b == Append(s, x)
             t == WithoutNote(b)
  <1>0. s \in Seq(Artifacts)
    BY WithoutNoteType
  <1>1. /\ b \in Seq(Artifacts) /\ Len(b) = Len(s) + 1 /\ Len(s) \in Nat
        /\ b[Len(s) + 1] = x /\ \A i \in 1 .. Len(s) : b[i] = s[i]
    BY <1>0
  <1>2. Newest(b, Note) = Len(s) + 1
    BY <1>0, NewestAppended
  <1> HIDE DEF s, b
  <1>3. t \in Seq(Artifacts)
    BY <1>1, WithoutNoteType
  <1>4. \/ Newest(b, Note) = 0
        \/ \E p \in 1 .. Len(b) : /\ Newest(b, Note) = p /\ Len(t) = Len(b) - 1
             /\ \A i \in 1 .. Len(b) - 1 : t[i] = IF i < p THEN b[i] ELSE b[i + 1]
    BY <1>1, WithoutNoteShape
  <1> HIDE DEF t
  <1>5. Len(s) <= Len(t) /\ \A i \in 1 .. Len(s) : s[i] = t[i]
    BY <1>1, <1>2, <1>4
  <1>6. IsPrefix(s, t)
    BY <1>0, <1>3, <1>5, PrefixIs
  <1> QED
    BY <1>6 DEF IsKept, b, s, t

(* ---- numbers ------------------------------------------------------------------ *)

\* Greatest finds the greatest member where there is one.
LEMMA GreatestIs ==
  ASSUME NEW S, NEW m \in S, \A y \in S : y <= m
  PROVE  Greatest(S) \in S /\ \A y \in S : y <= Greatest(S)
  BY DEF Greatest

\* The number of a new artifact is a number,
LEMMA NewNType ==
  ASSUME NEW arts \in Seq(Artifacts)
  PROVE  NewN(arts) \in Nat
  <1> DEFINE S == {0} \cup {arts[i].n : i \in DOMAIN arts}
             f == [i \in 1 .. Len(arts) |-> arts[i].n]
  <1>1. DOMAIN arts = 1 .. Len(arts) /\ Len(arts) \in Nat
        /\ \A i \in 1 .. Len(arts) : arts[i] \in Artifacts
    OBVIOUS
  <1>2. \A i \in 1 .. Len(arts) : f[i] = arts[i].n /\ f[i] \in Nat
    BY <1>1 DEF Artifacts
  <1> HIDE DEF f
  <1>3. PICK m \in Nat : (m = 0 \/ \E i \in 1 .. Len(arts) : m = f[i])
                         /\ \A i \in 1 .. Len(arts) : f[i] <= m
    BY <1>1, <1>2, GreatestOfRow
  <1>4. m \in S /\ \A y \in S : y <= m
    BY <1>1, <1>2, <1>3
  <1>5. S \subseteq Nat
    BY <1>1, <1>2
  <1> HIDE DEF S
  <1>6. Greatest(S) \in Nat
    BY <1>4, <1>5, GreatestIs
  <1>7. NewN(arts) = 1 + Greatest(S)
    BY DEF NewN, S
  <1> QED
    BY <1>6, <1>7

\* and what a worker submits is an artifact.
LEMMA ArtifactType ==
  ASSUME NEW arts \in Seq(Artifacts), NEW kind \in Kinds, NEW verdict \in Verdicts
  PROVE  /\ Artifact(arts, kind, verdict) \in Artifacts
         /\ Artifact(arts, kind, verdict).kind = kind
         /\ Artifact(arts, kind, verdict).verdict = verdict
         /\ Artifact(arts, kind, verdict).who = 0
  BY NewNType DEF Artifact, Artifacts

(* ---- the panel ----------------------------------------------------------------- *)

\* Two different things are two.
LEMMA TwoElements ==
  ASSUME NEW i, NEW j, j # i
  PROVE  Cardinality({i} \cup {j}) = 2
  <1>1. IsFiniteSet({i}) /\ Cardinality({i}) = 1
    BY FS_Singleton
  <1>2. Cardinality({i} \cup {j}) = IF j \in {i} THEN Cardinality({i}) ELSE Cardinality({i}) + 1
    BY <1>1, FS_AddElement
  <1> QED
    BY <1>1, <1>2

\* The votes of a cycle are those of the first reviewers of the panel, one each.
LEMMA VotesCounted ==
  ASSUME NEW arts \in Seq(Artifacts), Good(arts), NEW k \in Reviews, NEW c
  PROVE  /\ Cardinality(Votes(arts, k, c)) \in 0 .. Panel[k]
         /\ Voters(arts, k, c) = 1 .. Cardinality(Votes(arts, k, c))
  <1> DEFINE V == Votes(arts, k, c)
  <1>1. V = {i \in 1 .. Len(arts) : arts[i].kind = k /\ arts[i].cycle = c}
    BY DEF Votes
  <1>2. Voters(arts, k, c) = {arts[i].who : i \in V}
    BY DEF Voters
  <1> HIDE DEF V
  <1>3. \A i \in V : arts[i].who \in 1 .. Panel[k]
    BY <1>1 DEF Good, Votings
  <1>4. \A i, j \in V : arts[i].who = arts[j].who => i = j
    BY <1>1, <1>3, ReviewFacts DEF Good, Votings
  <1>5. \A i \in V : arts[i].who = 2 => \E j \in V : arts[j].who = 1
    BY <1>1 DEF Good, Votings, Voted
  <1>6. Panel[k] \in 1 .. 2
    BY ReviewFacts
  <1>7. CASE \A i \in V : arts[i].who # 1
    <2>1. V = {}
      BY <1>3, <1>5, <1>6, <1>7
    <2>2. Cardinality(V) = 0
      BY <2>1, FS_EmptySet
    <2> QED
      BY <1>2, <1>6, <2>1, <2>2 DEF V
  <1>8. CASE \E i \in V : arts[i].who = 1
    <2>1. PICK i \in V : arts[i].who = 1
      BY <1>8
    <2>2. CASE \A j \in V : arts[j].who # 2
      <3>1. V = {i}
        BY <1>3, <1>4, <1>6, <2>1, <2>2
      <3>2. Cardinality(V) = 1
        BY <3>1, FS_Singleton
      <3>3. Voters(arts, k, c) = {1}
        BY <1>2, <2>1, <3>1
      <3> QED
        BY <1>6, <3>2, <3>3 DEF V
    <2>3. CASE \E j \in V : arts[j].who = 2
      <3>1. PICK j \in V : arts[j].who = 2
        BY <2>3
      <3>2. V = {i} \cup {j} /\ j \notin {i}
        BY <1>3, <1>4, <1>6, <2>1, <3>1
      <3>3. Cardinality(V) = 2
        BY <3>2, TwoElements
      <3>4. Voters(arts, k, c) = {1, 2} /\ Panel[k] = 2
        BY <1>2, <1>3, <1>6, <2>1, <3>1, <3>2
      <3> QED
        BY <3>3, <3>4 DEF V
    <2> QED
      BY <2>2, <2>3
  <1> QED
    BY <1>7, <1>8

\* Two acceptances in a cycle of the plan review are those of two reviewers.
LEMMA TwoApprovals ==
  ASSUME NEW arts \in Seq(Artifacts), Good(arts), NEW c,
         Approvals(arts, "change_plan_review", c) >= 2
  PROVE  Cardinality({arts[i].who : i \in
           {j \in Votes(arts, "change_plan_review", c) : arts[j].verdict = "accepted"}}) >= 2
  <1> DEFINE k == "change_plan_review"
             A == {i \in Votes(arts, k, c) : arts[i].verdict = "accepted"}
             W == {arts[i].who : i \in A}
  <1>1. Cardinality(A) >= 2
    BY DEF Approvals
  <1>2. \A i \in A : i \in 1 .. Len(arts) /\ arts[i].kind = k /\ arts[i].cycle = c
    BY DEF Votes
  <1> HIDE DEF A
  <1>3. A # {}
    <2> SUFFICES ASSUME A = {}  PROVE FALSE
      OBVIOUS
    <2>1. Cardinality(A) = 0
      BY FS_EmptySet, Zenon
    <2> QED
      BY <1>1, <2>1
  <1>4. PICK i \in A : TRUE
    BY <1>3
  <1>5. A # {i}
    <2> SUFFICES ASSUME A = {i}  PROVE FALSE
      OBVIOUS
    <2>1. Cardinality(A) = 1
      BY FS_Singleton, Zenon
    <2> QED
      BY <1>1, <2>1
  <1>6. PICK j \in A : j # i
    BY <1>4, <1>5
  <1>7. \A l \in A : arts[l].who \in 1 .. 2
    BY <1>2, ReviewFacts DEF Good, Votings
  <1>8. arts[i].who # arts[j].who
    BY <1>2, <1>6, <1>7 DEF Good, Votings
  <1>9. W = {1} \cup {2}
    BY <1>7, <1>8
  <1> HIDE DEF W
  <1>10. Cardinality(W) = 2
    <2>1. 2 # 1
      OBVIOUS
    <2>2. Cardinality({1} \cup {2}) = 2
      BY <2>1, TwoElements, Zenon
    <2> QED
      BY <1>9, <2>2
  <1> QED
    BY <1>10 DEF A, W

\* A plan that passes assertChangePlanReviewGate is approved.
LEMMA GateApproves ==
  ASSUME NEW arts \in Seq(Artifacts), Good(arts), NEW cycles,
         RequiresChange(arts), PlanGate(arts, cycles)
  PROVE  PlanApproved(arts)
  <1>1. /\ VerdictOf(arts, "change_plan_review") = "accepted"
        /\ Newest(arts, "change_plan_review") > Newest(arts, "disposition")
        /\ PlanReviewCycleBacked(arts, cycles)
    BY DEF PlanGate, PassedReview, After, Reviewed
  <1>2. Has(arts, "change_plan_review") /\ Has(arts, "disposition")
    BY <1>1 DEF VerdictOf, RequiresChange
  <1>3. Latest(arts, "change_plan_review").of = Latest(arts, "disposition").n
    BY <1>1, <1>2, ReviewFacts DEF Good, Informed, Has
  <1>4. PICK i \in DOMAIN cycles :
          /\ cycles[i].kind = "change_plan_review"
          /\ cycles[i].id = Latest(arts, cycles[i].kind).cycle
          /\ Backed(arts, cycles[i]) /\ cycles[i].passed
    BY <1>1 DEF PlanReviewCycleBacked
  <1>5. cycles[i].approvals = Approvals(arts, "change_plan_review", cycles[i].id)
        /\ cycles[i].passed = (cycles[i].approvals >= 2)
    BY <1>4, ReviewFacts DEF Backed
  <1>6. Approvals(arts, "change_plan_review", Latest(arts, "change_plan_review").cycle) >= 2
    BY <1>4, <1>5
  <1> QED
    BY <1>2, <1>3, <1>6, TwoApprovals DEF PlanApproved

(* ---- the inductive invariant ----------------------------------------------------- *)

\* Cycles are counted from 1.
Ids == Nat \ {0}
\* The types of the checkpoint and of the runtime.
Ledgers == {c \in Cycles : c.id # 0}
Attempts == {None} \cup [cycle : Ids, kind : Reviews, index : Nat]
Progresses == {None} \cup [cycle : Ids, next : Ids]
Returns == {"none", "INVESTIGATING", "DISPOSITION", "VERIFYING"}

Checkpoints ==
  [stage : Stages, arts : Seq(Artifacts), cycles : Seq(Ledgers), progress : Progresses,
   cycle : Nat, wait : Waits, ret : Returns]
Runtimes ==
  [stage : Stages, arts : Seq(Artifacts), cycles : Seq(Ledgers), progress : Progresses,
   cycle : Nat, wait : Waits, ret : Returns, attempt : Attempts, resume : BOOLEAN,
   recovered : {"none"} \cup Reviews, next : Nat, passed : BOOLEAN]

\* The stages where review progress may belong to another review than that of the plan.
Foreign(stage, ret) ==
  \/ stage \in {"INVESTIGATING", "IMPLEMENTING"}
  \/ stage = "BLOCKED" /\ ret \in {"none", "INVESTIGATING"}

\* At the others, one reviewer of the plan has answered when the second is next.
Own(stage, ret, arts, progress) ==
  progress # None /\ progress.next = 1 /\ ~ Foreign(stage, ret) =>
    Voters(arts, "change_plan_review", progress.cycle) = {1}

\* A verification comes after the newest implementation, except while it is awaited.
Verifies(stage, arts) ==
  stage \notin {"IMPLEMENTING", "VERIFYING"} /\ Newest(arts, "implementation") # 0 =>
    Newest(arts, "verification") > Newest(arts, "implementation")

\* What holds of a checkpoint and of a runtime alike.
RunInv(r) ==
  /\ Good(r.arts) /\ Own(r.stage, r.ret, r.arts, r.progress) /\ Verifies(r.stage, r.arts)

\* The reviewers before an interrupted one have answered in its cycle.
Counted(arts, s) == s # None => Voters(arts, s.kind, s.cycle) = 1 .. s.index

\* Two histories have the same votes.
SameVotes(a, b) == \A k \in Reviews, c \in Nat : Voters(a, k, c) = Voters(b, k, c)

\* The runtime is at the stage of the checkpoint, with its votes and all of its work.
Together(d, m) ==
  d.stage = m.stage /\ SameVotes(d.arts, m.arts) /\ IsKept(d.arts, m.arts)

\* A review has something to review.
HasSubject(m) ==
  /\ m.stage \in DOMAIN ReviewAt
  /\ Newest(m.arts, Reviewed[ReviewAt[m.stage]]) # 0
  /\ m.stage = "DISPOSITION" => RequiresChange(m.arts)

\* The reviewers before the next one have answered.
VotesSoFar(m) ==
  /\ m.cycle \in Ids
  /\ m.next < Panel[ReviewAt[m.stage]] =>
       Voters(m.arts, ReviewAt[m.stage], m.cycle) = 1 .. m.next

\* What AcceptedIsEarned says of the artifacts of an accepted run.
Earned(arts) ==
  /\ ReviewedAsItIs(arts, "investigation_review")
  /\ VerdictOf(arts, "verification") = "accepted"
  /\ RequiresChange(arts) =>
       /\ PlanApproved(arts) /\ ReviewedAsItIs(arts, "change_review")
       /\ After(arts, "verification", "implementation")

\* A sound checkpoint, with the attempt the log shows after it.
Saved(d, s) ==
  d \in Checkpoints /\ RunInv(d) /\ s \in Attempts /\ Counted(d.arts, s)

\* A sound runtime.
Running(m) == m \in Runtimes /\ RunInv(m) /\ Counted(m.arts, m.attempt)

\* The inductive invariant, of the checkpoint, the attempt, the loop and the runtime.
Inv(d, s, p, m) ==
  /\ Saved(d, s) /\ Running(m)
  /\ p \in {"down", "loop", "enter", "review", "decided"}
  /\ p = "down" => m = Idle
  /\ p # "down" => Together(d, m)
  /\ p \in {"enter", "review", "decided"} => HasSubject(m)
  /\ p = "review" => VotesSoFar(m)
  /\ p = "decided" => m.progress = None
  /\ d.stage = "ACCEPTED" => p = "down" /\ Earned(d.arts)

IInv == Inv(disk, session, pc, mem)

\* The stages and their reviews.
LEMMA StageFacts ==
  /\ DOMAIN ReviewAt = {"INVESTIGATING", "DISPOSITION", "IMPLEMENTING"}
  /\ ReviewAt["INVESTIGATING"] = "investigation_review"
  /\ ReviewAt["DISPOSITION"] = "change_plan_review"
  /\ ReviewAt["IMPLEMENTING"] = "change_review"
  /\ ProducedAt["INVESTIGATING"] = "investigation"
  /\ ProducedAt["DISPOSITION"] = "disposition"
  /\ ProducedAt["VERIFYING"] = "verification"
  /\ \A s \in DOMAIN ReviewAt : ReviewAt[s] \in Reviews
  /\ Stages = {"INTAKE", "INVESTIGATING", "DISPOSITION", "IMPLEMENTING", "VERIFYING",
               "WAITING_FOR_USER", "BLOCKED", "ACCEPTED"}
  BY DEF ReviewAt, ProducedAt, Reviews, Panel, Stages

\* A fresh run and a runtime that is not there satisfy the invariant.
LEMMA IdleInv ==
  /\ Blank \in Checkpoints /\ RunInv(Blank) /\ Counted(Blank.arts, None)
  /\ Idle \in Runtimes /\ RunInv(Idle) /\ Counted(Idle.arts, Idle.attempt)
  /\ Idle.arts = << >> /\ Idle.attempt = None /\ Idle.stage = "INTAKE" /\ Blank.arts = << >>
  /\ Blank.stage = "INTAKE"
  <1>1. /\ Blank.stage = "INTAKE" /\ Blank.arts = << >> /\ Blank.cycles = << >>
        /\ Blank.progress = None /\ Blank.cycle = 0 /\ Blank.wait = "none" /\ Blank.ret = "none"
    BY DEF Blank
  <1>2. << >> \in Seq(Artifacts) /\ << >> \in Seq(Ledgers) /\ None \in Progresses /\ None \in Attempts
        /\ "INTAKE" \in Stages /\ "none" \in Waits /\ "none" \in Returns
    BY StageFacts DEF Progresses, Attempts, Waits, Returns
  <1>3. Blank \in Checkpoints
    BY <1>2 DEF Blank, Checkpoints
  <1>4. \A k : Newest(<< >>, k) = 0
    <2>1. \A k : IsNewest(<< >>, k, 0)
      BY DEF IsNewest
    <2> QED
      BY <1>2, <2>1, NewestUnique
  <1>5. Good(<< >>)
    BY <1>4 DEF Good, OneNote, Votings, Informed
  <1>6. RunInv(Blank)
    BY <1>1, <1>4, <1>5 DEF RunInv, Own, Verifies
  <1>7. /\ Idle.stage = "INTAKE" /\ Idle.arts = << >> /\ Idle.cycles = << >>
        /\ Idle.progress = None /\ Idle.attempt = None
    BY <1>1 DEF Idle, Restored
  <1>8. Idle \in Runtimes
    <2>1. (\E i \in DOMAIN Blank.cycles : Blank.cycles[i].id = Blank.cycle) \in BOOLEAN
      OBVIOUS
    <2> QED
      BY <1>1, <1>2, <2>1 DEF Idle, Restored, Runtimes
  <1>9. RunInv(Idle)
    BY <1>4, <1>5, <1>7 DEF RunInv, Own, Verifies
  <1> QED
    BY <1>1, <1>3, <1>6, <1>7, <1>8, <1>9 DEF Counted

\* None is neither an attempt nor progress: its cycle is 0.
LEMMA NoneApart ==
  /\ \A p \in Progresses : p # None => p \in [cycle : Ids, next : Ids]
  /\ \A a \in Attempts : a # None => a \in [cycle : Ids, kind : Reviews, index : Nat]
  /\ None.cycle = 0
  /\ \A p \in Progresses : p.cycle \in Nat
  /\ \A c, n : [cycle |-> c, next |-> n] # None
  BY DEF Progresses, Attempts, None, Ids

\* A new cycle is one no artifact belongs to.
LEMMA FreshCycle ==
  ASSUME mem \in Runtimes
  PROVE  NewCycle \in Ids /\ \A i \in 1 .. Len(mem.arts) : mem.arts[i].cycle # NewCycle
  <1> DEFINE A == {mem.arts[i].cycle : i \in DOMAIN mem.arts}
             B == {mem.cycles[i].id : i \in DOMAIN mem.cycles}
             S == {0, mem.cycle, mem.progress.cycle} \cup A \cup B
             f == [i \in 1 .. Len(mem.arts) |-> mem.arts[i].cycle]
             g == [i \in 1 .. Len(mem.cycles) |-> mem.cycles[i].id]
  <1>1. /\ mem.arts \in Seq(Artifacts) /\ mem.cycles \in Seq(Ledgers) /\ mem.cycle \in Nat
        /\ mem.progress \in Progresses
    BY DEF Runtimes
  <1>2. mem.progress.cycle \in Nat
    BY <1>1, NoneApart
  <1>3. /\ DOMAIN mem.arts = 1 .. Len(mem.arts) /\ Len(mem.arts) \in Nat
        /\ \A i \in 1 .. Len(mem.arts) : mem.arts[i] \in Artifacts
        /\ DOMAIN mem.cycles = 1 .. Len(mem.cycles) /\ Len(mem.cycles) \in Nat
        /\ \A i \in 1 .. Len(mem.cycles) : mem.cycles[i] \in Ledgers
    BY <1>1
  <1>4. \A i \in 1 .. Len(mem.arts) : f[i] = mem.arts[i].cycle /\ f[i] \in Nat
    BY <1>3 DEF Artifacts
  <1>5. \A i \in 1 .. Len(mem.cycles) : g[i] = mem.cycles[i].id /\ g[i] \in Nat
    BY <1>3 DEF Ledgers, Cycles
  <1> HIDE DEF f, g
  <1>6. PICK a \in Nat : (a = 0 \/ \E i \in 1 .. Len(mem.arts) : a = f[i])
                         /\ \A i \in 1 .. Len(mem.arts) : f[i] <= a
    BY <1>3, <1>4, GreatestOfRow
  <1>7. PICK b \in Nat : (b = 0 \/ \E i \in 1 .. Len(mem.cycles) : b = g[i])
                         /\ \A i \in 1 .. Len(mem.cycles) : g[i] <= b
    BY <1>3, <1>5, GreatestOfRow
  <1>8. a \in S /\ b \in S
    BY <1>3, <1>4, <1>5, <1>6, <1>7
  <1>9. \A y \in A : y \in Nat /\ y <= a
    BY <1>3, <1>4, <1>6
  <1>10. \A y \in B : y \in Nat /\ y <= b
    BY <1>3, <1>5, <1>7
  <1>11. mem.cycle \in S /\ mem.progress.cycle \in S
    OBVIOUS
  <1>12. \A y \in S : y = 0 \/ y = mem.cycle \/ y = mem.progress.cycle \/ y \in A \/ y \in B
    OBVIOUS
  <1>13. \A i \in 1 .. Len(mem.arts) : mem.arts[i].cycle \in S
    BY <1>3
  <1>14. NewCycle = 1 + Greatest(S)
    BY DEF NewCycle
  <1> HIDE DEF S, A, B
  <1>15. \E m \in {a, b, mem.cycle, mem.progress.cycle} :
            a <= m /\ b <= m /\ mem.cycle <= m /\ mem.progress.cycle <= m
    BY <1>1, <1>2
  <1>16. PICK m \in S : m \in Nat /\ a <= m /\ b <= m /\ mem.cycle <= m /\ mem.progress.cycle <= m
    BY <1>1, <1>2, <1>8, <1>11, <1>15
  <1>17. \A y \in S : y \in Nat /\ y <= m
    BY <1>1, <1>2, <1>9, <1>10, <1>12, <1>16
  <1>18. Greatest(S) \in S /\ \A y \in S : y <= Greatest(S)
    BY <1>17, GreatestIs
  <1> QED
    BY <1>13, <1>14, <1>17, <1>18 DEF Ids

\* The cycle a review continues or opens is a cycle.
LEMMA CycleType ==
  ASSUME mem \in Runtimes, NEW kind
  PROVE  CycleOf(kind) \in Ids
  <1> DEFINE recorded == {i \in DOMAIN mem.cycles : mem.cycles[i].kind = kind}
  <1>1. /\ mem.cycles \in Seq(Ledgers) /\ mem.progress \in Progresses /\ mem.attempt \in Attempts
    BY DEF Runtimes
  <1>2. CASE mem.attempt # None
    BY <1>1, <1>2, NoneApart DEF CycleOf
  <1>3. CASE mem.attempt = None /\ mem.progress # None
    BY <1>1, <1>3, NoneApart DEF CycleOf
  <1>4. CASE mem.attempt = None /\ mem.progress = None /\ mem.resume /\ recorded # {}
    <2>1. CycleOf(kind) = mem.cycles[Greatest(recorded)].id
      BY <1>4 DEF CycleOf
    <2>2. recorded \subseteq 1 .. Len(mem.cycles) /\ Len(mem.cycles) \in Nat
      BY <1>1
    <2> HIDE DEF recorded
    <2>3. \E x \in recorded : \A y \in recorded : y <= x
      BY <1>4, <2>2, LastExists
    <2>4. Greatest(recorded) \in 1 .. Len(mem.cycles)
      BY <2>2, <2>3, GreatestIs
    <2>5. mem.cycles[Greatest(recorded)] \in Ledgers
      BY <1>1, <2>4
    <2> QED
      BY <2>1, <2>5 DEF Ledgers, Cycles, Ids
  <1>5. CASE mem.attempt = None /\ mem.progress = None /\ ~ (mem.resume /\ recorded # {})
    BY <1>5, FreshCycle DEF CycleOf
  <1> QED
    BY <1>2, <1>3, <1>4, <1>5

\* Whoever is asked next is the first who has not answered in the cycle.
LEMMA NextInLine ==
  ASSUME Running(mem), mem.stage \in DOMAIN ReviewAt,
         NEW first, first = FirstReviewer(ReviewAt[mem.stage], CycleOf(ReviewAt[mem.stage])),
         first < Panel[ReviewAt[mem.stage]],
         mem.attempt # None => mem.attempt.kind = ReviewAt[mem.stage]
  PROVE  Voters(mem.arts, ReviewAt[mem.stage], CycleOf(ReviewAt[mem.stage])) = 1 .. first
  <1> DEFINE kind == ReviewAt[mem.stage]
             cycle == CycleOf(kind)
  <1>1. /\ mem.arts \in Seq(Artifacts) /\ mem.progress \in Progresses /\ mem.attempt \in Attempts
        /\ Good(mem.arts)
    BY DEF Running, Runtimes, RunInv
  <1>2. kind \in Reviews /\ cycle \in Ids
    BY StageFacts, CycleType DEF Running
  <1>3. CASE mem.attempt # None
    <2>1. first = mem.attempt.index /\ cycle = mem.attempt.cycle
      BY <1>3 DEF FirstReviewer, CycleOf
    <2> QED
      BY <1>3, <2>1 DEF Running, Counted
  <1>4. CASE mem.attempt = None /\ mem.progress # None
    <2>1. first = mem.progress.next /\ cycle = mem.progress.cycle
      BY <1>4 DEF FirstReviewer, CycleOf
    <2>2. mem.progress.next \in Ids
      BY <1>1, <1>4, NoneApart
    <2>3. first = 1 /\ kind = "change_plan_review"
      BY <1>2, <2>1, <2>2, ReviewFacts DEF Ids
    <2>4. mem.stage = "DISPOSITION"
      BY <2>3, StageFacts
    <2>5. Voters(mem.arts, "change_plan_review", mem.progress.cycle) = {1}
      BY <1>4, <2>1, <2>3, <2>4 DEF Running, RunInv, Own, Foreign
    <2> QED
      BY <2>1, <2>3, <2>5
  <1>5. CASE mem.attempt = None /\ mem.progress = None
    <2>1. first = Cardinality(Votes(mem.arts, kind, cycle))
      <3>1. mem.progress.cycle # cycle
        BY <1>2, <1>5, NoneApart DEF Ids
      <3> QED
        BY <1>5, <3>1 DEF FirstReviewer
    <2> QED
      BY <1>1, <1>2, <2>1, VotesCounted
  <1> QED
    BY <1>3, <1>4, <1>5

(* ---- the steps that move, stop or ask ------------------------------------------- *)

\* A transition writes a checkpoint of the artifacts at the new stage.
LEMMA TransitionedIs ==
  ASSUME NEW m \in Runtimes, NEW to \in Stages
  PROVE  /\ Transitioned(m, to) \in Checkpoints
         /\ Transitioned(m, to).stage = to /\ Transitioned(m, to).arts = m.arts
         /\ Transitioned(m, to).progress = None
  BY DEF Transitioned, Runtimes, Checkpoints, Progresses, Returns, Waits

\* The runtime after a transition.
Moved(m, to) ==
  [m EXCEPT !.stage = to, !.attempt = None, !.cycle = 0, !.resume = FALSE,
            !.wait = IF to = "WAITING_FOR_USER" THEN @ ELSE "none"]

\* The runtime after a transition, which keeps the review progress.
LEMMA MovedIs ==
  ASSUME NEW m \in Runtimes, NEW to \in Stages
  PROVE  /\ Moved(m, to) \in Runtimes
         /\ Moved(m, to).stage = to /\ Moved(m, to).arts = m.arts
         /\ Moved(m, to).progress = m.progress /\ Moved(m, to).attempt = None
         /\ Moved(m, to).ret = m.ret
  BY DEF Moved, Runtimes, Attempts, Waits

\* A transition keeps the invariant when what it writes is sound.
LEMMA MoveKeeps ==
  ASSUME Inv(disk, session, pc, mem), NEW m \in Runtimes, NEW to \in Stages,
         NEW then \in {"loop", "down"},
         Good(m.arts), Own(to, m.ret, m.arts, m.progress), Verifies(to, m.arts),
         to = "ACCEPTED" => Earned(m.arts), IsKept(disk.arts, m.arts),
         Move(m, to, then)
  PROVE  Inv(disk', session', pc', mem') /\ IsKept(disk.arts, disk'.arts)
  <1>1. /\ disk' = Transitioned(m, to) /\ session' = None
        /\ pc' = IF to = "ACCEPTED" THEN "down" ELSE then
        /\ mem' = IF pc' = "down" THEN Idle ELSE Moved(m, to)
    BY DEF Move, Save, Moved
  <1>2. /\ disk' \in Checkpoints /\ disk'.stage = to /\ disk'.arts = m.arts
        /\ disk'.progress = None
    BY <1>1, TransitionedIs
  <1>3. Saved(disk', session')
    BY <1>1, <1>2 DEF Saved, RunInv, Own, Counted, Attempts
  <1>4. CASE pc' = "down"
    <2>1. Running(mem') /\ mem' = Idle
      BY <1>1, <1>4, IdleInv DEF Running
    <2> QED
      BY <1>2, <1>3, <1>4, <2>1 DEF Inv
  <1>5. CASE pc' # "down"
    <2>1. pc' = "loop" /\ mem' = Moved(m, to) /\ to # "ACCEPTED"
      BY <1>1, <1>5
    <2>2. /\ mem' \in Runtimes /\ mem'.stage = to /\ mem'.arts = m.arts
          /\ mem'.progress = m.progress /\ mem'.attempt = None /\ mem'.ret = m.ret
      BY <2>1, MovedIs
    <2>3. Running(mem')
      BY <2>2 DEF Running, RunInv, Counted
    <2>4. m.arts \in Seq(Artifacts)
      BY DEF Runtimes
    <2>5. Together(disk', mem')
      BY <1>2, <2>2, <2>4, KeptSelf DEF Together, SameVotes
    <2> QED
      BY <1>2, <1>3, <2>1, <2>3, <2>5 DEF Inv
  <1> QED
    BY <1>2, <1>4, <1>5

\* The end of the loop keeps it: what counts is on the disk.
LEMMA StopKeeps ==
  ASSUME Saved(disk', session'), disk'.stage = "ACCEPTED" => Earned(disk'.arts), Stop
  PROVE  Inv(disk', session', pc', mem')
  BY IdleInv DEF Stop, Inv, Running

\* The runtime has gained one artifact of a kind that is no review.
Grown(m, kind) ==
  /\ m \in Runtimes /\ Good(m.arts) /\ SameWork(mem.arts, m.arts, kind) /\ IsKept(mem.arts, m.arts)
  /\ Newest(m.arts, kind) \in Nat \ {0}
  /\ \A k : k # kind => Newest(m.arts, kind) > Newest(m.arts, k)
  /\ m.stage = mem.stage /\ m.ret = mem.ret /\ m.progress = mem.progress
  /\ m.attempt = mem.attempt

\* A worker's artifact makes the runtime grow by one of its kind.
LEMMA WithGrows ==
  ASSUME Running(mem), NEW x \in Artifacts, x.kind \notin Reviews \cup {Note}, x.who = 0
  PROVE  Grown(With(x), x.kind) /\ With(x).arts = Append(mem.arts, x)
  <1>1. mem \in Runtimes /\ mem.arts \in Seq(Artifacts) /\ Good(mem.arts)
    BY DEF Running, RunInv, Runtimes
  <1> DEFINE m == With(x)
             a == Append(mem.arts, x)
  <1>2. a \in Seq(Artifacts) /\ Len(mem.arts) \in Nat /\ Len(a) = Len(mem.arts) + 1
    BY <1>1
  <1>3. /\ m \in Runtimes /\ m.arts = a
        /\ m.stage = mem.stage /\ m.ret = mem.ret /\ m.progress = mem.progress
        /\ m.attempt = mem.attempt
    BY <1>1, <1>2 DEF With, Runtimes
  <1>4. Good(a)
    BY <1>1, AppendedGood
  <1>5. SameWork(mem.arts, a, x.kind) /\ IsKept(mem.arts, a)
    BY <1>1, AppendedSame, AppendedKept
  <1>6. Newest(a, x.kind) = Len(mem.arts) + 1
    BY <1>1, NewestAppended
  <1>7. \A k : k # x.kind => Newest(a, k) \in Nat /\ Newest(a, k) <= Len(mem.arts)
    BY <1>1, <1>2, NewestAppended, NewestIs DEF IsNewest
  <1> HIDE DEF m, a
  <1>8. Grown(m, x.kind)
    BY <1>2, <1>3, <1>4, <1>5, <1>6, <1>7 DEF Grown
  <1> QED
    BY <1>3, <1>8 DEF m, a

\* The kinds of artifacts that workers other than reviewers submit.
Business == {"intake", "investigation", "disposition", "implementation", "verification"}

\* Progress that counts at one stage counts at any.
LEMMA OwnAnywhere ==
  ASSUME NEW s, NEW r, NEW arts, NEW progress, Own(s, r, arts, progress), ~ Foreign(s, r)
  PROVE  \A s2, r2 : Own(s2, r2, arts, progress)
  BY DEF Own

\* A runtime that has grown is as sound as it was.
LEMMA GrownFacts ==
  ASSUME Inv(disk, session, pc, mem), pc # "down", NEW kind \in Business, NEW m, Grown(m, kind)
  PROVE  /\ m \in Runtimes /\ m.arts \in Seq(Artifacts) /\ Good(m.arts)
         /\ IsKept(disk.arts, m.arts) /\ SameVotes(disk.arts, m.arts)
         /\ Counted(m.arts, m.attempt)
         /\ Own(mem.stage, mem.ret, m.arts, m.progress)
         /\ mem.stage \notin {"IMPLEMENTING", "VERIFYING"} /\ kind # "implementation"
              => \A s : Verifies(s, m.arts)
         /\ kind = "verification" => \A s : Verifies(s, m.arts)
  <1>1. /\ m \in Runtimes /\ m.arts \in Seq(Artifacts) /\ Good(m.arts)
        /\ disk.arts \in Seq(Artifacts) /\ mem.arts \in Seq(Artifacts)
        /\ mem.attempt \in Attempts /\ mem.progress \in Progresses
    BY DEF Grown, Inv, Saved, Running, Runtimes, Checkpoints
  <1>2. kind \notin Reviews /\ kind \in Kinds
    BY ReviewFacts, KindFacts DEF Business
  <1>3. IsKept(disk.arts, m.arts)
    BY <1>1, KeptOn DEF Grown, Inv, Together
  <1>4. SameVotes(mem.arts, m.arts)
    BY <1>2 DEF Grown, SameWork, SameVotes
  <1>5. SameVotes(disk.arts, m.arts)
    BY <1>4 DEF Inv, Together, SameVotes
  <1>6. Counted(m.arts, m.attempt)
    <2>1. Counted(mem.arts, mem.attempt) /\ m.attempt = mem.attempt
      BY DEF Inv, Running, Grown
    <2>2. CASE mem.attempt # None
      <3>1. mem.attempt.kind \in Reviews /\ mem.attempt.cycle \in Nat
        BY <1>1, <2>2, NoneApart DEF Ids
      <3> QED
        BY <1>4, <2>1, <3>1 DEF Counted, SameVotes
    <2> QED
      BY <2>1, <2>2 DEF Counted
  <1>7. Own(mem.stage, mem.ret, m.arts, m.progress)
    <2>1. Own(mem.stage, mem.ret, mem.arts, mem.progress) /\ m.progress = mem.progress
      BY DEF Inv, Running, RunInv, Grown
    <2>2. mem.progress.cycle \in Nat /\ "change_plan_review" \in Reviews
      BY <1>1, NoneApart, ReviewFacts
    <2> QED
      BY <1>4, <2>1, <2>2 DEF Own, SameVotes
  <1>8. ASSUME mem.stage \notin {"IMPLEMENTING", "VERIFYING"}, kind # "implementation", NEW s
        PROVE  Verifies(s, m.arts)
    <2>1. Verifies(mem.stage, mem.arts)
      BY DEF Inv, Running, RunInv
    <2>2. CASE kind = "verification"
      BY <2>2 DEF Grown, Verifies
    <2>3. CASE kind # "verification"
      <3>1. "verification" \in Kinds \ {kind} /\ "implementation" \in Kinds \ {kind}
        BY <1>8, <2>3, KindFacts
      <3> QED
        BY <1>8, <2>1, <3>1 DEF Grown, SameWork, Verifies
    <2> QED
      BY <2>2, <2>3
  <1>9. ASSUME kind = "verification", NEW s  PROVE Verifies(s, m.arts)
    BY <1>9 DEF Grown, Verifies
  <1> QED
    BY <1>1, <1>3, <1>5, <1>6, <1>7, <1>8, <1>9

\* Entering the review of what was just submitted keeps the invariant,
LEMMA ReviewKeeps ==
  ASSUME Inv(disk, session, pc, mem), pc = "loop", NEW kind \in Business, NEW m, Grown(m, kind),
         HasSubject(m), Verifies(m.stage, m.arts), Review(m)
  PROVE  Inv(disk', session', pc', mem') /\ IsKept(disk.arts, disk'.arts)
  <1>1. pc' = "enter" /\ mem' = m /\ disk' = disk /\ session' = session
    BY DEF Review
  <1>2. /\ m \in Runtimes /\ Good(m.arts)
        /\ IsKept(disk.arts, m.arts) /\ SameVotes(disk.arts, m.arts)
        /\ Counted(m.arts, m.attempt) /\ Own(mem.stage, mem.ret, m.arts, m.progress)
    BY GrownFacts
  <1>3. Running(m)
    BY <1>2 DEF Running, RunInv, Grown
  <1>4. Together(disk, m)
    BY <1>2 DEF Together, Inv, Grown
  <1>5. disk.arts \in Seq(Artifacts)
    BY DEF Inv, Saved, Checkpoints
  <1>6. IsKept(disk.arts, disk'.arts)
    BY <1>1, <1>5, KeptSelf
  <1> QED
    BY <1>1, <1>3, <1>4, <1>6 DEF Inv

\* blocking the run does,
LEMMA BlockKeeps ==
  ASSUME Inv(disk, session, pc, mem), pc = "loop", NEW kind \in Business, NEW m, Grown(m, kind),
         NEW ret \in Returns \ {"none"}, ~ Foreign(mem.stage, mem.ret) \/ ret = "INVESTIGATING",
         Verifies("BLOCKED", m.arts), Block(m, ret)
  PROVE  Inv(disk', session', pc', mem') /\ IsKept(disk.arts, disk'.arts)
  <1> DEFINE x == Artifact(m.arts, Note, "blocked")
             a == Append(WithoutNote(m.arts), x)
             b == [m EXCEPT !.ret = ret, !.arts = a]
  <1>1. /\ m \in Runtimes /\ m.arts \in Seq(Artifacts) /\ Good(m.arts)
        /\ IsKept(disk.arts, m.arts) /\ Own(mem.stage, mem.ret, m.arts, m.progress)
        /\ disk.arts \in Seq(Artifacts)
    BY GrownFacts DEF Inv, Saved, Checkpoints
  <1>2. x \in Artifacts /\ x.kind = Note /\ x.who = 0
    BY <1>1, ArtifactType, KindFacts DEF Note, Verdicts
  <1> HIDE DEF x
  <1>3. a \in Seq(Artifacts) /\ Good(a) /\ SameWork(m.arts, a, Note)
    BY <1>1, <1>2, NotedGood
  <1>4. IsKept(m.arts, a)
    BY <1>1, <1>2, NotedKept DEF Good
  <1>5. IsKept(disk.arts, a)
    BY <1>1, <1>3, <1>4, KeptOn
  <1>6. Move(b, "BLOCKED", "loop")
    BY DEF Block, x, Note
  <1> HIDE DEF a
  <1>7. b \in Runtimes /\ b.arts = a /\ b.ret = ret /\ b.progress = m.progress
    BY <1>1, <1>3 DEF Runtimes
  <1> HIDE DEF b
  <1>8. Own("BLOCKED", ret, a, m.progress)
    <2>1. CASE ret = "INVESTIGATING"
      BY <2>1 DEF Own, Foreign
    <2>2. CASE ~ Foreign(mem.stage, mem.ret)
      <3>1. Own("BLOCKED", ret, m.arts, m.progress)
        BY <1>1, <2>2, OwnAnywhere
      <3>2. m.progress.cycle \in Nat /\ "change_plan_review" \in Reviews \ {Note}
        BY <1>1, NoneApart, ReviewFacts DEF Runtimes, Note
      <3> QED
        BY <1>3, <3>1, <3>2 DEF Own, SameWork
    <2> QED
      BY <2>1, <2>2
  <1>9. Verifies("BLOCKED", a)
    <2>1. "verification" \in Kinds \ {Note} /\ "implementation" \in Kinds \ {Note}
      BY KindFacts DEF Note
    <2> QED
      BY <1>3, <2>1 DEF SameWork, Verifies
  <1>10. "BLOCKED" \in Stages
    BY StageFacts
  <1> QED
    BY <1>3, <1>5, <1>6, <1>7, <1>8, <1>9, <1>10, MoveKeeps

\* waiting for the user does,
LEMMA WaitKeeps ==
  ASSUME Inv(disk, session, pc, mem), pc = "loop", NEW kind \in Business, NEW m, Grown(m, kind),
         NEW wait \in Waits, ~ Foreign(mem.stage, mem.ret),
         Verifies("WAITING_FOR_USER", m.arts), Wait(m, wait)
  PROVE  Inv(disk', session', pc', mem') /\ IsKept(disk.arts, disk'.arts)
  <1> DEFINE b == [m EXCEPT !.wait = wait]
  <1>1. /\ m \in Runtimes /\ Good(m.arts)
        /\ IsKept(disk.arts, m.arts) /\ Own(mem.stage, mem.ret, m.arts, m.progress)
    BY GrownFacts
  <1>2. b \in Runtimes /\ b.arts = m.arts /\ b.ret = m.ret /\ b.progress = m.progress
    BY <1>1 DEF Runtimes
  <1>3. Move(b, "WAITING_FOR_USER", "loop")
    BY DEF Wait
  <1>4. Own("WAITING_FOR_USER", m.ret, m.arts, m.progress)
    BY <1>1, OwnAnywhere
  <1>5. "WAITING_FOR_USER" \in Stages
    BY StageFacts
  <1> HIDE DEF b
  <1> QED
    BY <1>1, <1>2, <1>3, <1>4, <1>5, MoveKeeps

\* and going on to another stage does.
LEMMA GoKeeps ==
  ASSUME Inv(disk, session, pc, mem), pc = "loop", NEW kind \in Business, NEW m, Grown(m, kind),
         NEW to \in Stages \ {"ACCEPTED"},
         ~ Foreign(mem.stage, mem.ret) \/ to = "INVESTIGATING",
         Verifies(to, m.arts), Move(m, to, "loop")
  PROVE  Inv(disk', session', pc', mem') /\ IsKept(disk.arts, disk'.arts)
  <1>1. /\ m \in Runtimes /\ Good(m.arts)
        /\ IsKept(disk.arts, m.arts) /\ Own(mem.stage, mem.ret, m.arts, m.progress)
    BY GrownFacts
  <1>2. Own(to, m.ret, m.arts, m.progress)
    <2>1. CASE to = "INVESTIGATING"
      BY <2>1 DEF Own, Foreign
    <2>2. CASE ~ Foreign(mem.stage, mem.ret)
      BY <1>1, <2>2, OwnAnywhere
    <2> QED
      BY <2>1, <2>2
  <1> QED
    BY <1>1, <1>2, MoveKeeps

\* What a worker submits is one artifact of its kind, with its verdict.
LEMMA SubmittedGrows ==
  ASSUME Inv(disk, session, pc, mem), NEW kind \in Business, NEW verdict \in Verdicts
  PROVE  /\ Grown(Submitted(kind, verdict), kind)
         /\ VerdictOf(Submitted(kind, verdict).arts, kind) = verdict
  <1> DEFINE x == Artifact(mem.arts, kind, verdict)
  <1>1. mem.arts \in Seq(Artifacts) /\ Running(mem)
    BY DEF Inv, Running, Runtimes
  <1>2. kind \in Kinds /\ kind \notin Reviews \cup {Note}
    BY ReviewFacts, KindFacts DEF Business, Note
  <1>3. x \in Artifacts /\ x.kind = kind /\ x.verdict = verdict /\ x.who = 0
    BY <1>1, <1>2, ArtifactType
  <1>4. Submitted(kind, verdict) = With(x)
    BY DEF Submitted
  <1> HIDE DEF x
  <1>5. Grown(With(x), kind) /\ With(x).arts = Append(mem.arts, x)
    BY <1>1, <1>2, <1>3, WithGrows
  <1>6. Newest(Append(mem.arts, x), kind) = Len(mem.arts) + 1 /\ Len(mem.arts) \in Nat
    BY <1>1, <1>3, NewestAppended
  <1>7. Append(mem.arts, x)[Len(mem.arts) + 1] = x
    BY <1>1
  <1>8. VerdictOf(Append(mem.arts, x), kind) = verdict
    BY <1>3, <1>6, <1>7 DEF VerdictOf, Has, Latest
  <1> QED
    BY <1>4, <1>5, <1>8

\* The revision of the newest artifact of a kind is a number.
LEMMA RevType ==
  ASSUME NEW arts \in Seq(Artifacts), NEW kind
  PROVE  RevOf(arts, kind) \in Nat
  <1>1. CASE Newest(arts, kind) # 0
    <2>1. Newest(arts, kind) \in 1 .. Len(arts)
      BY <1>1, NewestIs DEF IsNewest
    <2>2. arts[Newest(arts, kind)] \in Artifacts
      BY <2>1
    <2> QED
      BY <2>2 DEF RevOf, Has, Latest, Artifacts
  <1> QED
    BY <1>1 DEF RevOf, Has

\* So is what it submits for a revision,
LEMMA RevisedGrows ==
  ASSUME Inv(disk, session, pc, mem), NEW kind \in Business, NEW verdict \in Verdicts,
         NEW r \in Nat
  PROVE  Grown(With([Artifact(mem.arts, kind, verdict) EXCEPT !.rev = r]), kind)
  <1> DEFINE y == Artifact(mem.arts, kind, verdict)
             x == [y EXCEPT !.rev = r]
  <1>1. mem.arts \in Seq(Artifacts) /\ Running(mem)
    BY DEF Inv, Running, Runtimes
  <1>2. kind \in Kinds /\ kind \notin Reviews \cup {Note}
    BY ReviewFacts, KindFacts DEF Business, Note
  <1>3. y \in Artifacts /\ y.kind = kind /\ y.who = 0
    BY <1>1, <1>2, ArtifactType
  <1> HIDE DEF y
  <1>4. x \in Artifacts /\ x.kind = kind /\ x.who = 0
    BY <1>3 DEF Artifacts
  <1> HIDE DEF x
  <1>5. Grown(With(x), kind)
    BY <1>1, <1>2, <1>4, WithGrows
  <1> QED
    BY <1>5 DEF x, y

\* and what the verifier does.
LEMMA VerifiedGrows ==
  ASSUME Inv(disk, session, pc, mem), NEW verdict \in Verdicts
  PROVE  Grown(Verified(verdict), "verification")
  <1>1. RevOf(mem.arts, "implementation") \in Nat
    BY RevType DEF Inv, Running, Runtimes
  <1> QED
    BY <1>1, RevisedGrows DEF Verified, Business

\* The intake worker's submission.
LEMMA IntakeKeeps ==
  ASSUME Inv(disk, session, pc, mem), Intake
  PROVE  Inv(disk', session', pc', mem') /\ IsKept(disk.arts, disk'.arts)
  <1> DEFINE m == Submitted("intake", "accepted")
  <1>1. mem.stage = "INTAKE" /\ pc = "loop" /\ Move(m, "INVESTIGATING", "loop")
    BY DEF Intake, Executing, Working
  <1>2. Grown(m, "intake") /\ "intake" \in Business
    BY SubmittedGrows DEF Business, Verdicts
  <1> HIDE DEF m
  <1>3. Verifies("INVESTIGATING", m.arts)
    BY <1>1, <1>2, GrownFacts
  <1>4. "INVESTIGATING" \in Stages \ {"ACCEPTED"}
    BY StageFacts
  <1> QED
    BY <1>1, <1>2, <1>3, <1>4, GoKeeps

\* The investigator's submission, or its blocker.
LEMMA InvestigateKeeps ==
  ASSUME Inv(disk, session, pc, mem), Investigate
  PROVE  Inv(disk', session', pc', mem') /\ IsKept(disk.arts, disk'.arts)
  <1>1. mem.stage = "INVESTIGATING" /\ pc = "loop"
    BY DEF Investigate, Executing, Working
  <1>2. ASSUME NEW m, Grown(m, "investigation"), Review(m) \/ Block(m, "INVESTIGATING")
        PROVE  Inv(disk', session', pc', mem') /\ IsKept(disk.arts, disk'.arts)
    <2>1. "investigation" \in Business
      BY DEF Business
    <2>2. \A s : Verifies(s, m.arts)
      BY <1>1, <1>2, <2>1, GrownFacts
    <2>3. HasSubject(m)
      BY <1>1, <1>2, StageFacts, ReviewFacts DEF HasSubject, Grown
    <2>4. "INVESTIGATING" \in Returns \ {"none"}
      BY DEF Returns
    <2>5. CASE Review(m)
      BY <1>1, <1>2, <2>1, <2>2, <2>3, <2>5, ReviewKeeps
    <2>6. CASE Block(m, "INVESTIGATING")
      BY <1>1, <1>2, <2>1, <2>2, <2>4, <2>6, BlockKeeps
    <2> QED
      BY <1>2, <2>5, <2>6
  <1>3. \A v \in Verdicts : Grown(Submitted("investigation", v), "investigation")
    BY SubmittedGrows DEF Business
  <1>4. \E v \in Verdicts : \/ Review(Submitted("investigation", v))
                            \/ Block(Submitted("investigation", v), "INVESTIGATING")
    BY DEF Investigate, Verdicts
  <1> QED
    BY <1>2, <1>3, <1>4

\* What a worker may conclude is among its conclusions.
LEMMA PossibleIs ==
  ASSUME NEW verdicts
  PROVE  Possible(verdicts) \subseteq verdicts
  BY DEF Possible

\* The disposition, wherever its plan leads.
LEMMA DisposeKeeps ==
  ASSUME Inv(disk, session, pc, mem), Dispose
  PROVE  Inv(disk', session', pc', mem') /\ IsKept(disk.arts, disk'.arts)
  <1>1. mem.stage = "DISPOSITION" /\ pc = "loop" /\ ~ Foreign(mem.stage, mem.ret)
    BY DEF Dispose, Executing, Working, Foreign
  <1> DEFINE S(plan) == Submitted("disposition", plan)
  <1>2. PICK plan \in AllPlans :
          CASE plan = "insufficient" -> Block(S(plan), "DISPOSITION")
            [] plan \in {"wait", "waitRepair"} -> Wait(S(plan), "disposition_decision")
            [] plan = "external" -> Wait(S(plan), "external_action_completion")
            [] plan = "repair" -> Review(S(plan))
            [] plan = "explain" -> Move(S(plan), "VERIFYING", "loop")
    BY PossibleIs DEF Dispose
  <1> DEFINE m == S(plan)
  <1>3. Grown(m, "disposition") /\ VerdictOf(m.arts, "disposition") = plan
    BY SubmittedGrows DEF Business, Verdicts
  <1>4. \/ Block(m, "DISPOSITION")
        \/ Wait(m, "disposition_decision") \/ Wait(m, "external_action_completion")
        \/ plan = "repair" /\ Review(m)
        \/ Move(m, "VERIFYING", "loop")
    BY <1>2 DEF AllPlans
  <1> HIDE DEF m, S
  <1>5. "disposition" \in Business
    BY DEF Business
  <1>6. \A s : Verifies(s, m.arts)
    BY <1>1, <1>3, <1>5, GrownFacts
  <1>7. CASE Block(m, "DISPOSITION")
    <2>1. "DISPOSITION" \in Returns \ {"none"}
      BY DEF Returns
    <2> QED
      BY <1>1, <1>3, <1>5, <1>6, <1>7, <2>1, BlockKeeps
  <1>8. CASE Wait(m, "disposition_decision") \/ Wait(m, "external_action_completion")
    <2>1. "disposition_decision" \in Waits /\ "external_action_completion" \in Waits
      BY DEF Waits
    <2> QED
      BY <1>1, <1>3, <1>5, <1>6, <1>8, <2>1, WaitKeeps
  <1>9. CASE plan = "repair" /\ Review(m)
    <2>1. HasSubject(m)
      BY <1>1, <1>3, <1>9, StageFacts, ReviewFacts DEF HasSubject, Grown, RequiresChange
    <2> QED
      BY <1>1, <1>3, <1>5, <1>6, <1>9, <2>1, ReviewKeeps
  <1>10. CASE Move(m, "VERIFYING", "loop")
    <2>1. "VERIFYING" \in Stages \ {"ACCEPTED"}
      BY StageFacts
    <2> QED
      BY <1>1, <1>3, <1>5, <1>6, <1>10, <2>1, GoKeeps
  <1> QED
    BY <1>4, <1>7, <1>8, <1>9, <1>10

\* The implementation.
LEMMA ImplementKeeps ==
  ASSUME Inv(disk, session, pc, mem), Implement
  PROVE  Inv(disk', session', pc', mem') /\ IsKept(disk.arts, disk'.arts)
  <1>1. mem.stage = "IMPLEMENTING" /\ pc = "loop"
    BY DEF Implement, Executing, Working
  <1>2. PICK r \in Revisions :
          Review(With([Artifact(mem.arts, "implementation", "accepted") EXCEPT !.rev = r]))
    BY DEF Implement
  <1> DEFINE m == With([Artifact(mem.arts, "implementation", "accepted") EXCEPT !.rev = r])
  <1>3. Grown(m, "implementation") /\ "implementation" \in Business
    <2>1. r \in Nat
      BY RunAssumption
    <2> QED
      BY <2>1, RevisedGrows DEF Business, Verdicts
  <1>4. Review(m)
    BY <1>2
  <1> HIDE DEF m
  <1>5. HasSubject(m)
    BY <1>1, <1>3, StageFacts, ReviewFacts DEF HasSubject, Grown
  <1>6. Verifies(m.stage, m.arts)
    BY <1>1, <1>3 DEF Grown, Verifies
  <1> QED
    BY <1>1, <1>3, <1>4, <1>5, <1>6, ReviewKeeps

\* The verification, wherever its verdict leads.
LEMMA VerifyKeeps ==
  ASSUME Inv(disk, session, pc, mem), Verify
  PROVE  Inv(disk', session', pc', mem') /\ IsKept(disk.arts, disk'.arts)
  <1>1. mem.stage = "VERIFYING" /\ pc = "loop" /\ ~ Foreign(mem.stage, mem.ret)
    BY DEF Verify, Executing, Working, Foreign
  <1>2. PICK verdict \in {"accepted"} \cup AllFailures :
          CASE verdict = "accepted" -> Wait(Verified(verdict), "final_acceptance")
            [] verdict = "configuration" -> Wait(Verified(verdict), "configuration_wait")
            [] verdict = "external" -> Block(Verified(verdict), "VERIFYING")
            [] verdict = "implementation" -> Move(Verified(verdict), "IMPLEMENTING", "loop")
    BY PossibleIs DEF Verify
  <1> DEFINE m == Verified(verdict)
  <1>3. Grown(m, "verification") /\ "verification" \in Business
    BY VerifiedGrows DEF Verdicts, Business
  <1>4. \/ Wait(m, "final_acceptance") \/ Wait(m, "configuration_wait")
        \/ Block(m, "VERIFYING") \/ Move(m, "IMPLEMENTING", "loop")
    BY <1>2 DEF AllFailures
  <1> HIDE DEF m
  <1>5. \A s : Verifies(s, m.arts)
    BY <1>1, <1>3, GrownFacts
  <1>6. /\ "final_acceptance" \in Waits /\ "configuration_wait" \in Waits
        /\ "VERIFYING" \in Returns \ {"none"} /\ "IMPLEMENTING" \in Stages \ {"ACCEPTED"}
    BY StageFacts DEF Waits, Returns
  <1>7. CASE Wait(m, "final_acceptance") \/ Wait(m, "configuration_wait")
    BY <1>1, <1>3, <1>5, <1>6, <1>7, WaitKeeps
  <1>8. CASE Block(m, "VERIFYING")
    BY <1>1, <1>3, <1>5, <1>6, <1>8, BlockKeeps
  <1>9. CASE Move(m, "IMPLEMENTING", "loop")
    BY <1>1, <1>3, <1>5, <1>6, <1>9, GoKeeps
  <1> QED
    BY <1>4, <1>7, <1>8, <1>9

\* The worker of the return stage, once the user has added information.
LEMMA UnblockKeeps ==
  ASSUME Inv(disk, session, pc, mem), Unblock
  PROVE  Inv(disk', session', pc', mem') /\ IsKept(disk.arts, disk'.arts)
  <1> DEFINE to == ReturnStage
             kind == ProducedAt[to]
             M(v) == IF kind = "verification" THEN Verified(v) ELSE Submitted(kind, v)
  <1>1. mem.stage = "BLOCKED" /\ pc = "loop" /\ mem.ret \in Returns
    BY DEF Unblock, Executing, Working, Inv, Running, Runtimes
  <1>2. \/ to = "INVESTIGATING" /\ kind = "investigation"
        \/ to = "DISPOSITION" /\ kind = "disposition" /\ ~ Foreign(mem.stage, mem.ret)
        \/ to = "VERIFYING" /\ kind = "verification" /\ ~ Foreign(mem.stage, mem.ret)
    BY <1>1, StageFacts DEF ReturnStage, Returns, Foreign
  <1>3. PICK v \in Verdicts : Move(M(v), to, "loop")
    <2>1. PICK v \in CASE kind = "investigation" -> {"accepted", "blocked"}
                       [] kind = "disposition" -> Possible(AllPlans)
                       [] kind = "verification" ->
                            {"accepted"} \cup Possible(AllFailures \cup Refused) :
            Move(M(v), to, "loop")
      BY DEF Unblock
    <2>2. v \in Verdicts
      BY <1>2, <2>1, PossibleIs DEF Verdicts
    <2> QED
      BY <2>1, <2>2
  <1> DEFINE m == M(v)
  <1>4. Grown(m, kind) /\ kind \in Business /\ kind # "implementation"
    BY <1>2, SubmittedGrows, VerifiedGrows DEF Business
  <1>5. Move(m, to, "loop")
    BY <1>3
  <1> HIDE DEF m, M, kind, to
  <1>6. \A s : Verifies(s, m.arts)
    BY <1>1, <1>4, GrownFacts
  <1>7. to \in Stages \ {"ACCEPTED"}
    BY <1>2, StageFacts
  <1>8. ~ Foreign(mem.stage, mem.ret) \/ to = "INVESTIGATING"
    BY <1>2
  <1> QED
    BY <1>1, <1>4, <1>5, <1>6, <1>7, <1>8, GoKeeps

\* The loop takes up a review whose reviewer never settled.
LEMMA TakeUpReviewKeeps ==
  ASSUME Inv(disk, session, pc, mem), TakeUpReview
  PROVE  Inv(disk', session', pc', mem') /\ IsKept(disk.arts, disk'.arts)
  <1> DEFINE m == [mem EXCEPT !.recovered = "none"]
  <1>1. pc = "loop" /\ Recovers /\ pc' = "enter" /\ mem' = m /\ disk' = disk /\ session' = session
    BY DEF TakeUpReview, Review
  <1>2. mem \in Runtimes /\ disk.arts \in Seq(Artifacts)
    BY DEF Inv, Running, Saved, Checkpoints
  <1>3. /\ m \in Runtimes /\ m.stage = mem.stage /\ m.arts = mem.arts /\ m.ret = mem.ret
        /\ m.progress = mem.progress /\ m.attempt = mem.attempt
    BY <1>2 DEF Runtimes
  <1> HIDE DEF m
  <1>4. HasSubject(m)
    BY <1>1, <1>3 DEF Recovers, HasSubject, Has
  <1>5. Running(m) /\ Together(disk, m)
    BY <1>1, <1>3 DEF Inv, Running, RunInv, Together
  <1>6. IsKept(disk.arts, disk'.arts)
    BY <1>1, <1>2, KeptSelf
  <1> QED
    BY <1>1, <1>4, <1>5, <1>6 DEF Inv

\* The next reviewer is a number.
LEMMA FirstType ==
  ASSUME Running(mem), NEW kind \in Reviews, NEW cycle \in Ids
  PROVE  FirstReviewer(kind, cycle) \in Nat
  <1>1. /\ mem.arts \in Seq(Artifacts) /\ mem.progress \in Progresses /\ mem.attempt \in Attempts
        /\ Good(mem.arts)
    BY DEF Running, Runtimes, RunInv
  <1>2. CASE mem.attempt # None
    BY <1>1, <1>2, NoneApart DEF FirstReviewer
  <1>3. CASE mem.attempt = None /\ mem.progress.cycle = cycle
    <2>1. mem.progress # None
      BY <1>3, NoneApart DEF Ids
    <2> QED
      BY <1>1, <1>3, <2>1, NoneApart DEF FirstReviewer, Ids
  <1>4. CASE mem.attempt = None /\ mem.progress.cycle # cycle
    <2>1. Cardinality(Votes(mem.arts, kind, cycle)) \in Nat
      BY <1>1, VotesCounted, ReviewFacts
    <2> QED
      BY <1>4, <2>1 DEF FirstReviewer
  <1> QED
    BY <1>2, <1>3, <1>4

\* A step that writes nothing loses nothing.
LEMMA SavedStays ==
  ASSUME Inv(disk, session, pc, mem), disk' = disk, session' = session
  PROVE  Saved(disk', session') /\ IsKept(disk.arts, disk'.arts)
  <1>1. disk.arts \in Seq(Artifacts)
    BY DEF Inv, Saved, Checkpoints
  <1> QED
    BY <1>1, KeptSelf DEF Inv

\* The verification that guardVerification refuses, once or for good.
LEMMA VerifyAgainKeeps ==
  ASSUME Inv(disk, session, pc, mem), VerifyAgain
  PROVE  Inv(disk', session', pc', mem') /\ IsKept(disk.arts, disk'.arts)
  <1>1. /\ mem.stage = "VERIFYING" /\ pc = "loop" /\ disk' = disk /\ session' = session
        /\ disk.stage # "ACCEPTED"
    BY DEF VerifyAgain, Executing, Working, Inv
  <1>2. Saved(disk', session') /\ IsKept(disk.arts, disk'.arts)
    BY <1>1, SavedStays
  <1>3. CASE Stop
    BY <1>1, <1>2, <1>3, StopKeeps
  <1>4. ASSUME NEW verdict \in Refused, mem' = Verified(verdict), pc' = pc
        PROVE  Inv(disk', session', pc', mem')
    <2> DEFINE m == Verified(verdict)
    <2>1. Grown(m, "verification") /\ "verification" \in Business
      BY VerifiedGrows DEF Verdicts, Business
    <2>2. mem' = m
      BY <1>4
    <2> HIDE DEF m
    <2>3. Running(m) /\ Together(disk, m)
      BY <1>1, <2>1, GrownFacts DEF Running, RunInv, Grown, Together, Inv
    <2> QED
      BY <1>1, <1>2, <1>4, <2>2, <2>3 DEF Inv
  <1> QED
    BY <1>2, <1>3, <1>4, PossibleIs DEF VerifyAgain

\* A review starts or continues with the first reviewer who has not answered.
LEMMA EnterReviewKeeps ==
  ASSUME Inv(disk, session, pc, mem), EnterReview
  PROVE  Inv(disk', session', pc', mem') /\ IsKept(disk.arts, disk'.arts)
  <1> DEFINE kind == ReviewAt[mem.stage]
             cycle == CycleOf(kind)
             first == FirstReviewer(kind, cycle)
             m == [mem EXCEPT !.cycle = cycle, !.resume = FALSE, !.next = first]
             md(p) == [m EXCEPT !.progress = None, !.passed = p]
  <1>1. pc = "enter" /\ HasSubject(mem) /\ Running(mem) /\ mem \in Runtimes /\ Together(disk, mem)
        /\ mem.stage \in DOMAIN ReviewAt /\ disk.stage # "ACCEPTED"
    BY DEF EnterReview, Inv, Running, HasSubject
  <1>2. kind \in Reviews /\ cycle \in Ids /\ first \in Nat
    BY <1>1, StageFacts, CycleType, FirstType
  <1>3. \/ pc' = "decided" /\ \E p \in BOOLEAN : mem' = md(p)
        \/ Stop
        \/ /\ pc' = "review" /\ mem' = m
           /\ mem.attempt # None => first < Panel[kind] /\ mem.attempt.kind = kind
    <2>1. \A p, q \in Nat : ~ p >= q => p < q
      OBVIOUS
    <2>2. Panel[kind] \in Nat
      BY <1>2, ReviewFacts
    <2> QED
      BY <1>2, <2>1, <2>2 DEF EnterReview
  <1>4. disk' = disk /\ session' = session
    BY DEF EnterReview
  <1>5. Saved(disk', session') /\ IsKept(disk.arts, disk'.arts)
    BY <1>4, SavedStays
  <1>6. VotesSoFar(m) \/ ~ (mem.attempt # None => first < Panel[kind] /\ mem.attempt.kind = kind)
    <2> SUFFICES ASSUME mem.attempt # None => first < Panel[kind] /\ mem.attempt.kind = kind
                 PROVE  VotesSoFar(m)
      OBVIOUS
    <2>1. first < Panel[kind] => Voters(mem.arts, kind, cycle) = 1 .. first
      BY <1>1, NextInLine
    <2>2. m.cycle = cycle /\ m.next = first /\ m.stage = mem.stage /\ m.arts = mem.arts
      BY <1>1 DEF Runtimes
    <2> HIDE DEF m
    <2> QED
      BY <1>2, <2>1, <2>2 DEF VotesSoFar
  <1> HIDE DEF cycle, first
  <1>7. /\ m \in Runtimes /\ m.stage = mem.stage /\ m.arts = mem.arts /\ m.ret = mem.ret
        /\ m.progress = mem.progress /\ m.attempt = mem.attempt
    BY <1>1, <1>2 DEF Runtimes, Ids
  <1>8. \A p \in BOOLEAN :
          /\ md(p) \in Runtimes /\ md(p).stage = m.stage /\ md(p).arts = m.arts
          /\ md(p).ret = m.ret /\ md(p).progress = None /\ md(p).attempt = m.attempt
    <2> HIDE DEF m
    <2> QED
      BY <1>7 DEF Runtimes, Progresses
  <1> HIDE DEF m, md
  <1>9. CASE pc' = "decided" /\ \E p \in BOOLEAN : mem' = md(p)
    <2>1. /\ mem' \in Runtimes /\ mem'.stage = mem.stage /\ mem'.arts = mem.arts
          /\ mem'.ret = mem.ret /\ mem'.progress = None /\ mem'.attempt = mem.attempt
      BY <1>7, <1>8, <1>9
    <2>2. Running(mem') /\ HasSubject(mem') /\ Together(disk', mem')
      BY <1>1, <1>4, <2>1 DEF Running, RunInv, Own, HasSubject, Together
    <2> QED
      BY <1>1, <1>4, <1>5, <1>9, <2>1, <2>2 DEF Inv
  <1>10. CASE Stop
    BY <1>1, <1>4, <1>5, <1>10, StopKeeps
  <1>11. CASE /\ pc' = "review" /\ mem' = m
              /\ mem.attempt # None => first < Panel[kind] /\ mem.attempt.kind = kind
    <2>1. Running(mem') /\ HasSubject(mem') /\ Together(disk', mem')
      BY <1>1, <1>4, <1>7, <1>11 DEF Running, RunInv, HasSubject, Together
    <2>2. VotesSoFar(mem')
      BY <1>6, <1>11
    <2> QED
      BY <1>1, <1>4, <1>5, <1>11, <2>1, <2>2 DEF Inv
  <1> QED
    BY <1>3, <1>9, <1>10, <1>11

\* The checkpoint after a vote.
LEMMA AfterVoteIs ==
  ASSUME NEW m \in Runtimes
  PROVE  /\ AfterVote(m) \in Checkpoints
         /\ AfterVote(m).stage = m.stage /\ AfterVote(m).arts = m.arts
         /\ AfterVote(m).progress = m.progress
  <1>1. Blank \in Checkpoints
    BY IdleInv
  <1> QED
    BY <1>1 DEF AfterVote, Checkpoints, Runtimes

\* A reviewer's vote and the cursor that counts it.
LEMMA VoteKeeps ==
  ASSUME Inv(disk, session, pc, mem), Vote
  PROVE  /\ Inv(disk', session', pc', mem') /\ IsKept(disk.arts, disk'.arts)
         /\ disk'.stage = disk.stage
  <1> DEFINE kind == ReviewAt[mem.stage]
             subject == Latest(mem.arts, Reviewed[kind])
             y(v) == Artifact(mem.arts, kind, v)
             x(v) == [y(v) EXCEPT !.cycle = mem.cycle, !.who = mem.next + 1, !.of = subject.n,
                             !.rev = IF kind = "change_review" THEN subject.rev ELSE 0]
             w(v) == With(x(v))
             m(v) == [w(v) EXCEPT !.attempt = None, !.next = @ + 1,
                                   !.progress = [cycle |-> mem.cycle, next |-> mem.next + 1]]
  <1>1. /\ pc = "review" /\ HasSubject(mem) /\ Running(mem) /\ mem \in Runtimes /\ Together(disk, mem)
        /\ VotesSoFar(mem) /\ mem.next < Panel[kind]
        /\ mem.stage \in DOMAIN ReviewAt /\ pc' = pc
        /\ mem.arts \in Seq(Artifacts) /\ mem.next \in Nat /\ Good(mem.arts)
        /\ disk.arts \in Seq(Artifacts) /\ mem.cycle \in Ids
    BY DEF Vote, Inv, Running, HasSubject, Runtimes, RunInv, VotesSoFar, Saved, Checkpoints
  <1>2. PICK v \in {"accepted", "rejected"} : mem' = m(v) /\ Save(AfterVote(m(v)))
    BY DEF Vote
  <1>3. kind \in Reviews /\ Newest(mem.arts, Reviewed[kind]) # 0
    BY <1>1, StageFacts DEF HasSubject
  <1>4. subject \in Artifacts
    <2>1. Newest(mem.arts, Reviewed[kind]) \in 1 .. Len(mem.arts)
      BY <1>1, <1>3, NewestIs DEF IsNewest
    <2> QED
      BY <1>1, <2>1 DEF Latest
  <1>5. y(v) \in Artifacts /\ y(v).kind = kind
    BY <1>1, <1>2, <1>3, ArtifactType, KindFacts DEF Verdicts
  <1>6. subject.n \in Nat /\ subject.rev \in Nat
    BY <1>4 DEF Artifacts
  <1> DEFINE yv == y(v)
             s == subject
             xv == [yv EXCEPT !.cycle = mem.cycle, !.who = mem.next + 1, !.of = s.n,
                             !.rev = IF kind = "change_review" THEN s.rev ELSE 0]
  <1>7. x(v) = xv
    OBVIOUS
  <1>s. s = Latest(mem.arts, Reviewed[kind]) /\ s.n \in Nat /\ s.rev \in Nat
    BY <1>6
  <1>y. yv \in Artifacts /\ yv.kind = kind
    BY <1>5
  <1> HIDE DEF x, y, yv, s
  <1>8. /\ xv \in Artifacts /\ xv.kind = kind /\ xv.cycle = mem.cycle
        /\ xv.who = mem.next + 1 /\ xv.of = s.n
    <2> DEFINE rv == IF kind = "change_review" THEN s.rev ELSE 0
               nv == mem.next + 1
               x1 == [yv EXCEPT !.cycle = mem.cycle]
               x2 == [x1 EXCEPT !.who = nv]
               x3 == [x2 EXCEPT !.of = s.n]
               x4 == [x3 EXCEPT !.rev = rv]
    <2>1. rv \in Nat /\ nv \in Nat /\ mem.cycle \in Nat
      BY <1>1, <1>s DEF Ids
    <2>2. xv = x4
      OBVIOUS
    <2>3. nv = mem.next + 1
      OBVIOUS
    <2> HIDE DEF rv, nv, xv
    <2>4. x1 \in Artifacts /\ x1.kind = kind /\ x1.cycle = mem.cycle
      BY <1>y, <2>1 DEF Artifacts
    <2> HIDE DEF x1
    <2>5. x2 \in Artifacts /\ x2.kind = kind /\ x2.cycle = mem.cycle /\ x2.who = nv
      BY <2>1, <2>4 DEF Artifacts
    <2> HIDE DEF x2
    <2>6. /\ x3 \in Artifacts /\ x3.kind = kind /\ x3.cycle = mem.cycle /\ x3.who = nv
          /\ x3.of = s.n
      BY <1>s, <2>5 DEF Artifacts
    <2> HIDE DEF x3
    <2>7. /\ x4 \in Artifacts /\ x4.kind = kind /\ x4.cycle = mem.cycle /\ x4.who = nv
          /\ x4.of = s.n
      BY <2>1, <2>6 DEF Artifacts
    <2> QED
      BY <2>2, <2>3, <2>7
  <1> DEFINE wv == With(xv)
             mv == [wv EXCEPT !.attempt = None, !.next = @ + 1,
                              !.progress = [cycle |-> mem.cycle, next |-> mem.next + 1]]
             a == Append(mem.arts, xv)
  <1>9. mem' = mv /\ disk' = AfterVote(mv) /\ session' = None
    BY <1>2, <1>7 DEF Save
  <1> HIDE DEF xv
  <1>10. a \in Seq(Artifacts)
    BY <1>1, <1>8
  <1>11. /\ wv \in Runtimes /\ wv.arts = a /\ wv.stage = mem.stage /\ wv.ret = mem.ret
         /\ wv.next = mem.next /\ wv.cycle = mem.cycle
    BY <1>1, <1>10 DEF With, Runtimes
  <1> HIDE DEF wv
  <1>12. [cycle |-> mem.cycle, next |-> mem.next + 1] \in Progresses /\ None \in Attempts
    BY <1>1 DEF Progresses, Attempts, Ids
  <1>13. /\ mv \in Runtimes /\ mv.arts = a /\ mv.stage = mem.stage /\ mv.ret = mem.ret
         /\ mv.attempt = None /\ mv.next = mem.next + 1 /\ mv.cycle = mem.cycle
         /\ mv.progress = [cycle |-> mem.cycle, next |-> mem.next + 1]
    <2> DEFINE m1 == [wv EXCEPT !.attempt = None]
               m2 == [m1 EXCEPT !.next = @ + 1]
               m3 == [m2 EXCEPT !.progress = [cycle |-> mem.cycle, next |-> mem.next + 1]]
    <2>1. mv = m3
      OBVIOUS
    <2> HIDE DEF mv
    <2>2. /\ m1 \in Runtimes /\ m1.arts = a /\ m1.stage = mem.stage /\ m1.ret = mem.ret
          /\ m1.attempt = None /\ m1.next = mem.next /\ m1.cycle = mem.cycle
      BY <1>11, <1>12 DEF Runtimes
    <2> HIDE DEF m1
    <2> DEFINE nv == m1.next + 1
    <2>n. nv \in Nat /\ nv = mem.next + 1 /\ m2 = [m1 EXCEPT !.next = nv]
      BY <1>1, <2>2
    <2> HIDE DEF nv, m2
    <2>3. /\ m2 \in Runtimes /\ m2.arts = a /\ m2.stage = mem.stage /\ m2.ret = mem.ret
          /\ m2.attempt = None /\ m2.next = mem.next + 1 /\ m2.cycle = mem.cycle
      BY <2>2, <2>n DEF Runtimes
    <2>4. /\ m3 \in Runtimes /\ m3.arts = a /\ m3.stage = mem.stage /\ m3.ret = mem.ret
          /\ m3.attempt = None /\ m3.next = mem.next + 1 /\ m3.cycle = mem.cycle
          /\ m3.progress = [cycle |-> mem.cycle, next |-> mem.next + 1]
      BY <1>12, <2>3 DEF Runtimes
    <2> QED
      BY <2>1, <2>4
  <1> HIDE DEF mv
  <1>14. xv.who \in 1 .. Panel[xv.kind] /\ Voters(mem.arts, xv.kind, xv.cycle) = 1 .. xv.who - 1
    <2>1. Panel[kind] \in Nat
      BY <1>3, ReviewFacts
    <2>2. (mem.next + 1) - 1 = mem.next
      BY <1>1
    <2> QED
      BY <1>1, <1>8, <2>1, <2>2 DEF VotesSoFar
  <1>15. Good(a) /\ Voters(a, kind, mem.cycle) = 1 .. mem.next + 1
    BY <1>1, <1>3, <1>8, <1>14, <1>s, VotedGood
  <1>16. SameWork(mem.arts, a, kind) /\ IsKept(mem.arts, a)
    <2>1. kind # Note
      BY <1>3, ReviewFacts DEF Note
    <2> QED
      BY <1>1, <1>8, <2>1, AppendedSame, AppendedKept
  <1> HIDE DEF a
  <1>17. \A r : Own(mem.stage, r, a, mv.progress)
    <2> SUFFICES ASSUME NEW r, mv.progress.next = 1, ~ Foreign(mem.stage, r)
                 PROVE  Voters(a, "change_plan_review", mv.progress.cycle) = {1}
      BY DEF Own
    <2>1. mem.next + 1 = 1 /\ mv.progress.cycle = mem.cycle
      BY <1>13
    <2>2. mem.stage = "DISPOSITION"
      BY <1>1, StageFacts DEF Foreign
    <2>3. kind = "change_plan_review"
      BY <2>2, StageFacts
    <2> QED
      BY <1>15, <2>1, <2>3
  <1>18. Verifies(mem.stage, a)
    <2>1. "verification" \in Kinds \ {kind} /\ "implementation" \in Kinds \ {kind}
      BY <1>3, KindFacts, ReviewFacts
    <2> QED
      BY <1>1, <1>16, <2>1 DEF Running, RunInv, Verifies, SameWork
  <1>19. Running(mem')
    BY <1>9, <1>13, <1>15, <1>17, <1>18 DEF Running, RunInv, Counted
  <1>20. /\ disk' \in Checkpoints /\ disk'.stage = mem.stage /\ disk'.arts = a
         /\ disk'.progress = mv.progress
    BY <1>9, <1>13, AfterVoteIs
  <1>21. Saved(disk', session')
    BY <1>9, <1>12, <1>15, <1>17, <1>18, <1>20 DEF Saved, RunInv, Counted
  <1>22. Together(disk', mem')
    BY <1>9, <1>10, <1>13, <1>20, KeptSelf DEF Together, SameVotes, a
  <1>23. IsKept(disk.arts, disk'.arts)
    BY <1>1, <1>10, <1>16, <1>20, KeptOn DEF Together, a
  <1>24. HasSubject(mem')
    <2>1. Reviewed[kind] \in Kinds \ {kind} /\ "disposition" \in Kinds \ {kind}
      BY <1>3, KindFacts, ReviewFacts
    <2>2. Newest(a, Reviewed[kind]) # 0
      BY <1>3, <1>16, <2>1 DEF SameWork
    <2>3. VerdictOf(a, "disposition") = VerdictOf(mem.arts, "disposition")
      BY <1>16, <2>1 DEF SameWork, VerdictOf, Has
    <2> QED
      BY <1>1, <1>9, <1>13, <2>2, <2>3 DEF HasSubject, RequiresChange
  <1>25. VotesSoFar(mem')
    BY <1>1, <1>9, <1>13, <1>15 DEF VotesSoFar
  <1>26. disk'.stage # "ACCEPTED"
    BY <1>1, <1>20, StageFacts
  <1>27. disk'.stage = disk.stage
    BY <1>1, <1>20 DEF Together
  <1> QED
    BY <1>1, <1>19, <1>21, <1>22, <1>23, <1>24, <1>25, <1>26, <1>27 DEF Inv

\* The approvals of a cycle are a number.
LEMMA ApprovalsType ==
  ASSUME NEW arts \in Seq(Artifacts), NEW kind, NEW cycle
  PROVE  Approvals(arts, kind, cycle) \in Nat
  <1> DEFINE A == {i \in Votes(arts, kind, cycle) : arts[i].verdict = "accepted"}
  <1>1. A \subseteq 1 .. Len(arts) /\ Len(arts) \in Int /\ 1 \in Int
    BY DEF Votes
  <1> HIDE DEF A
  <1>2. IsFiniteSet(1 .. Len(arts))
    BY <1>1, FS_Interval
  <1>3. IsFiniteSet(A)
    BY <1>1, <1>2, FS_Subset
  <1>4. Cardinality(A) \in Nat
    BY <1>3, FS_CardinalityType
  <1> QED
    BY <1>4 DEF Approvals, A

\* The record of a cycle.
LEMMA FinishReviewKeeps ==
  ASSUME Inv(disk, session, pc, mem), FinishReview
  PROVE  /\ Inv(disk', session', pc', mem') /\ IsKept(disk.arts, disk'.arts)
         /\ disk'.stage = disk.stage
  <1> DEFINE kind == ReviewAt[mem.stage]
             approvals == Approvals(mem.arts, kind, mem.cycle)
             passed == approvals >= Panel[kind]
             record == [id |-> mem.cycle, kind |-> kind, approvals |-> approvals,
                    passed |-> passed, who |-> Voters(mem.arts, kind, mem.cycle),
                    plan |-> Newest(mem.arts, "disposition"), at |-> Len(mem.arts)]
             m == [mem EXCEPT !.cycles = Append(@, record), !.attempt = None,
                          !.progress = None, !.passed = passed]
  <1>1. /\ pc = "review" /\ HasSubject(mem) /\ Running(mem) /\ mem \in Runtimes /\ Together(disk, mem)
        /\ VotesSoFar(mem) /\ mem.cycle \in Ids
        /\ mem.stage \in DOMAIN ReviewAt /\ mem.arts \in Seq(Artifacts) /\ Good(mem.arts)
        /\ mem.cycles \in Seq(Ledgers) /\ disk.arts \in Seq(Artifacts)
    BY DEF FinishReview, Inv, Running, HasSubject, Runtimes, RunInv, VotesSoFar, Saved, Checkpoints
  <1>2. pc' = "decided" /\ mem' = m /\ disk' = AfterVote(m) /\ session' = None
    BY DEF FinishReview, Save
  <1>3. kind \in Reviews
    BY <1>1, StageFacts
  <1>4. record \in Ledgers
    <2>1. approvals \in Nat
      BY <1>1, ApprovalsType
    <2>2. passed \in BOOLEAN
      OBVIOUS
    <2>3. Voters(mem.arts, kind, mem.cycle) \in SUBSET Nat
      BY <1>1, VotersAre
    <2>4. Newest(mem.arts, "disposition") \in Nat /\ Len(mem.arts) \in Nat
      BY <1>1, NewestIs
    <2> HIDE DEF approvals, passed
    <2> QED
      BY <1>1, <1>3, <2>1, <2>2, <2>3, <2>4 DEF Ledgers, Cycles, Ids
  <1> HIDE DEF record
  <1>5. Append(mem.cycles, record) \in Seq(Ledgers) /\ passed \in BOOLEAN
        /\ None \in Attempts /\ None \in Progresses
    BY <1>1, <1>4 DEF Attempts, Progresses
  <1> HIDE DEF passed
  <1>6. /\ m \in Runtimes /\ m.stage = mem.stage /\ m.arts = mem.arts /\ m.ret = mem.ret
        /\ m.progress = None /\ m.attempt = None
    BY <1>1, <1>5 DEF Runtimes
  <1> HIDE DEF m
  <1>7. /\ disk' \in Checkpoints /\ disk'.stage = mem.stage /\ disk'.arts = mem.arts
        /\ disk'.progress = None
    BY <1>2, <1>6, AfterVoteIs
  <1>8. Saved(disk', session')
    BY <1>1, <1>2, <1>5, <1>7 DEF Saved, RunInv, Own, Counted, Running
  <1>9. Running(mem') /\ HasSubject(mem') /\ mem'.progress = None
    BY <1>1, <1>2, <1>6 DEF Running, RunInv, Own, Counted, HasSubject
  <1>10. Together(disk', mem')
    BY <1>1, <1>2, <1>6, <1>7, KeptSelf DEF Together, SameVotes
  <1>11. IsKept(disk.arts, disk'.arts)
    BY <1>1, <1>7 DEF Together
  <1>12. disk'.stage # "ACCEPTED"
    BY <1>1, <1>7, StageFacts
  <1>13. disk'.stage = disk.stage
    BY <1>1, <1>7 DEF Together
  <1> QED
    BY <1>2, <1>8, <1>9, <1>10, <1>11, <1>12, <1>13 DEF Inv

\* The transition a review leads to, or the end of the loop.
LEMMA LeaveReviewKeeps ==
  ASSUME Inv(disk, session, pc, mem), LeaveReview
  PROVE  Inv(disk', session', pc', mem') /\ IsKept(disk.arts, disk'.arts)
  <1> DEFINE m == [mem EXCEPT !.passed = FALSE, !.next = 0]
  <1>1. /\ pc = "decided" /\ mem.stage \in DOMAIN ReviewAt /\ mem.progress = None
        /\ mem \in Runtimes /\ Running(mem) /\ Together(disk, mem) /\ disk.stage # "ACCEPTED"
    BY DEF LeaveReview, Inv, HasSubject, Running
  <1>2. \/ Move(m, mem.stage, "loop")
        \/ mem.stage = "INVESTIGATING" /\ Move(m, "DISPOSITION", "loop")
        \/ mem.stage = "DISPOSITION" /\ Move(m, "IMPLEMENTING", "loop")
        \/ mem.stage = "IMPLEMENTING" /\ Move(m, "VERIFYING", "loop")
        \/ Stop /\ disk' = disk /\ session' = session
    BY <1>1, StageFacts DEF LeaveReview, Runtimes
  <1>3. m \in Runtimes /\ m.arts = mem.arts /\ m.progress = None /\ m.ret = mem.ret
    BY <1>1 DEF Runtimes
  <1> HIDE DEF m
  <1>4. \A to : Own(to, m.ret, m.arts, m.progress)
    BY <1>3 DEF Own
  <1>5. Good(m.arts) /\ IsKept(disk.arts, m.arts) /\ Verifies(mem.stage, m.arts)
    BY <1>1, <1>3 DEF Running, RunInv, Together
  <1>6. ASSUME NEW to \in Stages \ {"ACCEPTED"}, Verifies(to, m.arts), Move(m, to, "loop")
        PROVE  Inv(disk', session', pc', mem') /\ IsKept(disk.arts, disk'.arts)
    BY <1>3, <1>4, <1>5, <1>6, MoveKeeps
  <1>7. CASE Move(m, mem.stage, "loop")
    BY <1>1, <1>5, <1>6, <1>7, StageFacts
  <1>8. CASE mem.stage = "INVESTIGATING" /\ Move(m, "DISPOSITION", "loop")
    <2>1. Verifies("DISPOSITION", m.arts)
      BY <1>5, <1>8 DEF Verifies
    <2> QED
      BY <1>6, <1>8, <2>1, StageFacts
  <1>9. CASE mem.stage = "DISPOSITION" /\ Move(m, "IMPLEMENTING", "loop")
    <2>1. Verifies("IMPLEMENTING", m.arts)
      BY DEF Verifies
    <2> QED
      BY <1>6, <1>9, <2>1, StageFacts
  <1>10. CASE mem.stage = "IMPLEMENTING" /\ Move(m, "VERIFYING", "loop")
    <2>1. Verifies("VERIFYING", m.arts)
      BY DEF Verifies
    <2> QED
      BY <1>6, <1>10, <2>1, StageFacts
  <1>11. CASE Stop /\ disk' = disk /\ session' = session
    BY <1>1, <1>11, SavedStays, StopKeeps
  <1> QED
    BY <1>2, <1>7, <1>8, <1>9, <1>10, <1>11

(* ---- acceptance ------------------------------------------------------------------- *)

\* What evaluateAcceptance lets through is earned,
LEMMA AcceptanceEarns ==
  ASSUME NEW arts \in Seq(Artifacts), Good(arts), Verifies("WAITING_FOR_USER", arts),
         NEW cycles, Acceptance(arts, cycles)
  PROVE  Earned(arts)
  <1>1. ReviewedAsItIs(arts, "investigation_review") /\ VerdictOf(arts, "verification") = "accepted"
    <2>1. /\ VerdictOf(arts, "investigation_review") = "accepted"
          /\ Newest(arts, "investigation_review") > Newest(arts, "investigation")
          /\ VerdictOf(arts, "investigation") = "accepted"
          /\ VerdictOf(arts, "verification") = "accepted"
      BY ReviewFacts DEF Acceptance, InvestigationGate, PassedReview, After
    <2>2. Has(arts, "investigation_review") /\ Has(arts, "investigation")
      BY <2>1 DEF VerdictOf
    <2>3. Latest(arts, "investigation_review").of = Latest(arts, "investigation").n
      BY <2>1, <2>2, ReviewFacts DEF Good, Informed, Has
    <2> QED
      BY <2>1, <2>2, <2>3, ReviewFacts DEF ReviewedAsItIs, VerdictOf
  <1>2. ASSUME RequiresChange(arts)
        PROVE  /\ PlanApproved(arts) /\ ReviewedAsItIs(arts, "change_review")
               /\ After(arts, "verification", "implementation")
    <2>1. /\ PlanGate(arts, cycles) /\ ChangeReviewBinds(arts)
          /\ VerdictOf(arts, "change_review") = "accepted"
      BY <1>2 DEF Acceptance
    <2>2. PlanApproved(arts)
      BY <1>2, <2>1, GateApproves
    <2>3. /\ Has(arts, "change_review") /\ Has(arts, "implementation")
          /\ Newest(arts, "change_review") > Newest(arts, "implementation")
      BY <2>1 DEF VerdictOf, ChangeReviewBinds, After
    <2>4. Latest(arts, "change_review").of = Latest(arts, "implementation").n
      BY <2>3, ReviewFacts DEF Good, Informed, Has
    <2>5. ReviewedAsItIs(arts, "change_review")
      BY <2>1, <2>3, <2>4, ReviewFacts DEF ReviewedAsItIs, VerdictOf
    <2>6. After(arts, "verification", "implementation")
      BY <2>3 DEF Verifies, Has, After
    <2> QED
      BY <2>2, <2>5, <2>6
  <1> QED
    BY <1>1, <1>2 DEF Earned

\* and stays so when the user's decision is recorded.
LEMMA StaysEarned ==
  ASSUME NEW arts \in Seq(Artifacts), Earned(arts), NEW x \in Artifacts, x.kind = "user_decision"
  PROVE  Earned(Append(arts, x))
  <1> DEFINE b == Append(arts, x)
             k == "change_plan_review"
  <1>1. /\ b \in Seq(Artifacts) /\ Len(b) = Len(arts) + 1 /\ Len(arts) \in Nat
        /\ b[Len(arts) + 1] = x /\ \A i \in 1 .. Len(arts) : b[i] = arts[i]
        /\ DOMAIN b = 1 .. Len(b) /\ DOMAIN arts = 1 .. Len(arts)
    OBVIOUS
  <1>2. \A l : l # "user_decision" => Newest(b, l) = Newest(arts, l)
    BY NewestAppended
  <1> HIDE DEF b
  <1>3. \A l : l # "user_decision" /\ Newest(arts, l) # 0 => Latest(b, l) = Latest(arts, l)
    BY <1>1, <1>2, NewestIs DEF IsNewest, Latest
  <1>4. \A l : l # "user_decision" => (Has(b, l) <=> Has(arts, l))
                                       /\ VerdictOf(b, l) = VerdictOf(arts, l)
    BY <1>2, <1>3 DEF Has, VerdictOf
  <1>5. RequiresChange(b) <=> RequiresChange(arts)
    BY <1>4 DEF RequiresChange
  <1>6. \A c : {i \in Votes(b, k, c) : b[i].verdict = "accepted"}
                 = {i \in Votes(arts, k, c) : arts[i].verdict = "accepted"}
    BY <1>1 DEF Votes
  <1>7. \A c : {b[i].who : i \in {j \in Votes(b, k, c) : b[j].verdict = "accepted"}}
                 = {arts[i].who : i \in {j \in Votes(arts, k, c) : arts[j].verdict = "accepted"}}
    <2> SUFFICES ASSUME NEW c
                 PROVE  {b[i].who : i \in {j \in Votes(b, k, c) : b[j].verdict = "accepted"}}
                         = {arts[i].who : i \in {j \in Votes(arts, k, c) : arts[j].verdict = "accepted"}}
      OBVIOUS
    <2> DEFINE A == {j \in Votes(arts, k, c) : arts[j].verdict = "accepted"}
    <2>1. {j \in Votes(b, k, c) : b[j].verdict = "accepted"} = A
      BY <1>6
    <2>2. \A i \in A : b[i] = arts[i]
      BY <1>1 DEF Votes
    <2> HIDE DEF A
    <2>3. {b[i].who : i \in A} = {arts[i].who : i \in A}
      BY <2>2
    <2> QED
      BY <2>1, <2>3 DEF A
  <1>8. ASSUME RequiresChange(arts), PlanApproved(arts)  PROVE PlanApproved(b)
    <2>1. /\ Has(arts, k) /\ Latest(arts, k).of = Latest(arts, "disposition").n
          /\ Cardinality({arts[i].who : i \in
               {j \in Votes(arts, k, Latest(arts, k).cycle) : arts[j].verdict = "accepted"}}) >= 2
      BY <1>8 DEF PlanApproved
    <2>2. Has(b, k) /\ Latest(b, k) = Latest(arts, k)
      BY <1>3, <1>4, <2>1 DEF Has
    <2>3. Cardinality({b[i].who : i \in
               {j \in Votes(b, k, Latest(b, k).cycle) : b[j].verdict = "accepted"}}) >= 2
      BY <1>7, <2>1, <2>2
    <2>4. Latest(b, "disposition") = Latest(arts, "disposition")
      BY <1>3, <1>8 DEF RequiresChange, VerdictOf, Has
    <2> QED
      BY <2>1, <2>2, <2>3, <2>4 DEF PlanApproved
  <1>9. \A l \in Reviews : ReviewedAsItIs(arts, l) => ReviewedAsItIs(b, l)
    <2>1. \A l \in Reviews : l # "user_decision" /\ Reviewed[l] # "user_decision"
      BY ReviewFacts
    <2> QED
      BY <1>3, <1>4, <2>1 DEF ReviewedAsItIs, Has
  <1>10. After(b, "verification", "implementation") <=> After(arts, "verification", "implementation")
    BY <1>2 DEF After
  <1>11. Earned(b)
    BY <1>4, <1>5, <1>8, <1>9, <1>10, ReviewFacts DEF Earned
  <1> QED
    BY <1>11 DEF b

\* A decision of the user keeps the invariant, given in the loop or by /fix review.
LEMMA DecideKeeps ==
  ASSUME Inv(disk, session, pc, mem), NEW m \in Runtimes, RunInv(m),
         m.stage = "WAITING_FOR_USER", IsKept(disk.arts, m.arts),
         NEW decision \in Decisions, NEW then \in {"loop", "down"}, Decide(m, decision, then)
  PROVE  Inv(disk', session', pc', mem') /\ IsKept(disk.arts, disk'.arts)
  <1> DEFINE to == Leads(m, decision)
             x == Artifact(m.arts, "user_decision", "accepted")
             approved == [m EXCEPT !.arts = Append(@, x)]
  <1>1. m.arts \in Seq(Artifacts) /\ Good(m.arts) /\ Verifies("WAITING_FOR_USER", m.arts)
        /\ Own("WAITING_FOR_USER", m.ret, m.arts, m.progress) /\ disk.arts \in Seq(Artifacts)
        /\ m.progress \in Progresses
    BY DEF Runtimes, RunInv, Inv, Saved, Checkpoints
  <1>2. \/ to \in Stages \ {"ACCEPTED"}
        \/ to = "ACCEPTED" /\ Acceptance(m.arts, m.cycles)
        \/ to = "none"
    BY StageFacts DEF Leads, Decisions, Requests
  <1>3. to # "none" /\ Move(IF to = "ACCEPTED" THEN approved ELSE m, to, then)
    BY DEF Decide
  <1>4. "none" \notin Stages /\ "ACCEPTED" \in Stages
    BY StageFacts
  <1>5. \A s, r : Own(s, r, m.arts, m.progress)
    <2>1. ~ Foreign("WAITING_FOR_USER", m.ret)
      BY DEF Foreign
    <2> QED
      BY <1>1, <2>1, OwnAnywhere
  <1>6. \A s : Verifies(s, m.arts)
    BY <1>1 DEF Verifies
  <1> HIDE DEF to
  <1>7. CASE to \in Stages \ {"ACCEPTED"}
    <2>1. Move(m, to, then)
      BY <1>3, <1>7
    <2> QED
      BY <1>1, <1>5, <1>6, <1>7, <2>1, MoveKeeps
  <1>8. CASE to = "ACCEPTED" /\ Acceptance(m.arts, m.cycles)
    <2>1. x \in Artifacts /\ x.kind = "user_decision" /\ x.who = 0
      BY <1>1, ArtifactType, KindFacts DEF Verdicts
    <2> HIDE DEF x
    <2> DEFINE a == Append(m.arts, x)
    <2>a. a \in Seq(Artifacts) /\ approved = [m EXCEPT !.arts = a]
      BY <1>1, <2>1
    <2>3. Move(approved, "ACCEPTED", then)
      BY <1>3, <1>8
    <2>4. x.kind \notin Reviews /\ x.kind # Note
      BY <2>1, ReviewFacts DEF Note
    <2>5. Good(a) /\ IsKept(m.arts, a) /\ SameWork(m.arts, a, "user_decision")
      BY <1>1, <2>1, <2>4, AppendedGood, AppendedKept, AppendedSame
    <2>6. Earned(a)
      <3>1. Earned(m.arts)
        BY <1>1, <1>8, AcceptanceEarns
      <3> QED
        BY <1>1, <2>1, <3>1, StaysEarned
    <2> HIDE DEF a, approved
    <2>2. approved \in Runtimes /\ approved.arts = a /\ approved.progress = m.progress
          /\ approved.ret = m.ret
      BY <2>a DEF Runtimes
    <2>7. Own("ACCEPTED", m.ret, a, m.progress)
      <3>1. m.progress.cycle \in Nat /\ "change_plan_review" \in Reviews \ {"user_decision"}
        BY <1>1, NoneApart, ReviewFacts
      <3> QED
        BY <1>5, <2>5, <3>1 DEF Own, SameWork
    <2>8. Verifies("ACCEPTED", a)
      <3>1. "verification" \in Kinds \ {"user_decision"} /\ "implementation" \in Kinds \ {"user_decision"}
        BY KindFacts
      <3> QED
        BY <1>6, <2>5, <3>1 DEF Verifies, SameWork
    <2>9. IsKept(disk.arts, a)
      BY <1>1, <2>a, <2>5, KeptOn
    <2> QED
      BY <1>4, <2>2, <2>3, <2>5, <2>6, <2>7, <2>8, <2>9, MoveKeeps
  <1> QED
    BY <1>2, <1>3, <1>7, <1>8

\* The user's choice in the loop.
LEMMA AskUserKeeps ==
  ASSUME Inv(disk, session, pc, mem), AskUser
  PROVE  Inv(disk', session', pc', mem') /\ IsKept(disk.arts, disk'.arts)
  <1>1. pc = "loop" /\ mem.stage = "WAITING_FOR_USER" /\ mem \in Runtimes /\ RunInv(mem)
        /\ IsKept(disk.arts, mem.arts)
    BY DEF AskUser, Inv, Running, Together
  <1>2. PICK decision \in Offered(mem.wait) : Decide(mem, decision, "loop")
    BY DEF AskUser
  <1>3. decision \in Decisions
    BY <1>2 DEF Offered, Decisions
  <1> QED
    BY <1>1, <1>2, <1>3, DecideKeeps

\* A sound checkpoint restores a sound runtime.
LEMMA RestoredIs ==
  ASSUME NEW d, NEW s, Saved(d, s)
  PROVE  /\ Running(Restored(d, s)) /\ Restored(d, s).stage = d.stage
         /\ Restored(d, s).arts = d.arts
  <1>1. /\ d \in Checkpoints /\ s \in Attempts /\ RunInv(d) /\ Counted(d.arts, s)
    BY DEF Saved
  <1>2. (IF s = None THEN "none" ELSE s.kind) \in {"none"} \cup Reviews
    BY <1>1, NoneApart
  <1>3. (\E i \in DOMAIN d.cycles : d.cycles[i].id = d.cycle) \in BOOLEAN
    OBVIOUS
  <1> DEFINE rec == IF s = None THEN "none" ELSE s.kind
             res == \E i \in DOMAIN d.cycles : d.cycles[i].id = d.cycle
             m == [stage |-> d.stage, arts |-> d.arts, cycles |-> d.cycles,
                   progress |-> d.progress, cycle |-> d.cycle, wait |-> d.wait, ret |-> d.ret,
                   attempt |-> s, resume |-> res, recovered |-> rec, next |-> 0, passed |-> FALSE]
  <1>4. Restored(d, s) = m
    BY DEF Restored
  <1>5. rec \in {"none"} \cup Reviews /\ res \in BOOLEAN
    BY <1>2, <1>3
  <1> HIDE DEF rec, res
  <1>6. m \in Runtimes
    BY <1>1, <1>5 DEF Runtimes, Checkpoints
  <1>7. /\ m.stage = d.stage /\ m.arts = d.arts /\ m.ret = d.ret /\ m.progress = d.progress
        /\ m.attempt = s
    OBVIOUS
  <1> HIDE DEF m
  <1> QED
    BY <1>1, <1>4, <1>6, <1>7 DEF Running, RunInv

\* The decision of /fix review, on the checkpoint.
LEMMA ReviewCommandKeeps ==
  ASSUME Inv(disk, session, pc, mem), ReviewCommand
  PROVE  Inv(disk', session', pc', mem') /\ IsKept(disk.arts, disk'.arts)
  <1> DEFINE m == Restored(disk, session)
  <1>1. disk.stage = "WAITING_FOR_USER" /\ Saved(disk, session) /\ disk.arts \in Seq(Artifacts)
    BY DEF ReviewCommand, Inv, Saved, Checkpoints
  <1>2. PICK decision \in Decisions : Decide(m, decision, "down")
    BY DEF ReviewCommand
  <1>3. m \in Runtimes /\ RunInv(m) /\ m.stage = "WAITING_FOR_USER" /\ m.arts = disk.arts
    BY <1>1, RestoredIs DEF Running
  <1> HIDE DEF m
  <1>4. IsKept(disk.arts, m.arts)
    BY <1>1, <1>3, KeptSelf
  <1> QED
    BY <1>2, <1>3, <1>4, DecideKeeps

\* The user leaves the run as it is.
LEMMA LeaveKeeps ==
  ASSUME Inv(disk, session, pc, mem), Leave
  PROVE  Inv(disk', session', pc', mem') /\ IsKept(disk.arts, disk'.arts)
  <1>1. Stop /\ disk' = disk /\ session' = session /\ pc = "loop"
    BY DEF Leave
  <1>2. disk.stage # "ACCEPTED"
    BY <1>1 DEF Inv
  <1> QED
    BY <1>1, <1>2, SavedStays, StopKeeps

\* The checkpoint after a worker's error.
LEMMA AfterFailureIs ==
  ASSUME NEW m \in Runtimes, NEW cycle \in Nat
  PROVE  /\ AfterFailure(m, cycle) \in Checkpoints
         /\ AfterFailure(m, cycle).stage = m.stage /\ AfterFailure(m, cycle).arts = m.arts
         /\ AfterFailure(m, cycle).progress = None
  <1>1. Blank \in Checkpoints /\ Blank.progress = None
    BY IdleInv DEF Blank
  <1> QED
    BY <1>1 DEF AfterFailure, Checkpoints, Runtimes

\* A worker that fails, with or without a checkpoint.
LEMMA WorkerFailsKeeps ==
  ASSUME Inv(disk, session, pc, mem), WorkerFails
  PROVE  Inv(disk', session', pc', mem') /\ IsKept(disk.arts, disk'.arts)
  <1>1. pc # "down"
    BY DEF WorkerFails, Working, Reviewing
  <1>2. /\ mem \in Runtimes /\ Running(mem) /\ Together(disk, mem) /\ disk.stage # "ACCEPTED"
        /\ mem.arts \in Seq(Artifacts) /\ mem.cycle \in Nat
    BY <1>1 DEF Inv, Running, Runtimes
  <1>3. /\ Saved(disk', session') /\ disk'.stage = mem.stage
        /\ Together(disk', mem) /\ IsKept(disk.arts, disk'.arts)
    <2>1. CASE Save(AfterFailure(mem, IF Reviewing THEN mem.cycle ELSE 0))
      <3> DEFINE c == IF Reviewing THEN mem.cycle ELSE 0
      <3>1. c \in Nat
        BY <1>2
      <3>2. disk' = AfterFailure(mem, c) /\ session' = None
        BY <2>1 DEF Save
      <3> HIDE DEF c
      <3>3. /\ disk' \in Checkpoints /\ disk'.stage = mem.stage /\ disk'.arts = mem.arts
            /\ disk'.progress = None
        BY <1>2, <3>1, <3>2, AfterFailureIs
      <3>4. Saved(disk', session')
        BY <1>2, <3>2, <3>3 DEF Saved, RunInv, Own, Counted, Running, Attempts
      <3> QED
        BY <1>2, <3>3, <3>4, KeptSelf DEF Together, SameVotes
    <2>2. CASE disk' = disk /\ session' = session
      BY <1>2, <2>2, SavedStays DEF Together
    <2> QED
      BY <2>1, <2>2 DEF WorkerFails
  <1>4. CASE Stop
    BY <1>2, <1>3, <1>4, StopKeeps DEF Together
  <1>5. CASE Working /\ pc' = pc /\ mem' = mem
    <2>1. pc = "loop" /\ mem.stage # "ACCEPTED"
      BY <1>5 DEF Working
    <2> QED
      BY <1>2, <1>3, <1>5, <2>1 DEF Inv
  <1> QED
    BY <1>4, <1>5 DEF WorkerFails

\* A kill, with or without a reviewer out.
LEMMA KillKeeps ==
  ASSUME Inv(disk, session, pc, mem), Kill
  PROVE  Inv(disk', session', pc', mem') /\ IsKept(disk.arts, disk'.arts)
  <1>1. pc # "down" /\ Stop /\ disk' = disk
    BY DEF Kill
  <1>2. disk.stage # "ACCEPTED" /\ Saved(disk, session) /\ disk.arts \in Seq(Artifacts)
    BY <1>1 DEF Inv, Saved, Checkpoints
  <1>3. IsKept(disk.arts, disk'.arts)
    BY <1>1, <1>2, KeptSelf
  <1> DEFINE s == [cycle |-> mem.cycle, kind |-> ReviewAt[mem.stage], index |-> mem.next]
  <1>4. session' = session \/ session' = None \/ (Reviewing /\ session' = s)
    BY DEF Kill
  <1>5. ASSUME Reviewing  PROVE s \in Attempts /\ Counted(disk.arts, s)
    <2>1. /\ pc = "review" /\ mem.next < Panel[ReviewAt[mem.stage]] /\ VotesSoFar(mem)
          /\ HasSubject(mem) /\ Together(disk, mem) /\ mem.next \in Nat
      BY <1>5 DEF Reviewing, Inv, Running, Runtimes
    <2>2. ReviewAt[mem.stage] \in Reviews /\ mem.cycle \in Ids /\ mem.cycle \in Nat
      BY <2>1, StageFacts DEF HasSubject, VotesSoFar, Ids
    <2>3. Voters(disk.arts, ReviewAt[mem.stage], mem.cycle) = 1 .. mem.next
      BY <2>1, <2>2 DEF VotesSoFar, Together, SameVotes
    <2> QED
      BY <2>1, <2>2, <2>3 DEF Attempts, Counted
  <1> HIDE DEF s
  <1>6. Saved(disk', session')
    BY <1>1, <1>2, <1>4, <1>5 DEF Saved, Attempts, Counted
  <1> QED
    BY <1>1, <1>2, <1>3, <1>6, StopKeeps

\* Another process takes up the run.
LEMMA ResumeKeeps ==
  ASSUME Inv(disk, session, pc, mem), Resume
  PROVE  Inv(disk', session', pc', mem') /\ IsKept(disk.arts, disk'.arts)
  <1>1. /\ disk.stage # "ACCEPTED" /\ pc' = "loop" /\ mem' = Restored(disk, session)
        /\ disk' = disk /\ session' = session
    BY DEF Resume
  <1>2. Saved(disk, session) /\ disk.arts \in Seq(Artifacts)
    BY DEF Inv, Saved, Checkpoints
  <1>3. Running(mem') /\ mem'.stage = disk.stage /\ mem'.arts = disk.arts
    BY <1>1, <1>2, RestoredIs
  <1>4. Together(disk', mem') /\ IsKept(disk.arts, disk'.arts)
    BY <1>1, <1>2, <1>3, KeptSelf DEF Together, SameVotes
  <1> QED
    BY <1>1, <1>2, <1>3, <1>4 DEF Inv

\* The invariant holds at first,
LEMMA InitInv == Init => IInv
  <1> SUFFICES ASSUME Init PROVE IInv
    OBVIOUS
  <1>1. disk = Blank /\ session = None /\ pc = "down" /\ mem = Idle
    BY DEF Init
  <1>2. None \in Attempts /\ Blank.stage # "ACCEPTED"
    BY IdleInv DEF Attempts
  <1> QED
    BY <1>1, <1>2, IdleInv DEF IInv, Inv, Saved, Running

\* every step keeps it and the work that was saved,
LEMMA NextInv ==
  ASSUME IInv, [Next]_vars
  PROVE  IInv' /\ IsKept(disk.arts, disk'.arts)
  <1>1. Inv(disk, session, pc, mem)
    BY DEF IInv
  <1>2. CASE UNCHANGED vars
    BY <1>1, <1>2, SavedStays DEF vars, IInv
  <1>3. CASE Next
    <2>1. CASE TakeUpReview
      BY <1>1, <2>1, TakeUpReviewKeeps DEF IInv
    <2>2. CASE Intake
      BY <1>1, <2>2, IntakeKeeps DEF IInv
    <2>3. CASE Investigate
      BY <1>1, <2>3, InvestigateKeeps DEF IInv
    <2>4. CASE Dispose
      BY <1>1, <2>4, DisposeKeeps DEF IInv
    <2>5. CASE Implement
      BY <1>1, <2>5, ImplementKeeps DEF IInv
    <2>6. CASE Verify
      BY <1>1, <2>6, VerifyKeeps DEF IInv
    <2>7. CASE Unblock \/ VerifyAgain
      BY <1>1, <2>7, UnblockKeeps, VerifyAgainKeeps DEF IInv
    <2>8. CASE EnterReview
      BY <1>1, <2>8, EnterReviewKeeps DEF IInv
    <2>9. CASE Vote
      BY <1>1, <2>9, VoteKeeps DEF IInv
    <2>10. CASE FinishReview
      BY <1>1, <2>10, FinishReviewKeeps DEF IInv
    <2>11. CASE LeaveReview
      BY <1>1, <2>11, LeaveReviewKeeps DEF IInv
    <2>12. CASE AskUser
      BY <1>1, <2>12, AskUserKeeps DEF IInv
    <2>13. CASE ReviewCommand
      BY <1>1, <2>13, ReviewCommandKeeps DEF IInv
    <2>14. CASE Leave
      BY <1>1, <2>14, LeaveKeeps DEF IInv
    <2>15. CASE WorkerFails
      BY <1>1, <2>15, WorkerFailsKeeps DEF IInv
    <2>16. CASE Kill
      BY <1>1, <2>16, KillKeeps DEF IInv
    <2>17. CASE Resume
      BY <1>1, <2>17, ResumeKeeps DEF IInv
    <2> QED
      BY <1>3, <2>1, <2>2, <2>3, <2>4, <2>5, <2>6, <2>7, <2>8, <2>9, <2>10, <2>11, <2>12,
         <2>13, <2>14, <2>15, <2>16, <2>17 DEF Next
  <1> QED
    BY <1>2, <1>3

\* and so it holds for ever.
LEMMA Invariant == Spec => []IInv
  <1>1. Init => IInv
    BY InitInv
  <1>2. IInv /\ [Next]_vars => IInv'
    BY NextInv
  <1> QED
    BY <1>1, <1>2, PTL DEF Spec

\* A run that is ACCEPTED has earned it (evaluateAcceptance), whatever happened on the
\* way, for any number of artifacts, revisions, failures and kills.
THEOREM Earns == Spec => []AcceptedIsEarned
  <1>1. IInv => AcceptedIsEarned
    BY DEF IInv, Inv, Earned, AcceptedIsEarned
  <1> QED
    BY <1>1, Invariant, PTL

\* Nobody votes twice in a cycle (runReview), however often the panel is interrupted.
THEOREM VotesOnce == Spec => []OneVotePerReviewer
  <1>1. ASSUME IInv  PROVE OneVotePerReviewer
    <2>1. mem.arts \in Seq(Artifacts) /\ Good(mem.arts)
      BY <1>1 DEF IInv, Inv, Running, RunInv, Runtimes
    <2>2. DOMAIN mem.arts = 1 .. Len(mem.arts)
      BY <2>1
    <2> QED
      BY <2>1, <2>2 DEF OneVotePerReviewer, Good, Votings
  <1> QED
    BY <1>1, Invariant, PTL

\* Work once saved is never lost or reordered by a later checkpoint (applyTransition,
\* runReview, executeNode).
THEOREM KeepsWork == Spec => WorkIsKept
  <1> DEFINE A == IsPrefix(WithoutNote(disk.arts), WithoutNote(disk'.arts))
  <1>1. IInv /\ [Next]_vars => [A]_vars
    BY NextInv DEF IsKept
  <1>2. Spec => []IInv
    BY Invariant
  <1> QED
    BY <1>1, <1>2, PTL DEF Spec, WorkIsKept

\* A step into IMPLEMENTING from a review of the plan, or into VERIFYING from one of the
\* change, is the end of that review.
LEMMA OnlyReviewLeads ==
  ASSUME IInv, Next,
         \/ disk.stage = "DISPOSITION" /\ disk'.stage = "IMPLEMENTING"
         \/ disk.stage = "IMPLEMENTING" /\ disk'.stage = "VERIFYING"
  PROVE  LeaveReview
  <1>1. disk.stage # disk'.stage
    BY DEF Next
  <1>2. pc # "down" => mem.stage = disk.stage /\ mem \in Runtimes
    BY DEF IInv, Inv, Together, Running
  <1>m. \A m, to, then : Move(m, to, then) => disk'.stage = to
    BY DEF Move, Save, Transitioned
  <1>b. \A m, ret : Block(m, ret) => disk'.stage = "BLOCKED"
    BY <1>m DEF Block
  <1>w. \A m, kind : Wait(m, kind) => disk'.stage = "WAITING_FOR_USER"
    BY <1>m DEF Wait
  <1>r. \A m : ~ Review(m)
    BY <1>1 DEF Review
  <1>3. ~ TakeUpReview /\ ~ Implement
    BY <1>r DEF TakeUpReview, Implement
  <1>4. ~ Intake /\ ~ Investigate /\ ~ Verify /\ ~ Unblock
    BY <1>2 DEF Intake, Investigate, Verify, Unblock, Executing, Working
  <1>5. ~ Dispose
    <2> SUFFICES ASSUME Dispose PROVE FALSE
      OBVIOUS
    <2>1. mem.stage = "DISPOSITION" /\ pc = "loop"
      BY DEF Dispose, Executing, Working
    <2>2. PICK m :
            \/ Block(m, "DISPOSITION") \/ Wait(m, "disposition_decision")
            \/ Wait(m, "external_action_completion") \/ Review(m) \/ Move(m, "VERIFYING", "loop")
      <3>1. PICK plan \in AllPlans :
              LET m == Submitted("disposition", plan)
              IN  CASE plan = "insufficient" -> Block(m, "DISPOSITION")
                    [] plan \in {"wait", "waitRepair"} -> Wait(m, "disposition_decision")
                    [] plan = "external" -> Wait(m, "external_action_completion")
                    [] plan = "repair" -> Review(m)
                    [] plan = "explain" -> Move(m, "VERIFYING", "loop")
        BY PossibleIs DEF Dispose
      <3> QED
        BY <3>1 DEF AllPlans
    <2> QED
      BY <1>2, <1>m, <1>b, <1>w, <1>r, <2>1, <2>2
  <1>6. ~ EnterReview /\ ~ Leave /\ ~ Kill /\ ~ Resume /\ ~ VerifyAgain
    BY <1>1 DEF EnterReview, Leave, Kill, Resume, VerifyAgain
  <1>7. ~ AskUser /\ ~ ReviewCommand
    BY <1>2 DEF AskUser, ReviewCommand
  <1>8. ~ Vote /\ ~ FinishReview
    BY <1>1, VoteKeeps, FinishReviewKeeps DEF IInv
  <1>9. ~ WorkerFails
    <2> SUFFICES ASSUME WorkerFails PROVE FALSE
      OBVIOUS
    <2>1. pc # "down"
      BY DEF WorkerFails, Working, Reviewing
    <2>2. \A c : AfterFailure(mem, c).stage = mem.stage
      BY DEF AfterFailure, Blank
    <2> QED
      BY <1>1, <1>2, <2>1, <2>2 DEF WorkerFails, Save
  <1> QED
    BY <1>3, <1>4, <1>5, <1>6, <1>7, <1>8, <1>9 DEF Next

\* No plan is implemented before two reviewers accepted it in one cycle
\* (assertChangePlanReviewGate).
THEOREM ApprovesPlans == Spec => NoPlanIsImplementedUnapproved
  <1> DEFINE A == disk.stage = "DISPOSITION" /\ disk'.stage = "IMPLEMENTING" =>
                    PlanApproved(disk'.arts)
  <1>1. ASSUME IInv, Next, disk.stage = "DISPOSITION", disk'.stage = "IMPLEMENTING"
        PROVE  PlanApproved(disk'.arts)
    <2>1. LeaveReview
      BY <1>1, OnlyReviewLeads
    <2>2. /\ pc = "decided" /\ mem.stage = "DISPOSITION" /\ mem \in Runtimes
          /\ RequiresChange(mem.arts) /\ Good(mem.arts) /\ mem.arts \in Seq(Artifacts)
      BY <1>1, <2>1
      DEF LeaveReview, IInv, Inv, HasSubject, Together, Running, RunInv, Runtimes
    <2> DEFINE m == [mem EXCEPT !.passed = FALSE, !.next = 0]
    <2>3. m.stage = "DISPOSITION" /\ m.arts = mem.arts
      BY <2>2 DEF Runtimes
    <2>4. \A to, then : Move(m, to, then) => disk'.stage = to /\ disk'.arts = m.arts
      BY DEF Move, Save, Transitioned
    <2>5. \/ Move(m, "DISPOSITION", "loop")
          \/ PlanGate(mem.arts, mem.cycles) /\ Move(m, "IMPLEMENTING", "loop")
          \/ disk' = disk
      BY <2>1, <2>2 DEF LeaveReview, Runtimes
    <2> HIDE DEF m
    <2>6. PlanGate(mem.arts, mem.cycles) /\ disk'.arts = mem.arts
      BY <1>1, <2>3, <2>4, <2>5
    <2> QED
      BY <2>2, <2>6, GateApproves
  <1>2. IInv /\ [Next]_vars => [A]_vars
    BY <1>1
  <1>3. Spec => []IInv
    BY Invariant
  <1> QED
    BY <1>2, <1>3, PTL DEF Spec, NoPlanIsImplementedUnapproved

\* No change is verified before a review accepted it as it is
\* (assertVerificationEntryBound).
THEOREM ReviewsChanges == Spec => NoChangeIsVerifiedUnreviewed
  <1> DEFINE A == disk.stage = "IMPLEMENTING" /\ disk'.stage = "VERIFYING" =>
                    ReviewedAsItIs(disk'.arts, "change_review")
  <1>1. ASSUME IInv, Next, disk.stage = "IMPLEMENTING", disk'.stage = "VERIFYING"
        PROVE  ReviewedAsItIs(disk'.arts, "change_review")
    <2>1. LeaveReview
      BY <1>1, OnlyReviewLeads
    <2>2. /\ pc = "decided" /\ mem.stage = "IMPLEMENTING" /\ mem \in Runtimes
          /\ Good(mem.arts) /\ mem.arts \in Seq(Artifacts)
      BY <1>1, <2>1 DEF LeaveReview, IInv, Inv, Together, Running, RunInv, Runtimes
    <2> DEFINE m == [mem EXCEPT !.passed = FALSE, !.next = 0]
               gate == VerdictOf(mem.arts, "change_review") = "accepted" /\ ChangeReviewBinds(mem.arts)
    <2>3. m.arts = mem.arts
      BY <2>2 DEF Runtimes
    <2>4. \A to, then : Move(m, to, then) => disk'.stage = to /\ disk'.arts = m.arts
      BY DEF Move, Save, Transitioned
    <2>5. \/ Move(m, "IMPLEMENTING", "loop")
          \/ gate /\ Move(m, "VERIFYING", "loop")
          \/ disk' = disk
      BY <2>1, <2>2 DEF LeaveReview, Runtimes
    <2> HIDE DEF m, gate
    <2>6. gate /\ disk'.arts = mem.arts
      BY <1>1, <2>3, <2>4, <2>5
    <2>7. /\ VerdictOf(mem.arts, "change_review") = "accepted"
          /\ Newest(mem.arts, "change_review") > Newest(mem.arts, "implementation")
          /\ Has(mem.arts, "implementation")
      BY <2>6 DEF gate, ChangeReviewBinds, After
    <2>8. Has(mem.arts, "change_review")
      BY <2>7 DEF VerdictOf
    <2>9. Latest(mem.arts, "change_review").of = Latest(mem.arts, "implementation").n
      BY <2>2, <2>7, <2>8, ReviewFacts DEF Good, Informed, Has
    <2>10. ReviewedAsItIs(mem.arts, "change_review")
      BY <2>7, <2>8, <2>9, ReviewFacts DEF ReviewedAsItIs, VerdictOf
    <2> QED
      BY <2>6, <2>10
  <1>2. IInv /\ [Next]_vars => [A]_vars
    BY <1>1
  <1>3. Spec => []IInv
    BY Invariant
  <1> QED
    BY <1>2, <1>3, PTL DEF Spec, NoChangeIsVerifiedUnreviewed

\* Failures and kills stay within their bounds.
Bounds == failures \in 0 .. MaxFailures /\ kills \in 0 .. MaxKills

\* They always do.
LEMMA BoundsInv == Spec => []Bounds
  <1>1. Init => Bounds
    BY RunAssumption DEF Init, Bounds
  <1>2. ASSUME Bounds, [Next]_vars  PROVE Bounds'
    <2>1. CASE WorkerFails
      BY <1>2, <2>1, RunAssumption DEF WorkerFails, Bounds
    <2>2. CASE Kill
      BY <1>2, <2>2, RunAssumption DEF Kill, Bounds
    <2>3. CASE UNCHANGED <<failures, kills>>
      BY <1>2, <2>3 DEF Bounds
    <2>4. CASE UNCHANGED vars
      BY <1>2, <2>4 DEF Bounds, vars
    <2>5. CASE \/ TakeUpReview \/ Intake \/ Investigate \/ Dispose \/ Implement \/ Verify \/ Unblock
               \/ VerifyAgain \/ EnterReview \/ Vote \/ FinishReview \/ LeaveReview
               \/ AskUser \/ ReviewCommand \/ Leave \/ Resume
      BY <2>3, <2>5
      DEF TakeUpReview, Intake, Investigate, Dispose, Implement, Verify, Unblock, VerifyAgain, EnterReview,
          Vote, FinishReview, LeaveReview, AskUser, ReviewCommand, Leave, Resume
    <2> QED
      BY <1>2, <2>1, <2>2, <2>4, <2>5 DEF Next
  <1> QED
    BY <1>1, <1>2, PTL DEF Spec

\* The variables keep their types.
THEOREM TypeCorrect == Spec => []TypeOK
  <1>1. ASSUME IInv, Bounds  PROVE TypeOK
    <2>1. Seq(Ledgers) \subseteq Seq(Cycles)
      BY DEF Ledgers
    <2>2. disk \in Checkpoints /\ mem \in Runtimes
      BY <1>1 DEF IInv, Inv, Saved, Running
    <2>3. \A r \in {disk, mem} :
            /\ r.stage \in Stages /\ r.wait \in Waits /\ r.cycle \in Nat
            /\ r.arts \in Seq(Artifacts) /\ r.cycles \in Seq(Cycles)
            /\ r.ret \in {"none", "INVESTIGATING", "DISPOSITION", "VERIFYING"}
      BY <2>1, <2>2 DEF Checkpoints, Runtimes, Returns
    <2>4. /\ pc \in {"down", "loop", "enter", "review", "decided"}
          /\ pc = "down" => mem = Idle
          /\ pc \in {"enter", "review", "decided"} => mem.stage \in DOMAIN ReviewAt
      BY <1>1 DEF IInv, Inv, HasSubject
    <2> QED
      BY <1>1, <2>3, <2>4 DEF TypeOK, Bounds
  <1> QED
    BY <1>1, Invariant, BoundsInv, PTL

=============================================================================
