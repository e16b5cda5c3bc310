------------------------ MODULE RunControlWalProofs ------------------------
(***************************************************************************)
(* Safety of the run control log for any writers, collectors, kills, torn  *)
(* writes and failing collections.  What the log promises is proved under  *)
(* one hypothesis without which it does not hold: an append that throws    *)
(* leaves nothing on the disk, and one that is cut short kills its writer. *)
(* What is said of the close fence needs a second one: no append of a      *)
(* worker's start throws, since it reopens the cached fence all the same.  *)
(* What collections promise needs neither.                                 *)
(***************************************************************************)
EXTENDS RunControlWal, SequenceTheorems, FiniteSetTheorems, TLAPS

FailedAppendsLeaveNothing == FailedWrites \subseteq {"nothing", "start"}
NoStartThrows == "start" \notin FailedWrites

-----------------------------------------------------------------------------
(* The parts of the inductive invariant.  Whoever is inside an operation   *)
(* holds the operation lock and lives, ...                                 *)
Holding == \A p \in Procs : pc[p] # "idle" => holder = p /\ p \notin dead

(* ... writers work on a run that exists and is not tombstoned, ...        *)
WritersInside ==
  \A p \in Procs : pc[p] \in {"opening", "replayed", "leased"} => p \in Writers /\ exists /\ ~marker

(* ... collectors on one whose lease nobody alive holds.                   *)
CollectorsInside ==
  \A g \in Procs :
    /\ pc[g] = "unlinking" => lease.state = "held" /\ lease.pid \in dead
    /\ pc[g] \in {"marking", "renaming"} => lease.state = "none"
    /\ pc[g] \in {"unlinking", "marking", "renaming"} => g \in Collectors
    /\ pc[g] \in {"unlinking", "marking"} => ~marker
    /\ pc[g] = "renaming" => marker

(* No two handles, and no handle and another's draft, have one nonce.      *)
NoncesDiffer ==
  /\ \A p \in Writers : handle[p].nonce <= nonces /\ draft[p].nonce <= nonces
  /\ \A p, q \in Writers : p # q =>
       /\ handle[p].nonce # 0 => handle[p].nonce # handle[q].nonce
       /\ draft[p].nonce # 0 => draft[p].nonce # handle[q].nonce

(* A run that was never written has no log, no handle and nothing to lose. *)
NothingYet ==
  /\ ~file => log = <<>> /\ ~torn
  /\ ~file /\ ~marker => acked = {} /\ \A p \in Writers : handle[p].nonce = 0
  /\ ~exists => ~file
  /\ ~exists /\ ~marker => \A p \in Writers : handle[p].nonce = 0

(* The lease is at least as new as every line, and lines of its epoch are  *)
(* its holder's.                                                           *)
LeaseIsNewest ==
  lease.state = "held" =>
    \A k \in DOMAIN log : /\ log[k].epoch <= lease.epoch
                          /\ log[k].epoch = lease.epoch => log[k].by = lease.nonce

(* A half-written tail is never behind a handle that may append.           *)
TornIsUnowned == torn => \A p \in Writers : ~Owns(p)

(* What a replay found is still what the log says, up to the lease, and    *)
(* from then on for whoever holds it.                                      *)
Current(h) ==
  /\ MaxEpoch <= h.epoch /\ h.next = Len(log) + 1 /\ h.seq = NextSequence
  /\ NoStartThrows => h.closed = Closed

OwnerIsCurrent == \A p \in Writers : Owns(p) /\ ~marker => Current(handle[p])

DraftIsCurrent ==
  \A p \in Writers :
    /\ pc[p] \in {"replayed", "leased"} => ~torn /\ Current(draft[p])
    /\ pc[p] \in {"opening", "replayed", "leased"} => draft[p].nonce # 0
    /\ pc[p] = "idle" => draft[p].nonce = 0
    /\ pc[p] = "leased" =>
         /\ ~file /\ lease.state = "held"
         /\ lease.nonce = draft[p].nonce /\ lease.epoch = draft[p].epoch

(* The numbers of the supplements have a greatest one, and so have the     *)
(* positions of fences and starts.                                         *)
Numbers(lines) ==
  {1} \cup {lines[k].data + 1 : k \in {l \in DOMAIN lines : lines[l].type = "supplement"}}
Fences(lines) == {k \in 1..Len(lines) : lines[k].type \in {"fence", "start"}}
HasGreatest(S) == \E n \in S : \A m \in S : m <= n
Numbered == HasGreatest(Numbers(log)) /\ HasGreatest({0} \cup Fences(log))

IInv ==
  /\ TypeOK /\ Holding /\ WritersInside /\ CollectorsInside /\ NoncesDiffer /\ NothingYet
  /\ LogIsReplayable /\ EpochsFenceWriters /\ LeaseIsNewest /\ TornIsUnowned /\ DraftIsCurrent
  /\ Numbered /\ OwnerIsCurrent /\ AckedIsDurable

-----------------------------------------------------------------------------
(* What the operators of a replay compute.  The greatest element of a set  *)
(* that has one, ...                                                       *)
LEMMA HighestIs ==
  ASSUME NEW S \in SUBSET Nat, HasGreatest(S)
  PROVE  Highest(S) \in S /\ \A m \in S : m <= Highest(S)
  BY DEF Highest, HasGreatest

LEMMA HighestOfTwo ==
  ASSUME NEW a \in Nat, NEW b \in Nat
  PROVE  /\ Highest({a, b}) \in Nat /\ a <= Highest({a, b}) /\ b <= Highest({a, b})
         /\ b <= a => Highest({a, b}) = a
  <1>1. HasGreatest({a, b})
    <2>1. CASE a <= b  BY <2>1 DEF HasGreatest
    <2>2. CASE b <= a  BY <2>2 DEF HasGreatest
    <2> QED  BY <2>1, <2>2
  <1> QED  BY <1>1, HighestIs

(* ... the lines of a log, ...                                             *)
LEMMA LinesAre ==
  ASSUME NEW lines \in Seq(Line)
  PROVE  /\ Len(lines) \in Nat /\ DOMAIN lines = 1..Len(lines)
         /\ \A k \in DOMAIN lines : /\ lines[k] \in Line
                                    /\ lines[k].epoch \in Nat /\ lines[k].data \in Nat
  <1>1. Len(lines) \in Nat /\ DOMAIN lines = 1..Len(lines)  BY LenProperties
  <1>2. \A k \in DOMAIN lines : lines[k] \in Line  BY <1>1, ElementOfSeq
  <1>3. \A line \in Line : line.epoch \in Nat /\ line.data \in Nat  BY DEF Line
  <1> QED  BY <1>1, <1>2, <1>3

LEMMA LinesOf ==
  ASSUME TypeOK
  PROVE  /\ Len(log) \in Nat /\ DOMAIN log = 1..Len(log)
         /\ \A k \in DOMAIN log : /\ log[k] \in Line
                                  /\ log[k].epoch \in Nat /\ log[k].data \in Nat
  <1>1. log \in Seq(Line)  BY DEF TypeOK
  <1> QED  BY <1>1, LinesAre

(* ... the newest epoch of a log whose epochs do not decrease, ...         *)
EpochsOf(lines) == {0} \cup {lines[k].epoch : k \in DOMAIN lines}

LEMMA NewestIs ==
  ASSUME NEW lines \in Seq(Line),
         \A k, l \in DOMAIN lines : k < l => lines[k].epoch <= lines[l].epoch
  PROVE  /\ Highest(EpochsOf(lines)) \in EpochsOf(lines) /\ EpochsOf(lines) \in SUBSET Nat
         /\ \A m \in EpochsOf(lines) : m <= Highest(EpochsOf(lines))
  <1>1. EpochsOf(lines) \in SUBSET Nat  BY LinesAre DEF EpochsOf
  <1>2. HasGreatest(EpochsOf(lines))
    <2>1. CASE Len(lines) = 0
      <3>1. DOMAIN lines = {}  BY <2>1, LinesAre
      <3>2. EpochsOf(lines) = {0}  BY <3>1 DEF EpochsOf
      <3> QED  BY <3>2 DEF HasGreatest
    <2>2. CASE Len(lines) # 0
      <3>1. Len(lines) \in DOMAIN lines /\ \A k \in DOMAIN lines : k <= Len(lines) /\ k \in Nat
        BY <2>2, LinesAre
      <3>2. \A k \in DOMAIN lines : lines[k].epoch <= lines[Len(lines)].epoch
        BY <3>1, LinesAre
      <3>3. \A m \in EpochsOf(lines) : m <= lines[Len(lines)].epoch
        BY <3>1, <3>2, LinesAre DEF EpochsOf
      <3>4. lines[Len(lines)].epoch \in EpochsOf(lines)  BY <3>1 DEF EpochsOf
      <3> QED  BY <3>3, <3>4 DEF HasGreatest
    <2> QED  BY <2>1, <2>2
  <1> QED  BY <1>1, <1>2, HighestIs

LEMMA MaxEpochIs ==
  ASSUME TypeOK, EpochsFenceWriters
  PROVE  /\ MaxEpoch \in Nat /\ \A k \in DOMAIN log : log[k].epoch <= MaxEpoch
         /\ MaxEpoch = 0 \/ \E k \in DOMAIN log : MaxEpoch = log[k].epoch
  <1>1. MaxEpoch = Highest(EpochsOf(log))  BY DEF MaxEpoch, EpochsOf
  <1>2. log \in Seq(Line)  BY DEF TypeOK
  <1>3. /\ MaxEpoch \in EpochsOf(log) /\ MaxEpoch \in Nat /\ \A m \in EpochsOf(log) : m <= MaxEpoch
    BY <1>1, <1>2, NewestIs DEF EpochsFenceWriters
  <1> QED  BY <1>3 DEF EpochsOf

(* ... and the next number of a supplement.                                *)
LEMMA NextSequenceIs ==
  ASSUME TypeOK, Numbered
  PROVE  /\ NextSequence \in Nat /\ NextSequence \in Numbers(log)
         /\ \A m \in Numbers(log) : m <= NextSequence
  <1>1. Numbers(log) \in SUBSET Nat  BY LinesOf DEF Numbers
  <1>2. NextSequence = Highest(Numbers(log))  BY DEF NextSequence, Numbers, Supplements
  <1> QED  BY <1>1, <1>2, HighestIs DEF Numbered

(* As long as nothing is written, a replay finds what it found before.     *)
LEMMA SameReplay ==
  ASSUME log' = log
  PROVE  /\ MaxEpoch' = MaxEpoch /\ NextSequence' = NextSequence /\ Closed' = Closed
         /\ Numbered' = Numbered
  <1>1. MaxEpoch' = MaxEpoch  BY DEF MaxEpoch
  <1>2. Supplements' = Supplements  BY DEF Supplements
  <1>3. NextSequence' = NextSequence  BY <1>2 DEF NextSequence
  <1>4. Closed' = Closed  BY DEF Closed, SelectLastInSeq
  <1>5. Numbers(log)' = Numbers(log)  BY DEF Numbers
  <1>6. Fences(log)' = Fences(log)  BY DEF Fences
  <1>7. Numbered' = Numbered  BY <1>5, <1>6 DEF Numbered
  <1> QED  BY <1>1, <1>3, <1>4, <1>7

(* The position of the last fence or start.                                *)
LastFence(lines) == SelectLastInSeq(lines, LAMBDA r : r.type \in {"fence", "start"})

LEMMA LastFenceIs ==
  ASSUME NEW lines \in Seq(Line)
  PROVE  /\ Fences(lines) = {} => LastFence(lines) = 0
         /\ \A n \in Fences(lines) :
              (\A m \in Fences(lines) : m <= n) => n # 0 /\ LastFence(lines) = n
  <1>1. LastFence(lines) = IF Fences(lines) # {} THEN Max(Fences(lines)) ELSE 0
    BY DEF LastFence, SelectLastInSeq, Fences
  <1>2. ASSUME NEW n \in Fences(lines), \A m \in Fences(lines) : m <= n
        PROVE  n # 0 /\ LastFence(lines) = n
    <2>1. Len(lines) \in Nat  BY LenProperties
    <2>2. Fences(lines) \in SUBSET Nat /\ n \in Nat \ {0}  BY <2>1 DEF Fences
    <2>3. Max(Fences(lines)) = n  BY <1>2, <2>2 DEF Max
    <2> QED  BY <1>1, <2>2, <2>3
  <1> QED  BY <1>1, <1>2

-----------------------------------------------------------------------------
(* One line more.                                                          *)
LEMMA Grown ==
  ASSUME TypeOK, NEW line \in Line, log' = Append(log, line)
  PROVE  /\ log' \in Seq(Line) /\ Len(log') = Len(log) + 1
         /\ DOMAIN log' = DOMAIN log \cup {Len(log) + 1}
         /\ \A k \in DOMAIN log : k \in Nat /\ k < Len(log) + 1 /\ log'[k] = log[k]
         /\ log'[Len(log) + 1] = line
         /\ \A l \in Range(log) : l \in Range(log')
         /\ line \in Range(log')
  <1>1. log \in Seq(Line)  BY DEF TypeOK
  <1>2. log' \in Seq(Line) /\ Len(log') = Len(log) + 1 /\ DOMAIN log' = 1..Len(log) + 1
    BY <1>1, AppendProperties, LenProperties
  <1>3. /\ \A k \in 1..Len(log) : log'[k] = log[k]
        /\ log'[Len(log) + 1] = line
    BY <1>1, AppendProperties
  <1>4. DOMAIN log = 1..Len(log) /\ Len(log) \in Nat  BY LinesOf
  <1>5. DOMAIN log' = DOMAIN log \cup {Len(log) + 1}  BY <1>2, <1>4
  <1> QED  BY <1>2, <1>3, <1>4, <1>5 DEF Range

(* How the next replay differs: supplements are counted on, fences and     *)
(* starts replace each other.                                              *)
LEMMA GrownReplay ==
  ASSUME TypeOK, Numbered, NEW line \in Line, log' = Append(log, line),
         line.type = "supplement" => line.data = NextSequence
  PROVE  /\ Numbered'
         /\ NextSequence' = IF line.type = "supplement" THEN NextSequence + 1 ELSE NextSequence
         /\ Closed' = IF line.type \in {"fence", "start"} THEN line.type = "fence" ELSE Closed
  <1> DEFINE n == Len(log) + 1
  <1>1. n \in Nat \ {0} /\ Len(log') = n /\ DOMAIN log' = DOMAIN log \cup {n}
        /\ DOMAIN log = 1..Len(log) /\ n \notin DOMAIN log /\ 1..n = DOMAIN log \cup {n}
    BY Grown, LinesOf
  <1>2. \A k \in DOMAIN log : log'[k] = log[k] /\ k < n /\ k \in Nat  BY Grown, LinesOf
  <1>3. log'[n] = line /\ line.data \in Nat  BY Grown DEF Line
  <1> HIDE DEF n
  <1>4. Numbers(log') = IF line.type = "supplement" THEN Numbers(log) \cup {NextSequence + 1}
                                                    ELSE Numbers(log)
    BY <1>1, <1>2, <1>3 DEF Numbers
  <1>5. Fences(log') = IF line.type \in {"fence", "start"} THEN Fences(log) \cup {n}
                                                           ELSE Fences(log)
    BY <1>1, <1>2, <1>3 DEF Fences
  <1>6. /\ Numbers(log) \in SUBSET Nat /\ Numbers(log') \in SUBSET Nat
        /\ Fences(log) \in SUBSET Nat /\ Fences(log') \in SUBSET Nat
    <2>1. \A k \in DOMAIN log : log[k].data \in Nat  BY LinesOf
    <2>2. Numbers(log) \in SUBSET Nat  BY <2>1 DEF Numbers
    <2> QED  BY <1>2, <1>4, <1>5, <1>1, <2>2, NextSequenceIs DEF Fences
  <1>7. /\ HasGreatest(Numbers(log'))
        /\ NextSequence' = IF line.type = "supplement" THEN NextSequence + 1 ELSE NextSequence
    <2> DEFINE g == IF line.type = "supplement" THEN NextSequence + 1 ELSE NextSequence
    <2>1. g \in Numbers(log') /\ \A m \in Numbers(log') : m <= g
      BY <1>4, <1>6, NextSequenceIs
    <2>2. NextSequence' = Highest(Numbers(log'))  BY DEF NextSequence, Numbers, Supplements
    <2>3. HasGreatest(Numbers(log'))  BY <2>1 DEF HasGreatest
    <2>4. NextSequence' \in Numbers(log') /\ \A m \in Numbers(log') : m <= NextSequence'
      BY <1>6, <2>2, <2>3, HighestIs
    <2>5. NextSequence' = g  BY <1>6, <2>1, <2>4
    <2> QED  BY <2>3, <2>5
  <1>8. PICK f \in {0} \cup Fences(log) : \A m \in {0} \cup Fences(log) : m <= f
    BY DEF Numbered, HasGreatest
  <1>9. HasGreatest({0} \cup Fences(log'))
    <2>1. CASE line.type \in {"fence", "start"}
      <3>1. \A m \in {0} \cup Fences(log') : m <= n  BY <1>1, <1>2, <1>5, <2>1 DEF Fences
      <3>2. n \in Fences(log')  BY <1>5, <2>1
      <3> QED  BY <3>1, <3>2 DEF HasGreatest
    <2>2. CASE line.type \notin {"fence", "start"}  BY <1>5, <1>8, <2>2 DEF HasGreatest
    <2> QED  BY <2>1, <2>2
  <1>10. /\ Closed = (LastFence(log) # 0 /\ log[LastFence(log)].type = "fence")
         /\ Closed' = (LastFence(log') # 0 /\ log'[LastFence(log')].type = "fence")
    BY DEF Closed, LastFence, SelectLastInSeq
  <1>11. log \in Seq(Line) /\ log' \in Seq(Line)  BY Grown DEF TypeOK
  <1>12. Closed' = IF line.type \in {"fence", "start"} THEN line.type = "fence" ELSE Closed
    <2>1. CASE line.type \in {"fence", "start"}
      <3>1. n \in Fences(log') /\ \A m \in Fences(log') : m <= n
        BY <1>1, <1>2, <1>5, <2>1 DEF Fences
      <3>2. LastFence(log') = n /\ n # 0  BY <1>11, <3>1, LastFenceIs
      <3> QED  BY <1>3, <1>10, <2>1, <3>2
    <2>2. CASE line.type \notin {"fence", "start"} /\ Fences(log) = {}
      <3>1. LastFence(log) = 0 /\ LastFence(log') = 0  BY <1>5, <1>11, <2>2, LastFenceIs
      <3> QED  BY <1>10, <2>2, <3>1
    <2>3. CASE line.type \notin {"fence", "start"} /\ Fences(log) # {}
      <3>1. f \in Fences(log) /\ \A m \in Fences(log) : m <= f
        BY <1>6, <1>8, <2>3, <1>2, <1>1 DEF Fences
      <3>2. LastFence(log) = f /\ LastFence(log') = f /\ f # 0
        BY <1>5, <1>11, <2>3, <3>1, LastFenceIs
      <3>3. log'[f] = log[f]  BY <1>1, <1>2, <3>1 DEF Fences
      <3> QED  BY <1>10, <2>3, <3>2, <3>3
    <2> QED  BY <2>1, <2>2, <2>3
  <1> QED  BY <1>7, <1>9, <1>12 DEF Numbered

-----------------------------------------------------------------------------
(* The owner of the lease, free to write, writes behind a whole log.       *)
LEMMA OwnerWrites ==
  ASSUME IInv, NEW p \in Writers, Mine(p)
  PROVE  /\ exists /\ file /\ ~torn /\ ~marker /\ handle[p] \in Handle /\ Current(handle[p])
         /\ holder = NoProc /\ pc[p] = "idle" /\ p \notin dead
         /\ lease.state = "held" /\ handle[p].nonce # 0
         /\ lease.nonce = handle[p].nonce /\ lease.epoch = handle[p].epoch
  <1>1. handle[p] \in Handle  BY DEF IInv, TypeOK
  <1>2. Owns(p) /\ ~marker /\ holder = NoProc /\ pc[p] = "idle" /\ p \notin dead
    BY DEF Mine, Free
  <1>3. Current(handle[p]) /\ ~torn  BY <1>2 DEF IInv, OwnerIsCurrent, TornIsUnowned
  <1>4. exists /\ file  BY <1>2 DEF IInv, NothingYet, Owns
  <1> QED  BY <1>1, <1>2, <1>3, <1>4 DEF Owns

(* What the appends of a writer have in common: one line that says what    *)
(* its handle says.                                                        *)
Appends(p) ==
  \E h \in Handle, type \in Types \ {"garbage", "header"}, data \in Nat :
    /\ Write(p, h, type, data)
    /\ h.nonce = handle[p].nonce /\ h.epoch = handle[p].epoch
    /\ h.next = handle[p].next /\ h.seq = handle[p].seq
    /\ h.closed = IF type = "start" THEN FALSE ELSE handle[p].closed
    /\ type = "supplement" => data = h.seq /\ ~h.closed

LEMMA AppendsOneLine ==
  ASSUME IInv, NEW p \in Writers, Appending(p), ~ReleaseLease(p), ~AppendFails(p)
  PROVE  Mine(p) /\ Appends(p)
  <1>1. ASSUME Mine(p)  PROVE handle[p] \in Handle /\ handle[p].seq \in Nat
    BY <1>1, OwnerWrites DEF Handle
  <1>2. ASSUME Mine(p), NEW h \in Handle, NEW type \in Types \ {"garbage", "header"},
               NEW data \in Nat, Write(p, h, type, data),
               h.nonce = handle[p].nonce, h.epoch = handle[p].epoch,
               h.next = handle[p].next, h.seq = handle[p].seq,
               h.closed = IF type = "start" THEN FALSE ELSE handle[p].closed,
               type = "supplement" => data = h.seq /\ ~h.closed
        PROVE  Appends(p)
    BY <1>2, Zenon DEF Appends
  <1>3. ASSUME Mine(p), NEW type \in {"supplement", "other", "fence", "legacy"},
               NEW data \in Nat, Write(p, handle[p], type, data),
               type = "supplement" => data = handle[p].seq /\ ~handle[p].closed
        PROVE  Appends(p)
    <2>1. type \in Types \ {"garbage", "header"} /\ type # "start"  BY DEF Types
    <2>2. handle[p].closed = IF type = "start" THEN FALSE ELSE handle[p].closed  BY <2>1
    <2>3. handle[p] \in Handle  BY <1>1, <1>3
    <2> QED  BY <1>2, <1>3, <2>1, <2>2, <2>3
  <1>4. CASE RecordSupplement(p)  BY <1>1, <1>3, <1>4 DEF RecordSupplement
  <1>5. CASE CloseFence(p)  BY <1>3, <1>5 DEF CloseFence
  <1>6. CASE BeginWorker(p)
    <2> DEFINE h == [handle[p] EXCEPT !.closed = FALSE]
    <2>1. Mine(p) /\ Write(p, h, "start", 0)  BY <1>6 DEF BeginWorker
    <2>2. /\ h \in Handle /\ h.nonce = handle[p].nonce /\ h.epoch = handle[p].epoch
          /\ h.next = handle[p].next /\ h.seq = handle[p].seq /\ h.closed = FALSE
      BY <1>1, <2>1 DEF Handle
    <2> HIDE DEF h
    <2>3. "start" \in Types \ {"garbage", "header"}  BY DEF Types
    <2> QED  BY <1>2, <2>1, <2>2, <2>3
  <1>7. CASE RecordOther(p)  BY <1>3, <1>7 DEF RecordOther
  <1>8. CASE MigrateLegacy(p)
    <2>1. Mine(p)  BY <1>8 DEF MigrateLegacy
    <2>2. PICK c \in Checksums : Write(p, handle[p], "legacy", c)  BY <1>8 DEF MigrateLegacy
    <2>3. c \in Nat  BY WalAssumption
    <2> QED  BY <1>3, <2>1, <2>2, <2>3
  <1>9. Mine(p)
    BY DEF Appending, RecordSupplement, CloseFence, BeginWorker, RecordOther, MigrateLegacy
  <1> QED  BY <1>4, <1>5, <1>6, <1>7, <1>8, <1>9 DEF Appending

(* An append that throws and leaves nothing has at most reopened the fence *)
(* its writer remembers, if it was of a worker's start.                    *)
LEMMA LeavesNothing ==
  ASSUME FailedAppendsLeaveNothing, NEW line, Leaves(line)
  PROVE  UNCHANGED <<log, torn>>
  <1>1. PICK left \in FailedWrites \ {"start"} :
          CASE left = "nothing" -> UNCHANGED <<log, torn>>
            [] left = "part" -> torn' = TRUE /\ UNCHANGED log
            [] left = "line" -> Written(line)
    BY DEF Leaves
  <1>2. left = "nothing"  BY DEF FailedAppendsLeaveNothing
  <1> QED  BY <1>1, <1>2

LEMMA RefusedReopens ==
  ASSUME TypeOK, FailedAppendsLeaveNothing, NEW p \in Writers, AppendFails(p)
  PROVE  /\ UNCHANGED <<disk, holder, dead, pc, draft, nonces, acked>>
         /\ handle' \in [Writers -> Handle]
         /\ \A q \in Writers : q # p => handle'[q] = handle[q]
         /\ handle'[p].nonce = handle[p].nonce /\ handle'[p].epoch = handle[p].epoch
         /\ handle'[p].next = handle[p].next /\ handle'[p].seq = handle[p].seq
         /\ NoStartThrows => handle'[p].closed = handle[p].closed
  <1>1. UNCHANGED <<log, torn>>  BY LeavesNothing DEF AppendFails
  <1>2. handle \in [Writers -> Handle] /\ handle[p] \in Handle  BY DEF TypeOK
  <1>3. PICK c \in {handle[p].closed} \cup Reopened :
          handle' = [handle EXCEPT ![p].closed = c]
    BY DEF AppendFails
  <1>4. c \in BOOLEAN  BY <1>2 DEF Reopened, Handle
  <1>5. NoStartThrows => c = handle[p].closed  BY DEF NoStartThrows, Reopened
  <1> DEFINE h == [handle[p] EXCEPT !.closed = c]
  <1>6. /\ h \in Handle /\ h.nonce = handle[p].nonce /\ h.epoch = handle[p].epoch
        /\ h.next = handle[p].next /\ h.seq = handle[p].seq /\ h.closed = c
    BY <1>2, <1>4 DEF Handle
  <1>7. handle' = [handle EXCEPT ![p] = h]  BY <1>3
  <1> HIDE DEF h
  <1>8. handle'[p] = h /\ handle' \in [Writers -> Handle]  BY <1>2, <1>6, <1>7
  <1>9. \A q \in Writers : q # p => handle'[q] = handle[q]  BY <1>2, <1>7
  <1> QED  BY <1>1, <1>5, <1>6, <1>8, <1>9 DEF AppendFails, disk

(* The line, and what it does to log and handle.                           *)
LEMMA WriteFacts ==
  ASSUME IInv, NEW p \in Writers, Mine(p), Appends(p)
  PROVE  \E line \in Line :
           /\ log' = Append(log, line) /\ torn' = FALSE /\ acked' = acked \cup {line}
           /\ line.type \notin {"garbage", "header"} /\ line.index = Len(log) + 1
           /\ line.epoch = lease.epoch /\ line.by = lease.nonce
           /\ line.type = "supplement" =>
                line.data = NextSequence /\ (NoStartThrows => ~Closed)
           /\ handle' = [handle EXCEPT ![p] = handle'[p]]
           /\ handle'[p] \in Handle
           /\ handle'[p].nonce = handle[p].nonce /\ handle'[p].epoch = handle[p].epoch
           /\ handle'[p].next = Len(log) + 2
           /\ handle'[p].seq = IF line.type = "supplement" THEN NextSequence + 1
                                                           ELSE NextSequence
           /\ NoStartThrows =>
                handle'[p].closed = IF line.type \in {"fence", "start"} THEN line.type = "fence"
                                                                         ELSE Closed
           /\ UNCHANGED <<exists, file, lease, marker, trash, holder, dead, pc, draft, nonces>>
  <1>1. PICK h \in Handle, type \in Types \ {"garbage", "header"}, data \in Nat :
          /\ Write(p, h, type, data)
          /\ h.nonce = handle[p].nonce /\ h.epoch = handle[p].epoch
          /\ h.next = handle[p].next /\ h.seq = handle[p].seq
          /\ h.closed = IF type = "start" THEN FALSE ELSE handle[p].closed
          /\ type = "supplement" => data = h.seq /\ ~h.closed
    BY DEF Appends
  <1> DEFINE line == LineOf(h, type, data)
  <1>2. /\ line \in Line /\ line.type = type /\ line.index = h.next /\ line.epoch = h.epoch
        /\ line.by = h.nonce /\ line.data = data
    BY DEF LineOf, Line, Handle
  <1> HIDE DEF line
  <1>3. /\ ~torn /\ Current(handle[p]) /\ handle[p] \in Handle
        /\ lease.nonce = handle[p].nonce /\ lease.epoch = handle[p].epoch
    BY OwnerWrites
  <1>4. log' = Append(log, line) /\ torn' = FALSE /\ acked' = acked \cup {line}
    BY <1>1, <1>3 DEF Write, Written, line
  <1>5. /\ handle' = [handle EXCEPT ![p] = handle'[p]]
        /\ handle'[p] = [h EXCEPT !.next = @ + 1,
                                  !.seq = IF type = "supplement" THEN @ + 1 ELSE @,
                                  !.closed = @ \/ type = "fence"]
    BY <1>1 DEF Write, IInv, TypeOK
  <1>6. /\ handle'[p] \in Handle
        /\ handle'[p].nonce = h.nonce /\ handle'[p].epoch = h.epoch
        /\ handle'[p].next = h.next + 1
        /\ handle'[p].seq = IF type = "supplement" THEN h.seq + 1 ELSE h.seq
        /\ handle'[p].closed = (h.closed \/ type = "fence")
    <2>1. h.next + 1 \in Nat /\ h.seq + 1 \in Nat /\ (h.closed \/ type = "fence") \in BOOLEAN
      BY DEF Handle
    <2>2. handle'[p] = [nonce |-> h.nonce, epoch |-> h.epoch, next |-> h.next + 1,
                        seq |-> IF type = "supplement" THEN h.seq + 1 ELSE h.seq,
                        closed |-> (h.closed \/ type = "fence")]
      BY <1>5 DEF Handle
    <2>3. h.nonce \in 0..MaxHandles /\ h.epoch \in Nat /\ h.seq \in Nat  BY DEF Handle
    <2> QED  BY <2>1, <2>2, <2>3 DEF Handle
  <1>7. UNCHANGED <<exists, file, lease, marker, trash, holder, dead, pc, draft, nonces>>
    BY <1>1 DEF Write
  <1>8. handle[p].closed \in BOOLEAN /\ Closed \in BOOLEAN  BY <1>3 DEF Handle, Closed
  <1>9. /\ h.next = Len(log) + 1 /\ h.seq = NextSequence
        /\ NoStartThrows => h.closed = IF type = "start" THEN FALSE ELSE Closed
    BY <1>1, <1>3 DEF Current
  <1>10. /\ handle'[p].next = Len(log) + 2
         /\ handle'[p].seq = IF type = "supplement" THEN NextSequence + 1 ELSE NextSequence
         /\ NoStartThrows =>
              handle'[p].closed = IF type \in {"fence", "start"} THEN type = "fence" ELSE Closed
    <2>1. /\ handle'[p].next = Len(log) + 2
          /\ handle'[p].seq = IF type = "supplement" THEN NextSequence + 1 ELSE NextSequence
      BY <1>6, <1>9, LinesOf DEF IInv
    <2>2. ASSUME NoStartThrows
          PROVE  handle'[p].closed = IF type \in {"fence", "start"} THEN type = "fence" ELSE Closed
      BY <1>6, <1>8, <1>9, <2>2
    <2> QED  BY <2>1, <2>2
  <1> QED  BY <1>1, <1>2, <1>3, <1>4, <1>5, <1>6, <1>7, <1>9, <1>10

-----------------------------------------------------------------------------
(* A line with the lease's epoch and nonce keeps the log in order.         *)
LEMMA LineKeepsLog ==
  ASSUME TypeOK, LogIsReplayable, EpochsFenceWriters, LeaseIsNewest, Numbered,
         lease.state = "held", lease' = lease,
         NEW line \in Line, log' = Append(log, line),
         line.type # "garbage", line.index = Len(log) + 1,
         line.epoch = lease.epoch, line.by = lease.nonce,
         line.type = "supplement" => line.data = NextSequence
  PROVE  LogIsReplayable' /\ EpochsFenceWriters' /\ LeaseIsNewest' /\ Numbered'
         /\ MaxEpoch' = lease.epoch
  <1> DEFINE n == Len(log) + 1
  <1>1. /\ DOMAIN log' = DOMAIN log \cup {n} /\ n \in Nat /\ log'[n] = line
        /\ \A k \in DOMAIN log : k \in Nat /\ k < n /\ log'[k] = log[k]
    BY Grown, LinesOf
  <1>2. \A k \in DOMAIN log : /\ log[k].epoch <= lease.epoch
                              /\ log[k].epoch = lease.epoch => log[k].by = lease.nonce
    BY DEF LeaseIsNewest
  <1>3. lease.epoch \in Nat  BY DEF TypeOK, Lease
  <1> HIDE DEF n
  <1>4. LogIsReplayable'  BY <1>1 DEF LogIsReplayable, Readable, n
  <1>5. EpochsFenceWriters'
    <2> SUFFICES ASSUME NEW k \in DOMAIN log', NEW l \in DOMAIN log', k < l
                 PROVE  /\ log'[k].epoch <= log'[l].epoch
                        /\ log'[k].epoch = log'[l].epoch => log'[k].by = log'[l].by
      BY DEF EpochsFenceWriters
    <2>1. k \in DOMAIN log  BY <1>1
    <2>2. CASE l \in DOMAIN log  BY <1>1, <2>1, <2>2 DEF EpochsFenceWriters
    <2>3. CASE l = n  BY <1>1, <1>2, <2>1, <2>3
    <2> QED  BY <1>1, <2>2, <2>3
  <1>6. LeaseIsNewest'  BY <1>1, <1>2, <1>3 DEF LeaseIsNewest
  <1>7. Numbered'  BY GrownReplay
  <1>8. MaxEpoch' = lease.epoch
    <2>1. MaxEpoch' = Highest(EpochsOf(log'))  BY DEF MaxEpoch, EpochsOf
    <2>2. log' \in Seq(Line)  BY Grown
    <2>3. /\ MaxEpoch' \in EpochsOf(log') /\ EpochsOf(log') \in SUBSET Nat
          /\ \A m \in EpochsOf(log') : m <= MaxEpoch'
      BY <1>5, <2>1, <2>2, NewestIs DEF EpochsFenceWriters
    <2>4. lease.epoch \in EpochsOf(log')  BY <1>1 DEF EpochsOf
    <2>5. \A m \in EpochsOf(log') : m <= lease.epoch  BY <1>1, <1>2, <1>3 DEF EpochsOf
    <2> QED  BY <1>3, <2>3, <2>4, <2>5
  <1> QED  BY <1>4, <1>5, <1>6, <1>7, <1>8

(* Every append of a writer keeps the invariant.                           *)
LEMMA AppendKeepsIInv ==
  ASSUME IInv, NEW p \in Writers, Mine(p), Appends(p)
  PROVE  IInv'
  <1>1. PICK line \in Line :
           /\ log' = Append(log, line) /\ torn' = FALSE /\ acked' = acked \cup {line}
           /\ line.type \notin {"garbage", "header"} /\ line.index = Len(log) + 1
           /\ line.epoch = lease.epoch /\ line.by = lease.nonce
           /\ line.type = "supplement" =>
                line.data = NextSequence /\ (NoStartThrows => ~Closed)
           /\ handle' = [handle EXCEPT ![p] = handle'[p]]
           /\ handle'[p] \in Handle
           /\ handle'[p].nonce = handle[p].nonce /\ handle'[p].epoch = handle[p].epoch
           /\ handle'[p].next = Len(log) + 2
           /\ handle'[p].seq = IF line.type = "supplement" THEN NextSequence + 1
                                                           ELSE NextSequence
           /\ NoStartThrows =>
                handle'[p].closed = IF line.type \in {"fence", "start"} THEN line.type = "fence"
                                                                         ELSE Closed
           /\ UNCHANGED <<exists, file, lease, marker, trash, holder, dead, pc, draft, nonces>>
    BY WriteFacts
  <1>2. /\ exists /\ file /\ ~marker /\ holder = NoProc /\ lease.state = "held"
        /\ handle[p].nonce # 0 /\ lease.nonce = handle[p].nonce /\ lease.epoch = handle[p].epoch
    BY OwnerWrites
  <1>3. LogIsReplayable' /\ EpochsFenceWriters' /\ LeaseIsNewest' /\ Numbered'
        /\ MaxEpoch' = lease.epoch
    BY <1>1, <1>2, LineKeepsLog DEF IInv
  <1>4. TypeOK'  BY <1>1, Grown DEF IInv, TypeOK
  <1>5. Holding' /\ WritersInside' /\ CollectorsInside'
    BY <1>1 DEF IInv, Holding, WritersInside, CollectorsInside
  <1>6. NoncesDiffer'
    <2>1. \A q \in Writers : handle'[q].nonce = handle[q].nonce  BY <1>1 DEF IInv, TypeOK
    <2>2. UNCHANGED <<draft, nonces>>  BY <1>1
    <2> QED  BY <2>1, <2>2 DEF IInv, NoncesDiffer
  <1>7. NothingYet'  BY <1>1, <1>2 DEF IInv, NothingYet
  <1>8. TornIsUnowned'  BY <1>1 DEF TornIsUnowned
  <1>9. \A q \in Writers : pc[q] = "idle"
    BY <1>2, WalAssumption DEF IInv, Holding, Procs
  <1>10. DraftIsCurrent'  BY <1>1, <1>9 DEF IInv, DraftIsCurrent
  <1>11. OwnerIsCurrent'
    <2>1. \A q \in Writers : Owns(q)' => q = p
      BY <1>1, <1>2 DEF Owns, IInv, NoncesDiffer, TypeOK
    <2>2. Current(handle[p])'
      <3>1. Len(log') = Len(log) + 1  BY <1>1, Grown DEF IInv
      <3>2. /\ NextSequence' = IF line.type = "supplement" THEN NextSequence + 1
                                                           ELSE NextSequence
            /\ Closed' = IF line.type \in {"fence", "start"} THEN line.type = "fence"
                                                              ELSE Closed
        BY <1>1, GrownReplay DEF IInv
      <3>3. lease.epoch \in Nat /\ Len(log) \in Nat  BY LinesOf DEF IInv, TypeOK, Lease
      <3> QED  BY <1>1, <1>2, <1>3, <3>1, <3>2, <3>3 DEF Current
    <2> QED  BY <2>1, <2>2 DEF OwnerIsCurrent
  <1>12. AckedIsDurable'  BY <1>1, <1>2, Grown DEF IInv, AckedIsDurable
  <1> QED
    BY <1>3, <1>4, <1>5, <1>6, <1>7, <1>8, <1>10, <1>11, <1>12 DEF IInv
-----------------------------------------------------------------------------
(* Steps that write nothing to the log, and let nobody own the lease who   *)
(* did not own it before.                                                  *)
LEMMA LogKept ==
  ASSUME IInv, log' = log, marker => marker',
         lease' = lease \/ lease'.state # "held",
         \A q \in Writers : Owns(q)' => Owns(q) /\ handle'[q] = handle[q],
         torn' => torn \/ \A q \in Writers : ~Owns(q)'
  PROVE  /\ LogIsReplayable' /\ EpochsFenceWriters' /\ LeaseIsNewest' /\ TornIsUnowned'
         /\ Numbered' /\ OwnerIsCurrent'
         /\ MaxEpoch' = MaxEpoch /\ NextSequence' = NextSequence /\ Closed' = Closed
  <1>1. /\ MaxEpoch' = MaxEpoch /\ NextSequence' = NextSequence /\ Closed' = Closed
        /\ Numbered' = Numbered
    BY SameReplay
  <1>2. LogIsReplayable' /\ EpochsFenceWriters'
    BY DEF IInv, LogIsReplayable, Readable, EpochsFenceWriters
  <1>3. LeaseIsNewest'  BY DEF IInv, LeaseIsNewest
  <1>4. TornIsUnowned'  BY DEF IInv, TornIsUnowned
  <1>5. OwnerIsCurrent'  BY <1>1 DEF IInv, OwnerIsCurrent, Current
  <1> QED  BY <1>1, <1>2, <1>3, <1>4, <1>5 DEF IInv

(* Whoever does not hold the operation lock is inside no operation.        *)
LEMMA OthersIdle ==
  ASSUME IInv
  PROVE  \A q \in Procs : holder # q => pc[q] = "idle"
  BY DEF IInv, Holding

(* Whoever is inside an operation has the lock.                            *)
LEMMA InsideHolds ==
  ASSUME IInv, NEW p \in Procs, pc[p] # "idle"
  PROVE  holder = p /\ p \notin dead /\ \A q \in Procs : q # p => pc[q] = "idle"
  BY DEF IInv, Holding

(* At first.                                                               *)
LEMMA InitIInv == Init => IInv
  <1> SUFFICES ASSUME Init  PROVE IInv
    OBVIOUS
  <1> USE DEF Init
  <1>1. log = <<>> /\ Len(log) = 0 /\ DOMAIN log = {} /\ log \in Seq(Line)
    BY EmptySeq, LenProperties
  <1>2. TypeOK
    <2>1. NoHandle \in Handle /\ NoLease \in Lease
      BY WalAssumption DEF NoHandle, Handle, NoLease, Lease
    <2>2. /\ handle \in [Writers -> Handle] /\ draft \in [Writers -> Handle]
          /\ pc \in [Procs -> Places]
      BY <2>1 DEF Places
    <2>3. nonces \in 0..MaxHandles /\ trash \in Nat  BY WalAssumption
    <2> QED  BY <1>1, <2>1, <2>2, <2>3 DEF TypeOK
  <1>3. Holding /\ WritersInside /\ CollectorsInside
    BY DEF Holding, WritersInside, CollectorsInside
  <1>4. NoncesDiffer /\ NothingYet  BY DEF NoncesDiffer, NothingYet, NoHandle
  <1>5. LogIsReplayable /\ EpochsFenceWriters /\ LeaseIsNewest
    BY <1>1 DEF LogIsReplayable, Readable, EpochsFenceWriters, LeaseIsNewest
  <1>6. TornIsUnowned /\ DraftIsCurrent  BY DEF TornIsUnowned, DraftIsCurrent, NoHandle, Procs
  <1>7. Numbered
    <2>1. Numbers(log) = {1}  BY <1>1 DEF Numbers
    <2>2. Fences(log) = {}  BY <1>1 DEF Fences
    <2> QED  BY <2>1, <2>2 DEF Numbered, HasGreatest
  <1>8. OwnerIsCurrent /\ AckedIsDurable
    BY DEF OwnerIsCurrent, Owns, NoHandle, AckedIsDurable
  <1> QED  BY <1>2, <1>3, <1>4, <1>5, <1>6, <1>7, <1>8 DEF IInv

(* An operation begins with a fresh nonce, or with the handle's own.       *)
LEMMA OpenKeepsIInv ==
  ASSUME IInv, NEW p \in Writers, Open(p) \/ TakeOver(p)
  PROVE  IInv'
  <1> USE DEF Procs
  <1>1. /\ p \notin dead /\ pc[p] = "idle" /\ holder = NoProc /\ ~marker
        /\ holder' = p /\ pc' = [pc EXCEPT ![p] = "opening"]
        /\ UNCHANGED <<file, log, torn, lease, marker, trash, dead, handle, acked>>
    BY DEF Open, TakeOver, Free, Enter, disk
  <1>2. /\ draft' = [draft EXCEPT ![p] = draft'[p]] /\ draft'[p] \in Handle
        /\ nonces' \in 0..MaxHandles /\ nonces <= nonces' /\ exists'
        /\ draft'[p].nonce # 0 /\ draft'[p].nonce <= nonces'
        /\ \A q \in Writers : q # p => draft'[p].nonce # handle[q].nonce
    <2>1. CASE Open(p)
      <3>1. draft'[p] = [NoHandle EXCEPT !.nonce = nonces + 1]  BY <2>1 DEF Open, IInv, TypeOK
      <3>2. nonces \in Nat /\ nonces' = nonces + 1 /\ nonces' \in 0..MaxHandles /\ exists'
        BY <2>1, WalAssumption DEF Open, IInv, TypeOK
      <3>3. draft'[p].nonce = nonces + 1 /\ draft'[p] \in Handle
        <4>1. draft'[p] = [nonce |-> nonces + 1, epoch |-> 0, next |-> 1, seq |-> 1,
                           closed |-> FALSE]
          BY <3>1 DEF NoHandle
        <4> QED  BY <3>2, <4>1 DEF Handle
      <3>4. \A q \in Writers : handle[q].nonce <= nonces /\ handle[q].nonce \in Nat
        BY DEF IInv, NoncesDiffer, TypeOK, Handle
      <3>5. draft' = [draft EXCEPT ![p] = draft'[p]]  BY <2>1 DEF Open, IInv, TypeOK
      <3> QED  BY <3>2, <3>3, <3>4, <3>5
    <2>2. CASE TakeOver(p)
      <3>1. /\ draft'[p] = handle[p] /\ draft' = [draft EXCEPT ![p] = draft'[p]]
            /\ handle[p].nonce # 0 /\ handle[p] \in Handle /\ UNCHANGED <<exists, nonces>>
        BY <2>2 DEF TakeOver, IInv, TypeOK, disk
      <3>2. exists  BY <1>1, <3>1 DEF IInv, NothingYet
      <3> QED  BY <3>1, <3>2 DEF IInv, NoncesDiffer, TypeOK
    <2> QED  BY <2>1, <2>2
  <1>3. \A q \in Procs : pc[q] = "idle"
    BY <1>1, WalAssumption DEF IInv, Holding
  <1>4. TypeOK'
    BY <1>1, <1>2 DEF IInv, TypeOK, Places
  <1>5. Holding' /\ WritersInside' /\ CollectorsInside'
    BY <1>1, <1>2, <1>3 DEF IInv, TypeOK, Holding, WritersInside, CollectorsInside
  <1>6. NoncesDiffer'
    <2>1. \A q \in Writers : handle[q].nonce \in Nat /\ draft[q].nonce \in Nat
      <3>1. \A h \in Handle : h.nonce \in Nat  BY DEF Handle
      <3> QED  BY <3>1 DEF IInv, TypeOK
    <2>2. \A q \in Writers : q # p => draft'[q] = draft[q]  BY <1>2 DEF IInv, TypeOK
    <2>3. nonces \in Nat /\ nonces' \in Nat  BY <1>2 DEF IInv, TypeOK
    <2>4. \A q \in Writers : handle'[q].nonce <= nonces' /\ draft'[q].nonce <= nonces'
      BY <1>1, <1>2, <2>1, <2>2, <2>3 DEF IInv, NoncesDiffer
    <2> QED  BY <1>1, <1>2, <2>2, <2>4 DEF IInv, NoncesDiffer
  <1>7. NothingYet'  BY <1>1, <1>2 DEF IInv, NothingYet
  <1>8. /\ LogIsReplayable' /\ EpochsFenceWriters' /\ LeaseIsNewest' /\ TornIsUnowned'
        /\ Numbered' /\ OwnerIsCurrent'
    BY <1>1, LogKept DEF Owns
  <1>9. DraftIsCurrent'
    BY <1>1, <1>2, <1>3 DEF IInv, TypeOK, DraftIsCurrent
  <1>10. AckedIsDurable'
    BY <1>1, <1>2 DEF IInv, NothingYet, AckedIsDurable
  <1> QED
    BY <1>4, <1>5, <1>6, <1>7, <1>8, <1>9, <1>10 DEF IInv

(* The handle after a replay.                                              *)
LEMMA ReplayedIs ==
  ASSUME NEW d \in Handle
  PROVE  Replayed(d) = [nonce |-> d.nonce, epoch |-> Highest({d.epoch, MaxEpoch}),
                        next |-> Len(log) + 1, seq |-> NextSequence, closed |-> Closed]
  <1> DEFINE e == Highest({d.epoch, MaxEpoch})
  <1> HIDE DEF e
  <1>1. Replayed(d) = [d EXCEPT !.epoch = e, !.next = Len(log) + 1, !.seq = NextSequence,
                                !.closed = Closed]
    BY Zenon DEF Replayed, e
  <1>2. Replayed(d) = [nonce |-> d.nonce, epoch |-> e, next |-> Len(log) + 1,
                       seq |-> NextSequence, closed |-> Closed]
    BY <1>1 DEF Handle
  <1> QED  BY <1>2 DEF e

(* A replay reads what DraftIsCurrent says, a failed one leaves nothing,   *)
(* and a writer that gives its lease back is no longer an owner.           *)
LEMMA ReplayKeepsIInv ==
  ASSUME IInv, NEW p \in Writers, Replay(p)
  PROVE  IInv'
  <1> USE DEF Procs
  <1>1. /\ pc[p] = "opening" /\ p \notin dead /\ torn' = FALSE
        /\ pc' = [pc EXCEPT ![p] = "replayed"] /\ draft' = [draft EXCEPT ![p] = Replayed(draft[p])]
        /\ UNCHANGED <<exists, file, log, lease, marker, trash, holder, dead, handle, nonces, acked>>
    BY DEF Replay, Inside, Goto
  <1>2. holder = p /\ \A q \in Procs : q # p => pc[q] = "idle"  BY <1>1, InsideHolds
  <1>3. exists /\ ~marker  BY <1>1 DEF IInv, WritersInside
  <1> DEFINE h == Replayed(draft[p])
  <1>4. h \in Handle /\ h.nonce = draft[p].nonce /\ Current(h)
    <2>1. draft[p] \in Handle /\ draft[p].epoch \in Nat /\ draft[p].nonce \in 0..MaxHandles
      BY DEF IInv, TypeOK, Handle
    <2>2. /\ MaxEpoch \in Nat /\ NextSequence \in Nat /\ Closed \in BOOLEAN
          /\ Len(log) + 1 \in Nat
      BY MaxEpochIs, NextSequenceIs, LinesOf DEF IInv, Closed
    <2>3. Highest({draft[p].epoch, MaxEpoch}) \in Nat /\ MaxEpoch <= Highest({draft[p].epoch, MaxEpoch})
      BY <2>1, <2>2, HighestOfTwo
    <2> DEFINE e == Highest({draft[p].epoch, MaxEpoch})
    <2>4. h = [nonce |-> draft[p].nonce, epoch |-> e, next |-> Len(log) + 1,
               seq |-> NextSequence, closed |-> Closed]
      BY <2>1, ReplayedIs
    <2> HIDE DEF e, h
    <2>5. e \in Nat /\ MaxEpoch <= e  BY <2>3 DEF e
    <2> QED  BY <2>1, <2>2, <2>4, <2>5 DEF Handle, Current
  <1> HIDE DEF h
  <1>5. draft' = [draft EXCEPT ![p] = h]  BY <1>1 DEF h
  <1>6. TypeOK'  BY <1>1, <1>4, <1>5 DEF IInv, TypeOK, Places
  <1>7. Holding' /\ WritersInside' /\ CollectorsInside'
    BY <1>1, <1>2, <1>3 DEF IInv, TypeOK, Holding, WritersInside, CollectorsInside
  <1>8. NoncesDiffer'  BY <1>1, <1>4, <1>5 DEF IInv, NoncesDiffer, TypeOK
  <1>9. NothingYet'  BY <1>1 DEF IInv, NothingYet
  <1>10. /\ LogIsReplayable' /\ EpochsFenceWriters' /\ LeaseIsNewest' /\ TornIsUnowned'
         /\ Numbered' /\ OwnerIsCurrent'
         /\ MaxEpoch' = MaxEpoch /\ NextSequence' = NextSequence /\ Closed' = Closed
    BY <1>1, LogKept DEF Owns
  <1>11. DraftIsCurrent'
    <2>1. draft'[p] = h /\ pc'[p] = "replayed"  BY <1>1, <1>5 DEF IInv, TypeOK
    <2>2. Current(draft[p])'  BY <1>1, <1>4, <1>10, <2>1 DEF Current
    <2>3. h.nonce # 0  BY <1>1, <1>4 DEF IInv, DraftIsCurrent
    <2>4. \A q \in Writers : q # p => pc'[q] = "idle" /\ draft'[q].nonce = 0
      BY <1>1, <1>2, <1>5 DEF IInv, TypeOK, DraftIsCurrent
    <2> QED  BY <1>1, <2>1, <2>2, <2>3, <2>4 DEF DraftIsCurrent
  <1>12. AckedIsDurable'  BY <1>1 DEF IInv, AckedIsDurable
  <1> QED
    BY <1>6, <1>7, <1>8, <1>9, <1>10, <1>11, <1>12 DEF IInv

LEMMA GiveUpKeepsIInv ==
  ASSUME IInv, NEW p \in Writers, GiveUp(p)
  PROVE  IInv'
  <1> USE DEF Procs
  <1>1. /\ pc[p] \in {"opening", "replayed"} /\ holder' = NoProc
        /\ pc' = [pc EXCEPT ![p] = "idle"] /\ draft' = [draft EXCEPT ![p] = NoHandle]
        /\ UNCHANGED <<exists, file, log, torn, lease, marker, trash, dead, handle, nonces, acked>>
    BY DEF GiveUp, Inside, Leave, disk
  <1>2. \A q \in Procs : pc'[q] = "idle"  BY <1>1, InsideHolds DEF IInv, TypeOK
  <1>3. NoHandle \in Handle /\ NoHandle.nonce = 0  BY WalAssumption DEF NoHandle, Handle
  <1>4. TypeOK'  BY <1>1, <1>3 DEF IInv, TypeOK, Places
  <1>5. Holding' /\ WritersInside' /\ CollectorsInside'
    BY <1>2 DEF Holding, WritersInside, CollectorsInside
  <1>6. NoncesDiffer'  BY <1>1, <1>3 DEF IInv, NoncesDiffer, TypeOK
  <1>7. NothingYet'  BY <1>1 DEF IInv, NothingYet
  <1>8. /\ LogIsReplayable' /\ EpochsFenceWriters' /\ LeaseIsNewest' /\ TornIsUnowned'
        /\ Numbered' /\ OwnerIsCurrent'
    BY <1>1, LogKept DEF Owns
  <1>9. DraftIsCurrent'
    <2>1. \A q \in Writers : q # p => pc[q] = "idle" /\ draft'[q] = draft[q]
      BY <1>1, InsideHolds DEF IInv, TypeOK
    <2>2. \A q \in Writers : draft'[q].nonce = 0
      BY <1>1, <1>3, <2>1 DEF IInv, DraftIsCurrent, TypeOK
    <2> QED  BY <1>2, <2>2 DEF DraftIsCurrent
  <1>10. AckedIsDurable'  BY <1>1 DEF IInv, AckedIsDurable
  <1> QED
    BY <1>4, <1>5, <1>6, <1>7, <1>8, <1>9, <1>10 DEF IInv

(* A rejected header leaves at most an empty file, and a lease nobody's    *)
(* object owns.                                                            *)
LEMMA HeaderFailsKeepsIInv ==
  ASSUME IInv, FailedAppendsLeaveNothing, NEW p \in Writers, HeaderFails(p)
  PROVE  IInv'
  <1> USE DEF Procs
  <1>1. /\ pc[p] = "leased" /\ holder' = NoProc
        /\ pc' = [pc EXCEPT ![p] = "idle"] /\ draft' = [draft EXCEPT ![p] = NoHandle]
        /\ file' \in BOOLEAN
        /\ UNCHANGED <<exists, log, torn, lease, marker, trash, dead, handle, nonces, acked>>
    <2>1. UNCHANGED <<log, torn>>  BY LeavesNothing DEF HeaderFails
    <2>2. torn' \in BOOLEAN  BY <2>1 DEF IInv, TypeOK
    <2> QED  BY <2>1, <2>2 DEF HeaderFails, Inside, Leave
  <1>2. \A q \in Procs : pc'[q] = "idle"  BY <1>1, InsideHolds DEF IInv, TypeOK
  <1>3. NoHandle \in Handle /\ NoHandle.nonce = 0  BY WalAssumption DEF NoHandle, Handle
  <1>4. TypeOK'  BY <1>1, <1>3 DEF IInv, TypeOK, Places
  <1>5. Holding' /\ WritersInside' /\ CollectorsInside'
    BY <1>2 DEF Holding, WritersInside, CollectorsInside
  <1>6. NoncesDiffer'  BY <1>1, <1>3 DEF IInv, NoncesDiffer, TypeOK
  <1>7. NothingYet'
    <2>1. exists /\ ~file  BY <1>1 DEF IInv, WritersInside, DraftIsCurrent
    <2> QED  BY <1>1, <2>1 DEF IInv, NothingYet
  <1>8. /\ LogIsReplayable' /\ EpochsFenceWriters' /\ LeaseIsNewest' /\ TornIsUnowned'
        /\ Numbered' /\ OwnerIsCurrent'
    BY <1>1, LogKept DEF Owns
  <1>9. DraftIsCurrent'
    <2>1. \A q \in Writers : q # p => pc[q] = "idle" /\ draft'[q] = draft[q]
      BY <1>1, InsideHolds DEF IInv, TypeOK
    <2>2. \A q \in Writers : draft'[q].nonce = 0
      BY <1>1, <1>3, <2>1 DEF IInv, DraftIsCurrent, TypeOK
    <2> QED  BY <1>2, <2>2 DEF DraftIsCurrent
  <1>10. AckedIsDurable'  BY <1>1 DEF IInv, AckedIsDurable
  <1> QED
    BY <1>4, <1>5, <1>6, <1>7, <1>8, <1>9, <1>10 DEF IInv

(* A rejected append leaves everything but the fence its writer remembers. *)
LEMMA RefusedKeepsIInv ==
  ASSUME IInv, FailedAppendsLeaveNothing, NEW p \in Writers, AppendFails(p)
  PROVE  IInv'
  <1>1. /\ UNCHANGED <<exists, file, log, torn, lease, marker, trash>>
        /\ UNCHANGED <<holder, dead, pc, draft, nonces, acked>>
        /\ handle' \in [Writers -> Handle]
        /\ \A q \in Writers : q # p => handle'[q] = handle[q]
        /\ handle'[p].nonce = handle[p].nonce /\ handle'[p].epoch = handle[p].epoch
        /\ handle'[p].next = handle[p].next /\ handle'[p].seq = handle[p].seq
        /\ NoStartThrows => handle'[p].closed = handle[p].closed
    BY RefusedReopens DEF IInv, disk
  <1>2. /\ MaxEpoch' = MaxEpoch /\ NextSequence' = NextSequence /\ Closed' = Closed
        /\ Numbered' = Numbered
    BY <1>1, SameReplay
  <1>3. \A q \in Writers : handle'[q].nonce = handle[q].nonce /\ handle'[q].epoch = handle[q].epoch
    BY <1>1
  <1>4. \A q \in Writers : Owns(q)' = Owns(q)  BY <1>1, <1>3 DEF Owns
  <1>5. TypeOK'  BY <1>1 DEF IInv, TypeOK
  <1>6. Holding' /\ WritersInside' /\ CollectorsInside'
    BY <1>1 DEF IInv, Holding, WritersInside, CollectorsInside
  <1>7. NoncesDiffer' /\ NothingYet'  BY <1>1, <1>3 DEF IInv, NoncesDiffer, NothingYet
  <1>8. LogIsReplayable' /\ EpochsFenceWriters' /\ LeaseIsNewest'
    BY <1>1 DEF IInv, LogIsReplayable, Readable, EpochsFenceWriters, LeaseIsNewest
  <1>9. TornIsUnowned' /\ Numbered'  BY <1>1, <1>2, <1>4 DEF IInv, TornIsUnowned
  <1>10. \A q \in Writers : Current(handle[q]) => Current(handle[q])'
    <2> SUFFICES ASSUME NEW q \in Writers, Current(handle[q])  PROVE Current(handle[q])'
      OBVIOUS
    <2>1. CASE q = p  BY <1>1, <1>2, <2>1 DEF Current
    <2>2. CASE q # p  BY <1>1, <1>2, <2>2 DEF Current
    <2> QED  BY <2>1, <2>2
  <1>11. OwnerIsCurrent'  BY <1>1, <1>4, <1>10 DEF IInv, OwnerIsCurrent
  <1>12. DraftIsCurrent'
    <2>1. \A q \in Writers : Current(draft[q])' = Current(draft[q])  BY <1>1, <1>2 DEF Current
    <2> QED  BY <1>1, <2>1 DEF IInv, DraftIsCurrent
  <1>13. AckedIsDurable'  BY <1>1 DEF IInv, AckedIsDurable
  <1> QED
    BY <1>5, <1>6, <1>7, <1>8, <1>9, <1>11, <1>12, <1>13 DEF IInv

LEMMA ReleaseKeepsIInv ==
  ASSUME IInv, NEW p \in Writers, ReleaseLease(p)
  PROVE  IInv'
  <1> USE DEF Procs
  <1>1. /\ lease' = NoLease /\ holder = NoProc /\ Owns(p) /\ ~marker
        /\ UNCHANGED <<exists, file, log, torn, marker, trash, holder, dead, pc, handle, draft,
                       nonces, acked>>
    BY DEF ReleaseLease, Mine, Free
  <1>2. \A q \in Procs : pc[q] = "idle"  BY <1>1, WalAssumption DEF IInv, Holding
  <1>3. NoLease \in Lease /\ NoLease.state = "none"  BY WalAssumption DEF NoLease, Lease
  <1>4. TypeOK'  BY <1>1, <1>3 DEF IInv, TypeOK
  <1>5. Holding' /\ WritersInside' /\ CollectorsInside'
    BY <1>1, <1>2 DEF Holding, WritersInside, CollectorsInside
  <1>6. NoncesDiffer'  BY <1>1 DEF IInv, NoncesDiffer
  <1>7. NothingYet'  BY <1>1 DEF IInv, NothingYet
  <1>8. /\ LogIsReplayable' /\ EpochsFenceWriters' /\ LeaseIsNewest' /\ TornIsUnowned'
        /\ Numbered' /\ OwnerIsCurrent'
    BY <1>1, <1>3, LogKept DEF Owns
  <1>9. DraftIsCurrent'  BY <1>1, <1>2 DEF IInv, DraftIsCurrent
  <1>10. AckedIsDurable'  BY <1>1 DEF IInv, AckedIsDurable
  <1> QED
    BY <1>4, <1>5, <1>6, <1>7, <1>8, <1>9, <1>10 DEF IInv

(* A new lease is past every line: nobody else owns it, and the handle     *)
(* that took it knows the log.                                             *)
LEMMA AcquireKeepsIInv ==
  ASSUME IInv, NEW p \in Writers, AcquireLease(p)
  PROVE  IInv'
  <1> USE DEF Procs
  <1> DEFINE h == [draft[p] EXCEPT !.epoch = NextEpoch(p)]
  <1>1. /\ pc[p] = "replayed"
        /\ lease' = [state |-> "held", nonce |-> h.nonce, pid |-> p, epoch |-> h.epoch]
        /\ IF file THEN /\ handle' = [handle EXCEPT ![p] = h]
                        /\ draft' = [draft EXCEPT ![p] = NoHandle]
                        /\ holder' = NoProc /\ pc' = [pc EXCEPT ![p] = "idle"]
                   ELSE /\ draft' = [draft EXCEPT ![p] = h] /\ UNCHANGED <<handle, holder>>
                        /\ pc' = [pc EXCEPT ![p] = "leased"]
        /\ UNCHANGED <<exists, file, log, torn, marker, trash, dead, nonces, acked>>
    BY DEF AcquireLease, Inside, Goto, Leave
  <1>2. /\ holder = p /\ p \notin dead
        /\ \A q \in Procs : q # p => pc[q] = "idle"
        /\ \A q \in Writers : q # p => draft[q].nonce = 0
    BY <1>1, InsideHolds DEF IInv, DraftIsCurrent
  <1>3. /\ draft[p] \in Handle /\ draft[p].nonce # 0 /\ ~torn /\ Current(draft[p])
        /\ exists /\ ~marker
    BY <1>1 DEF IInv, DraftIsCurrent, WritersInside, TypeOK
  <1>4. /\ NextEpoch(p) \in Nat /\ draft[p].epoch < NextEpoch(p) /\ draft[p].epoch \in Nat
    <2>1. draft[p].epoch \in Nat /\ lease.epoch \in Nat
      BY <1>3 DEF Handle, IInv, TypeOK, Lease
    <2> DEFINE m == Highest({draft[p].epoch, lease.epoch})
    <2>2. m \in Nat /\ draft[p].epoch <= m  BY <2>1, HighestOfTwo
    <2>3. NextEpoch(p) = m + 1  BY DEF NextEpoch
    <2> HIDE DEF m
    <2> QED  BY <2>1, <2>2, <2>3
  <1>5. /\ h \in Handle /\ h.nonce = draft[p].nonce /\ h.epoch = NextEpoch(p)
        /\ h.next = draft[p].next /\ h.seq = draft[p].seq /\ h.closed = draft[p].closed
    BY <1>3, <1>4 DEF Handle
  <1> HIDE DEF h
  <1>6. /\ MaxEpoch \in Nat /\ MaxEpoch < h.epoch
        /\ \A k \in DOMAIN log : log[k].epoch < h.epoch
    <2>1. /\ MaxEpoch \in Nat /\ \A k \in DOMAIN log : log[k].epoch <= MaxEpoch
      BY MaxEpochIs DEF IInv
    <2>2. MaxEpoch < h.epoch  BY <1>3, <1>4, <1>5, <2>1 DEF Current
    <2>3. h.epoch \in Nat /\ \A k \in DOMAIN log : log[k].epoch \in Nat
      BY <1>4, <1>5, LinesOf DEF IInv
    <2> QED  BY <2>1, <2>2, <2>3
  <1>7. /\ lease' \in Lease /\ lease'.state = "held" /\ lease'.nonce = h.nonce
        /\ lease'.epoch = h.epoch
    BY <1>1, <1>5 DEF Lease, Handle
  <1>8. NoHandle \in Handle /\ NoHandle.nonce = 0  BY WalAssumption DEF NoHandle, Handle
  <1>9. /\ MaxEpoch' <= h.epoch /\ h.next = Len(log') + 1 /\ h.seq = NextSequence'
        /\ NoStartThrows => h.closed = Closed'
    <2>1. MaxEpoch' = MaxEpoch /\ NextSequence' = NextSequence /\ Closed' = Closed
      BY <1>1, SameReplay
    <2>2. MaxEpoch <= h.epoch  BY <1>4, <1>5, <1>6
    <2> QED  BY <1>1, <1>3, <1>5, <2>1, <2>2 DEF Current
  <1>10. LogIsReplayable' /\ EpochsFenceWriters' /\ LeaseIsNewest' /\ Numbered'
    <2>1. LogIsReplayable' /\ EpochsFenceWriters' /\ Numbered'
      BY <1>1, SameReplay DEF IInv, LogIsReplayable, Readable, EpochsFenceWriters
    <2>2. \A k \in DOMAIN log : log[k].epoch <= h.epoch /\ log[k].epoch # h.epoch
      BY <1>4, <1>5, <1>6, LinesOf DEF IInv
    <2>3. LeaseIsNewest'  BY <1>1, <1>7, <2>2 DEF LeaseIsNewest
    <2> QED  BY <2>1, <2>3
  <1>11. TornIsUnowned'  BY <1>1, <1>3 DEF TornIsUnowned
  <1>12. NothingYet'
    <2>1. ~file => handle' = handle  BY <1>1
    <2>2. exists' /\ file' = file /\ log' = log /\ torn' = torn /\ marker' = marker /\ acked' = acked
      BY <1>1, <1>3
    <2> QED  BY <2>1, <2>2 DEF IInv, NothingYet
  <1>13. AckedIsDurable'  BY <1>1 DEF IInv, AckedIsDurable
  <1>14. \A q \in Writers : q # p => draft[p].nonce # handle[q].nonce
    BY <1>3 DEF IInv, NoncesDiffer
  <1>15. CASE file
    <2>1. /\ handle' = [handle EXCEPT ![p] = h] /\ draft' = [draft EXCEPT ![p] = NoHandle]
          /\ holder' = NoProc /\ pc' = [pc EXCEPT ![p] = "idle"]
      BY <1>1, <1>15
    <2>2. \A q \in Procs : pc'[q] = "idle"  BY <1>2, <2>1 DEF IInv, TypeOK
    <2>3. /\ \A q \in Writers : q # p => handle'[q] = handle[q] /\ draft'[q] = draft[q]
          /\ handle'[p] = h /\ draft'[p] = NoHandle
      BY <2>1 DEF IInv, TypeOK
    <2>4. TypeOK'  BY <1>1, <1>5, <1>7, <1>8, <2>1 DEF IInv, TypeOK, Places
    <2>5. Holding' /\ WritersInside' /\ CollectorsInside'
      BY <2>2 DEF Holding, WritersInside, CollectorsInside
    <2>6. NoncesDiffer'
      <3>1. \A q \in Writers : draft'[q].nonce = 0  BY <1>2, <1>8, <2>3
      <3>2. \A q \in Writers : handle'[q].nonce <= nonces' /\ 0 <= nonces'
        BY <1>1, <1>5, <2>3 DEF IInv, NoncesDiffer, TypeOK
      <3>3. \A q, r \in Writers : q # r /\ handle'[q].nonce # 0 => handle'[q].nonce # handle'[r].nonce
        BY <1>3, <1>5, <1>14, <2>3 DEF IInv, NoncesDiffer
      <3> QED  BY <3>1, <3>2, <3>3 DEF NoncesDiffer
    <2>7. DraftIsCurrent'  BY <1>2, <1>8, <2>2, <2>3 DEF DraftIsCurrent
    <2>8. OwnerIsCurrent'
      <3>1. \A q \in Writers : Owns(q)' => q = p
        BY <1>3, <1>5, <1>7, <1>14, <2>3 DEF Owns
      <3>2. Current(handle[p])'  BY <1>9, <2>3 DEF Current
      <3> QED  BY <3>1, <3>2 DEF OwnerIsCurrent
    <2> QED
      BY <1>10, <1>11, <1>12, <1>13, <2>4, <2>5, <2>6, <2>7, <2>8 DEF IInv
  <1>16. CASE ~file
    <2>1. /\ draft' = [draft EXCEPT ![p] = h] /\ UNCHANGED <<handle, holder>>
          /\ pc' = [pc EXCEPT ![p] = "leased"]
      BY <1>1, <1>16
    <2>2. pc'[p] = "leased" /\ \A q \in Procs : q # p => pc'[q] = "idle"
      BY <1>2, <2>1 DEF IInv, TypeOK
    <2>3. /\ \A q \in Writers : q # p => draft'[q] = draft[q]
          /\ draft'[p] = h
      BY <2>1 DEF IInv, TypeOK
    <2>4. TypeOK'  BY <1>1, <1>5, <1>7, <2>1 DEF IInv, TypeOK, Places
    <2>5. Holding' /\ WritersInside' /\ CollectorsInside'
      BY <1>1, <1>2, <1>3, <2>1, <2>2 DEF Holding, WritersInside, CollectorsInside
    <2>6. NoncesDiffer'
      BY <1>1, <1>2, <1>5, <2>1, <2>3 DEF IInv, NoncesDiffer
    <2>7. DraftIsCurrent'
      <3>1. Current(draft[p])'  BY <1>9, <2>3 DEF Current
      <3>2. \A q \in Writers : q # p => pc'[q] = "idle" /\ draft'[q].nonce = 0
        BY <1>2, <2>2, <2>3
      <3> QED
        BY <1>1, <1>3, <1>5, <1>7, <1>16, <2>2, <2>3, <3>1, <3>2 DEF DraftIsCurrent
    <2>8. OwnerIsCurrent'
      BY <1>3, <1>16, <2>1 DEF IInv, NothingYet, OwnerIsCurrent, Owns
    <2> QED
      BY <1>10, <1>11, <1>12, <1>13, <2>4, <2>5, <2>6, <2>7, <2>8 DEF IInv
  <1> QED  BY <1>15, <1>16

LEMMA HeaderKeepsIInv ==
  ASSUME IInv, NEW p \in Writers, WriteHeader(p)
  PROVE  IInv'
  <1> USE DEF Procs
  <1> DEFINE line == LineOf(draft[p], "header", 0)
             h == [draft[p] EXCEPT !.next = @ + 1]
  <1>1. /\ pc[p] = "leased" /\ file' = TRUE /\ log' = Append(log, line)
        /\ acked' = acked \cup {line}
        /\ handle' = [handle EXCEPT ![p] = h] /\ draft' = [draft EXCEPT ![p] = NoHandle]
        /\ holder' = NoProc /\ pc' = [pc EXCEPT ![p] = "idle"]
        /\ UNCHANGED <<exists, torn, lease, marker, trash, dead, nonces>>
    BY DEF WriteHeader, Inside, Leave
  <1>2. /\ \A q \in Procs : q # p => pc[q] = "idle"
        /\ \A q \in Writers : q # p => draft[q].nonce = 0
    BY <1>1, InsideHolds DEF IInv, DraftIsCurrent
  <1>3. /\ draft[p] \in Handle /\ draft[p].nonce # 0 /\ ~torn /\ Current(draft[p])
        /\ exists /\ ~marker /\ ~file
        /\ lease.state = "held" /\ lease.nonce = draft[p].nonce /\ lease.epoch = draft[p].epoch
    BY <1>1 DEF IInv, DraftIsCurrent, WritersInside, TypeOK
  <1>4. acked = {} /\ \A q \in Writers : handle[q].nonce = 0
    BY <1>3 DEF IInv, NothingYet
  <1>5. /\ line \in Line /\ line.type = "header" /\ line.index = Len(log) + 1
        /\ line.epoch = lease.epoch /\ line.by = lease.nonce
    BY <1>3 DEF LineOf, Line, Types, Handle, Current
  <1>6. /\ h \in Handle /\ h.nonce = draft[p].nonce /\ h.epoch = lease.epoch
        /\ h.next = Len(log) + 2 /\ h.seq = NextSequence
        /\ NoStartThrows => h.closed = Closed
    BY <1>3, LinesOf DEF Handle, Current, IInv
  <1> HIDE DEF line, h
  <1>7. LogIsReplayable' /\ EpochsFenceWriters' /\ LeaseIsNewest' /\ Numbered'
        /\ MaxEpoch' = lease.epoch
    BY <1>1, <1>3, <1>5, LineKeepsLog DEF IInv
  <1>8. NextSequence' = NextSequence /\ Closed' = Closed /\ Len(log') = Len(log) + 1
    BY <1>1, <1>5, GrownReplay, Grown DEF IInv
  <1>9. NoHandle \in Handle /\ NoHandle.nonce = 0  BY WalAssumption DEF NoHandle, Handle
  <1>10. \A q \in Procs : pc'[q] = "idle"  BY <1>1, <1>2 DEF IInv, TypeOK
  <1>11. /\ \A q \in Writers : q # p => handle'[q] = handle[q] /\ draft'[q] = draft[q]
         /\ handle'[p] = h /\ draft'[p] = NoHandle
    BY <1>1 DEF IInv, TypeOK
  <1>12. TypeOK'
    <2>1. log' \in Seq(Line)  BY <1>1, <1>5, Grown DEF IInv
    <2> QED  BY <1>1, <1>5, <1>6, <1>9, <2>1 DEF IInv, TypeOK, Places
  <1>13. Holding' /\ WritersInside' /\ CollectorsInside'
    BY <1>10 DEF Holding, WritersInside, CollectorsInside
  <1>14. NoncesDiffer'
    BY <1>1, <1>2, <1>3, <1>4, <1>6, <1>9, <1>11 DEF IInv, NoncesDiffer
  <1>15. NothingYet'  BY <1>1, <1>3 DEF NothingYet
  <1>16. TornIsUnowned'  BY <1>1, <1>3 DEF TornIsUnowned
  <1>17. DraftIsCurrent'  BY <1>2, <1>9, <1>10, <1>11 DEF DraftIsCurrent
  <1>18. OwnerIsCurrent'
    <2>1. \A q \in Writers : Owns(q)' => q = p  BY <1>4, <1>11 DEF Owns
    <2>2. Current(handle[p])'
      <3>1. lease.epoch \in Nat /\ Len(log) \in Nat  BY LinesOf DEF IInv, TypeOK, Lease
      <3> QED  BY <1>6, <1>7, <1>8, <1>11, <3>1 DEF Current
    <2> QED  BY <2>1, <2>2 DEF OwnerIsCurrent
  <1>19. AckedIsDurable'
    <2>1. line \in Range(log')  BY <1>1, <1>5, Grown DEF IInv
    <2> QED  BY <1>1, <1>4, <2>1 DEF AckedIsDurable
  <1> QED
    BY <1>7, <1>12, <1>13, <1>14, <1>15, <1>16, <1>17, <1>18, <1>19 DEF IInv

-----------------------------------------------------------------------------
(* A collection removes a lease nobody alive holds, tombstones the run and *)
(* takes its directory away.                                               *)
LEMMA CollectKeepsIInv ==
  ASSUME IInv, NEW g \in Collectors, Collect(g)
  PROVE  IInv'
  <1> USE DEF Procs
  <1>1. /\ holder = NoProc /\ ~marker /\ g \notin dead /\ holder' = g
        /\ pc' = [pc EXCEPT ![g] = IF lease.state = "held" THEN "unlinking" ELSE "marking"]
        /\ lease.state # "torn" /\ (lease.state = "held" => lease.pid \in dead)
        /\ UNCHANGED <<exists, file, log, torn, lease, marker, trash, dead, handle, draft, nonces,
                       acked>>
    BY DEF Collect, Free, Collectable, Enter, disk
  <1>2. \A q \in Procs : pc[q] = "idle"  BY <1>1, WalAssumption DEF IInv, Holding
  <1>3. lease.state \in {"none", "held", "torn"}  BY DEF IInv, TypeOK, Lease
  <1>4. /\ \A q \in Procs : q # g => pc'[q] = "idle"
        /\ pc'[g] = IF lease.state = "held" THEN "unlinking" ELSE "marking"
        /\ g \notin Writers
    BY <1>1, <1>2, WalAssumption DEF IInv, TypeOK
  <1>5. TypeOK'  BY <1>1 DEF IInv, TypeOK, Places
  <1>6. Holding' /\ WritersInside'  BY <1>1, <1>4 DEF Holding, WritersInside
  <1>7. CollectorsInside'  BY <1>1, <1>3, <1>4 DEF CollectorsInside
  <1>8. NoncesDiffer' /\ NothingYet'  BY <1>1 DEF IInv, NoncesDiffer, NothingYet
  <1>9. /\ LogIsReplayable' /\ EpochsFenceWriters' /\ LeaseIsNewest' /\ TornIsUnowned'
        /\ Numbered' /\ OwnerIsCurrent'
    BY <1>1, LogKept DEF Owns
  <1>10. DraftIsCurrent'
    <2>1. \A q \in Writers : pc[q] = "idle" /\ pc'[q] = "idle" /\ draft'[q] = draft[q]
      BY <1>1, <1>2, <1>4
    <2> QED  BY <2>1 DEF IInv, DraftIsCurrent
  <1>11. AckedIsDurable'  BY <1>1 DEF IInv, AckedIsDurable
  <1> QED
    BY <1>5, <1>6, <1>7, <1>8, <1>9, <1>10, <1>11 DEF IInv

(* What the steps of a collection, and its failure, share.                 *)
LEMMA CollectingShares ==
  ASSUME IInv, NEW g \in Collectors, pc[g] \in {"unlinking", "marking", "renaming"}
  PROVE  /\ holder = g /\ g \notin dead /\ g \notin Writers
         /\ \A q \in Procs : q # g => pc[q] = "idle"
         /\ \A q \in Writers : pc[q] = "idle" /\ draft[q].nonce = 0
  BY InsideHolds, WalAssumption DEF IInv, DraftIsCurrent, Procs

LEMMA UnlinkKeepsIInv ==
  ASSUME IInv, NEW g \in Collectors, UnlinkLease(g)
  PROVE  IInv'
  <1> USE DEF Procs
  <1>1. /\ pc[g] = "unlinking" /\ lease' = NoLease /\ pc' = [pc EXCEPT ![g] = "marking"]
        /\ UNCHANGED <<exists, file, log, torn, marker, trash, holder, dead, handle, draft, nonces,
                       acked>>
    BY DEF UnlinkLease, Inside, Goto
  <1>2. /\ holder = g /\ g \notin dead /\ g \notin Writers
        /\ \A q \in Procs : q # g => pc[q] = "idle"
        /\ \A q \in Writers : pc[q] = "idle" /\ draft[q].nonce = 0
    BY <1>1, CollectingShares
  <1>3. pc'[g] = "marking" /\ \A q \in Procs : q # g => pc'[q] = "idle"
    BY <1>1, <1>2 DEF IInv, TypeOK
  <1>4. NoLease \in Lease /\ NoLease.state = "none"  BY WalAssumption DEF NoLease, Lease
  <1>5. ~marker  BY <1>1 DEF IInv, CollectorsInside
  <1>6. TypeOK'  BY <1>1, <1>4 DEF IInv, TypeOK, Places
  <1>7. Holding' /\ WritersInside' /\ CollectorsInside'
    BY <1>1, <1>2, <1>3, <1>4, <1>5 DEF Holding, WritersInside, CollectorsInside
  <1>8. NoncesDiffer' /\ NothingYet'  BY <1>1 DEF IInv, NoncesDiffer, NothingYet
  <1>9. /\ LogIsReplayable' /\ EpochsFenceWriters' /\ LeaseIsNewest' /\ TornIsUnowned'
        /\ Numbered' /\ OwnerIsCurrent'
    BY <1>1, <1>4, LogKept DEF Owns
  <1>10. DraftIsCurrent'  BY <1>1, <1>2, <1>3 DEF DraftIsCurrent
  <1>11. AckedIsDurable'  BY <1>1 DEF IInv, AckedIsDurable
  <1> QED
    BY <1>6, <1>7, <1>8, <1>9, <1>10, <1>11 DEF IInv

LEMMA MarkKeepsIInv ==
  ASSUME IInv, NEW g \in Collectors, Mark(g)
  PROVE  IInv'
  <1> USE DEF Procs
  <1>1. /\ pc[g] = "marking" /\ marker' = TRUE /\ pc' = [pc EXCEPT ![g] = "renaming"]
        /\ UNCHANGED <<exists, file, log, torn, lease, trash, holder, dead, handle, draft, nonces,
                       acked>>
    BY DEF Mark, Inside, Goto
  <1>2. /\ holder = g /\ g \notin dead /\ g \notin Writers
        /\ \A q \in Procs : q # g => pc[q] = "idle"
        /\ \A q \in Writers : pc[q] = "idle" /\ draft[q].nonce = 0
    BY <1>1, CollectingShares
  <1>3. pc'[g] = "renaming" /\ \A q \in Procs : q # g => pc'[q] = "idle"
    BY <1>1, <1>2 DEF IInv, TypeOK
  <1>4. lease.state = "none"  BY <1>1 DEF IInv, CollectorsInside
  <1>5. TypeOK'  BY <1>1 DEF IInv, TypeOK, Places
  <1>6. Holding' /\ WritersInside' /\ CollectorsInside'
    BY <1>1, <1>2, <1>3, <1>4 DEF Holding, WritersInside, CollectorsInside
  <1>7. NoncesDiffer' /\ NothingYet'  BY <1>1 DEF IInv, NoncesDiffer, NothingYet
  <1>8. /\ LogIsReplayable' /\ EpochsFenceWriters' /\ LeaseIsNewest' /\ TornIsUnowned'
        /\ Numbered' /\ OwnerIsCurrent'
    BY <1>1, LogKept DEF Owns
  <1>9. DraftIsCurrent'  BY <1>1, <1>2, <1>3 DEF DraftIsCurrent
  <1>10. AckedIsDurable'  BY <1>1 DEF IInv, AckedIsDurable
  <1> QED
    BY <1>5, <1>6, <1>7, <1>8, <1>9, <1>10 DEF IInv

LEMMA RenameKeepsIInv ==
  ASSUME IInv, NEW g \in Collectors, Rename(g)
  PROVE  IInv'
  <1> USE DEF Procs
  <1>1. /\ pc[g] = "renaming" /\ exists' = FALSE /\ file' = FALSE /\ log' = <<>> /\ torn' = FALSE
        /\ trash' = trash + 1 /\ holder' = NoProc /\ pc' = [pc EXCEPT ![g] = "idle"]
        /\ UNCHANGED <<lease, marker, dead, handle, draft, nonces, acked>>
    BY DEF Rename, Inside, Leave
  <1>2. \A q \in Writers : pc[q] = "idle" /\ draft[q].nonce = 0
    BY <1>1, CollectingShares
  <1>3. \A q \in Procs : pc'[q] = "idle"  BY <1>1, CollectingShares DEF IInv, TypeOK
  <1>4. marker'  BY <1>1 DEF IInv, CollectorsInside
  <1>5. log' \in Seq(Line) /\ Len(log') = 0 /\ DOMAIN log' = {}  BY <1>1, EmptySeq, LenProperties
  <1>6. TypeOK'
    <2>1. trash' \in Nat /\ holder' \in Procs \cup {NoProc}  BY <1>1 DEF IInv, TypeOK
    <2>2. pc' \in [Procs -> Places]  BY <1>1 DEF IInv, TypeOK, Places
    <2>3. exists' \in BOOLEAN /\ file' \in BOOLEAN /\ torn' \in BOOLEAN  BY <1>1
    <2>4. UNCHANGED <<lease, marker, dead, handle, draft, nonces, acked>>  BY <1>1
    <2>5. log' \in Seq(Line)  BY <1>5
    <2> QED  BY <2>1, <2>2, <2>3, <2>4, <2>5 DEF IInv, TypeOK
  <1>7. Holding' /\ WritersInside' /\ CollectorsInside'
    BY <1>3 DEF Holding, WritersInside, CollectorsInside
  <1>8. NoncesDiffer' /\ NothingYet'  BY <1>1, <1>4 DEF IInv, NoncesDiffer, NothingYet
  <1>9. LogIsReplayable' /\ EpochsFenceWriters' /\ LeaseIsNewest'
    BY <1>5 DEF LogIsReplayable, Readable, EpochsFenceWriters, LeaseIsNewest
  <1>10. Numbered'
    <2>1. Numbers(log') = {1}  BY <1>5 DEF Numbers
    <2>2. Fences(log') = {}  BY <1>5 DEF Fences
    <2> QED  BY <2>1, <2>2 DEF Numbered, HasGreatest
  <1>11. TornIsUnowned' /\ OwnerIsCurrent' /\ AckedIsDurable'
    BY <1>1, <1>4 DEF TornIsUnowned, OwnerIsCurrent, AckedIsDurable
  <1>12. DraftIsCurrent'  BY <1>1, <1>2, <1>3 DEF DraftIsCurrent
  <1> QED
    BY <1>6, <1>7, <1>8, <1>9, <1>10, <1>11, <1>12 DEF IInv

LEMMA CollectFailsKeepsIInv ==
  ASSUME IInv, NEW g \in Collectors, CollectFails(g)
  PROVE  IInv'
  <1> USE DEF Procs
  <1>1. /\ pc[g] \in {"unlinking", "marking", "renaming"}
        /\ holder' = NoProc /\ pc' = [pc EXCEPT ![g] = "idle"]
        /\ UNCHANGED <<exists, file, log, torn, lease, marker, trash, dead, handle, draft, nonces,
                       acked>>
    BY DEF CollectFails, Inside, Leave, disk
  <1>2. \A q \in Writers : pc[q] = "idle" /\ draft[q].nonce = 0
    BY <1>1, CollectingShares
  <1>3. \A q \in Procs : pc'[q] = "idle"  BY <1>1, CollectingShares DEF IInv, TypeOK
  <1>4. TypeOK'  BY <1>1 DEF IInv, TypeOK, Places
  <1>5. Holding' /\ WritersInside' /\ CollectorsInside'
    BY <1>3 DEF Holding, WritersInside, CollectorsInside
  <1>6. NoncesDiffer' /\ NothingYet'  BY <1>1 DEF IInv, NoncesDiffer, NothingYet
  <1>7. /\ LogIsReplayable' /\ EpochsFenceWriters' /\ LeaseIsNewest' /\ TornIsUnowned'
        /\ Numbered' /\ OwnerIsCurrent'
    BY <1>1, LogKept DEF Owns
  <1>8. DraftIsCurrent'  BY <1>1, <1>2, <1>3 DEF DraftIsCurrent
  <1>9. AckedIsDurable'  BY <1>1 DEF IInv, AckedIsDurable
  <1> QED
    BY <1>4, <1>5, <1>6, <1>7, <1>8, <1>9 DEF IInv

(* Emptying the trash, and doing nothing, change nothing the invariant     *)
(* looks at.                                                               *)
LEMMA TrashKeepsIInv ==
  ASSUME IInv, trash' \in Nat,
         UNCHANGED <<exists, file, log, torn, lease, marker, holder, dead, pc, handle, draft,
                     nonces, acked>>
  PROVE  IInv'
  <1>1. TypeOK'  BY DEF IInv, TypeOK
  <1>2. Holding' /\ WritersInside' /\ CollectorsInside'
    BY DEF IInv, Holding, WritersInside, CollectorsInside
  <1>3. NoncesDiffer' /\ NothingYet'  BY DEF IInv, NoncesDiffer, NothingYet
  <1>4. /\ LogIsReplayable' /\ EpochsFenceWriters' /\ LeaseIsNewest' /\ TornIsUnowned'
        /\ Numbered' /\ OwnerIsCurrent'
        /\ MaxEpoch' = MaxEpoch /\ NextSequence' = NextSequence /\ Closed' = Closed
    BY LogKept DEF Owns
  <1>5. DraftIsCurrent'  BY <1>4 DEF IInv, DraftIsCurrent, Current
  <1>6. AckedIsDurable'  BY DEF IInv, AckedIsDurable
  <1> QED  BY <1>1, <1>2, <1>3, <1>4, <1>5, <1>6 DEF IInv

-----------------------------------------------------------------------------
(* What a kill does to the process itself.                                 *)
LEMMA DeathKeeps ==
  ASSUME IInv, NEW p \in Procs, Dies(p),
         lease' = lease \/ (lease'.state # "held" /\ p \in Writers /\ pc[p] # "idle")
  PROVE  /\ Holding' /\ WritersInside' /\ CollectorsInside' /\ NoncesDiffer'
         /\ holder' \in Procs \cup {NoProc} /\ dead' \subseteq Procs
         /\ pc' \in [Procs -> Places]
         /\ handle' \in [Writers -> Handle] /\ draft' \in [Writers -> Handle]
         /\ \A w \in Writers : w # p => handle'[w] = handle[w] /\ draft'[w] = draft[w]
         /\ \A w \in Writers : w = p => handle'[w] = NoHandle /\ draft'[w] = NoHandle
         /\ \A q \in Procs : q # p => pc'[q] = pc[q]
         /\ pc'[p] = "idle" /\ NoHandle.nonce = 0
         /\ UNCHANGED <<exists, marker, trash, nonces, acked>>
  <1> USE DEF Procs
  <1>1. /\ dead' = dead \cup {p} /\ holder' = IF holder = p THEN NoProc ELSE holder
        /\ pc' = [pc EXCEPT ![p] = "idle"]
        /\ handle' = [w \in Writers |-> IF w = p THEN NoHandle ELSE handle[w]]
        /\ draft' = [w \in Writers |-> IF w = p THEN NoHandle ELSE draft[w]]
        /\ UNCHANGED <<exists, marker, trash, nonces, acked>>
    BY DEF Dies
  <1>2. NoHandle \in Handle /\ NoHandle.nonce = 0  BY WalAssumption DEF NoHandle, Handle
  <1>3. /\ handle \in [Writers -> Handle] /\ draft \in [Writers -> Handle]
        /\ pc \in [Procs -> Places] /\ dead \subseteq Procs /\ holder \in Procs \cup {NoProc}
    BY DEF IInv, TypeOK
  <1>4. /\ handle' \in [Writers -> Handle] /\ draft' \in [Writers -> Handle]
        /\ \A w \in Writers : w # p => handle'[w] = handle[w] /\ draft'[w] = draft[w]
        /\ \A w \in Writers : w = p => handle'[w] = NoHandle /\ draft'[w] = NoHandle
    BY <1>1, <1>2, <1>3
  <1>5. /\ pc' \in [Procs -> Places] /\ \A q \in Procs : q # p => pc'[q] = pc[q]
        /\ pc'[p] = "idle" /\ dead' \subseteq Procs /\ holder' \in Procs \cup {NoProc}
    BY <1>1, <1>3 DEF Places
  <1>6. Holding'
    <2> SUFFICES ASSUME NEW q \in Procs, pc'[q] # "idle"  PROVE holder' = q /\ q \notin dead'
      BY DEF Holding
    <2>1. q # p /\ pc[q] # "idle"  BY <1>5
    <2>2. holder = q /\ q \notin dead  BY <2>1 DEF IInv, Holding
    <2> QED  BY <1>1, <2>1, <2>2
  <1>7. WritersInside'  BY <1>1, <1>5 DEF IInv, WritersInside
  <1>8. CollectorsInside'
    <2>1. \A g \in Procs : pc'[g] # "idle" => pc'[g] = pc[g] /\ g # p  BY <1>5
    <2>2. CASE lease' = lease  BY <1>1, <2>1, <2>2 DEF IInv, CollectorsInside
    <2>3. CASE p \in Writers /\ pc[p] # "idle"
      <3>1. \A g \in Procs : pc'[g] = "idle"  BY <1>5, <2>3, InsideHolds
      <3> QED  BY <3>1 DEF CollectorsInside
    <2> QED  BY <2>2, <2>3
  <1>9. NoncesDiffer'
    <2>1. 0 <= nonces  BY DEF IInv, TypeOK
    <2>2. \A w \in Writers : handle'[w].nonce <= nonces' /\ draft'[w].nonce <= nonces'
      BY <1>1, <1>2, <1>4, <2>1 DEF IInv, NoncesDiffer
    <2>3. \A q, r \in Writers : q # r =>
            /\ handle'[q].nonce # 0 => handle'[q].nonce # handle'[r].nonce
            /\ draft'[q].nonce # 0 => draft'[q].nonce # handle'[r].nonce
      BY <1>2, <1>4 DEF IInv, NoncesDiffer
    <2> QED  BY <2>2, <2>3 DEF NoncesDiffer
  <1> QED  BY <1>1, <1>2, <1>4, <1>5, <1>6, <1>7, <1>8, <1>9

(* A kill that leaves the log as it is.                                    *)
LEMMA QuietKillKeepsIInv ==
  ASSUME IInv, NEW p \in Procs,
         \/ Kill(p)
         \/ p \in Writers /\ Mine(p) /\ Dies(p) /\ UNCHANGED <<file, log, lease>> /\ torn' = TRUE
         \/ p \in Writers /\ KillInHeader(p)
         \/ p \in Writers /\ KillInLease(p)
  PROVE  IInv'
  <1> USE DEF Procs
  <1>1. Dies(p) /\ log' = log  BY DEF Kill, KillInHeader, KillInLease
  <1>2. /\ lease' = lease \/ (lease'.state # "held" /\ p \in Writers /\ pc[p] # "idle")
        /\ lease' \in Lease
    <2>1. NoLease \in Lease  BY WalAssumption DEF NoLease, Lease
    <2>2. /\ [NoLease EXCEPT !.state = "torn"] \in Lease
          /\ [NoLease EXCEPT !.state = "torn"].state # "held"
      BY <2>1 DEF Lease
    <2>3. lease \in Lease  BY DEF IInv, TypeOK
    <2>4. CASE Kill(p)  BY <2>3, <2>4 DEF Kill
    <2>5. CASE p \in Writers /\ KillInHeader(p)  BY <2>3, <2>5 DEF KillInHeader
    <2>6. CASE p \in Writers /\ KillInLease(p)
      <3>1. pc[p] = "replayed" /\ lease' = [NoLease EXCEPT !.state = "torn"]
        BY <2>6 DEF KillInLease, Inside
      <3> QED  BY <2>2, <2>6, <3>1
    <2> QED  BY <2>3, <2>4, <2>5, <2>6
  <1>3. /\ Holding' /\ WritersInside' /\ CollectorsInside' /\ NoncesDiffer'
        /\ holder' \in Procs \cup {NoProc} /\ dead' \subseteq Procs
        /\ pc' \in [Procs -> Places]
        /\ handle' \in [Writers -> Handle] /\ draft' \in [Writers -> Handle]
        /\ \A w \in Writers : w # p => handle'[w] = handle[w] /\ draft'[w] = draft[w]
        /\ \A w \in Writers : w = p => handle'[w] = NoHandle /\ draft'[w] = NoHandle
        /\ \A q \in Procs : q # p => pc'[q] = pc[q]
        /\ pc'[p] = "idle" /\ NoHandle.nonce = 0
        /\ UNCHANGED <<exists, marker, trash, nonces, acked>>
    BY <1>1, <1>2, DeathKeeps
  <1>4. /\ file' \in BOOLEAN /\ torn' \in BOOLEAN
        /\ file => file'
        /\ file' # file => ~file /\ ~marker /\ exists /\ p \in Writers /\ pc[p] = "leased"
        /\ torn' # torn => file'
        /\ torn' => torn \/ (p \in Writers /\ Mine(p)) \/ (~file /\ ~marker)
    <2>1. CASE Kill(p)  BY <2>1 DEF Kill, IInv, TypeOK
    <2>2. CASE p \in Writers /\ Mine(p) /\ UNCHANGED <<file, log, lease>> /\ torn' = TRUE
      BY <2>2, OwnerWrites DEF IInv, TypeOK
    <2>3. CASE p \in Writers /\ KillInHeader(p)
      BY <2>3 DEF KillInHeader, Inside, IInv, DraftIsCurrent, WritersInside
    <2>4. CASE KillInLease(p)  BY <2>4 DEF KillInLease, IInv, TypeOK
    <2> QED  BY <2>1, <2>2, <2>3, <2>4
  <1>5. \A q \in Writers : Owns(q)' => Owns(q) /\ handle'[q] = handle[q] /\ q # p
    BY <1>2, <1>3 DEF Owns
  <1>6. torn' => torn \/ \A q \in Writers : ~Owns(q)'
    <2>1. ASSUME p \in Writers, Mine(p), NEW q \in Writers, Owns(q)'  PROVE FALSE
      <3>1. Owns(q) /\ q # p /\ Owns(p)  BY <1>5, <2>1 DEF Mine
      <3> QED  BY <2>1, <3>1 DEF Owns, IInv, NoncesDiffer
    <2>2. ASSUME ~file, ~marker, NEW q \in Writers, Owns(q)'  PROVE FALSE
      BY <1>5, <2>2 DEF Owns, IInv, NothingYet
    <2> QED  BY <1>4, <2>1, <2>2
  <1>7. /\ LogIsReplayable' /\ EpochsFenceWriters' /\ LeaseIsNewest' /\ TornIsUnowned'
        /\ Numbered' /\ OwnerIsCurrent'
        /\ MaxEpoch' = MaxEpoch /\ NextSequence' = NextSequence /\ Closed' = Closed
    BY <1>1, <1>2, <1>3, <1>5, <1>6, LogKept
  <1>8. TypeOK'  BY <1>1, <1>2, <1>3, <1>4 DEF IInv, TypeOK
  <1>9. NothingYet'
    <2>1. \A w \in Writers : handle[w].nonce = 0 => handle'[w].nonce = 0  BY <1>3
    <2> QED  BY <1>1, <1>3, <1>4, <2>1 DEF IInv, NothingYet
  <1>10. AckedIsDurable'  BY <1>1, <1>3 DEF IInv, AckedIsDurable
  <1>11. DraftIsCurrent'
    <2> SUFFICES ASSUME NEW q \in Writers
                 PROVE  /\ pc'[q] \in {"replayed", "leased"} => ~torn' /\ Current(draft[q])'
                        /\ pc'[q] \in {"opening", "replayed", "leased"} => draft'[q].nonce # 0
                        /\ pc'[q] = "idle" => draft'[q].nonce = 0
                        /\ pc'[q] = "leased" =>
                             /\ ~file' /\ lease'.state = "held"
                             /\ lease'.nonce = draft'[q].nonce /\ lease'.epoch = draft'[q].epoch
      BY DEF DraftIsCurrent
    <2>1. CASE q = p  BY <1>3, <2>1
    <2>2. CASE q # p /\ pc[q] = "idle"  BY <1>3, <2>2 DEF IInv, DraftIsCurrent
    <2>3. CASE q # p /\ pc[q] # "idle"
      <3>1. pc[p] = "idle" /\ holder = q  BY <2>3, InsideHolds
      <3>2. Kill(p)
        BY <2>3, <3>1, WalAssumption, OwnerWrites DEF KillInHeader, KillInLease, Inside
      <3>3. UNCHANGED <<file, log, torn, lease>>  BY <3>2 DEF Kill
      <3>4. Current(draft[q])' = Current(draft[q])  BY <1>3, <1>7, <2>3, <3>3 DEF Current
      <3> QED  BY <1>3, <2>3, <3>3, <3>4 DEF IInv, DraftIsCurrent
    <2> QED  BY <2>1, <2>2, <2>3
  <1> QED
    BY <1>3, <1>7, <1>8, <1>9, <1>10, <1>11 DEF IInv

(* A kill after the line reached the disk.                                 *)
LEMMA LateKillKeepsIInv ==
  ASSUME IInv, NEW p \in Writers, Mine(p), Dies(p), UNCHANGED <<file, lease>>,
         Written(LineOf(handle[p], "other", 0))
  PROVE  IInv'
  <1> USE DEF Procs
  <1> DEFINE line == LineOf(handle[p], "other", 0)
  <1>1. /\ exists /\ file /\ ~torn /\ ~marker /\ handle[p] \in Handle /\ Current(handle[p])
        /\ holder = NoProc /\ lease.state = "held"
        /\ lease.nonce = handle[p].nonce /\ lease.epoch = handle[p].epoch
    BY OwnerWrites
  <1>2. log' = Append(log, line) /\ torn' = FALSE  BY <1>1 DEF Written
  <1>3. /\ line \in Line /\ line.type = "other" /\ line.index = Len(log) + 1
        /\ line.epoch = lease.epoch /\ line.by = lease.nonce
    BY <1>1 DEF LineOf, Line, Types, Handle, Current
  <1> HIDE DEF line
  <1>4. LogIsReplayable' /\ EpochsFenceWriters' /\ LeaseIsNewest' /\ Numbered'
    BY <1>1, <1>2, <1>3, LineKeepsLog DEF IInv
  <1>5. /\ Holding' /\ WritersInside' /\ CollectorsInside' /\ NoncesDiffer'
        /\ holder' \in Procs \cup {NoProc} /\ dead' \subseteq Procs
        /\ pc' \in [Procs -> Places]
        /\ handle' \in [Writers -> Handle] /\ draft' \in [Writers -> Handle]
        /\ \A w \in Writers : w # p => handle'[w] = handle[w] /\ draft'[w] = draft[w]
        /\ \A w \in Writers : w = p => handle'[w] = NoHandle /\ draft'[w] = NoHandle
        /\ \A q \in Procs : q # p => pc'[q] = pc[q]
        /\ pc'[p] = "idle" /\ NoHandle.nonce = 0
        /\ UNCHANGED <<exists, marker, trash, nonces, acked>>
    <2>1. p \in Procs /\ lease' = lease  OBVIOUS
    <2> QED  BY <2>1, DeathKeeps
  <1>6. \A q \in Writers : ~Owns(q)'
    <2> SUFFICES ASSUME NEW q \in Writers, Owns(q)'  PROVE FALSE
      OBVIOUS
    <2>1. q # p /\ Owns(q)  BY <1>5 DEF Owns
    <2>2. Owns(p)  BY DEF Mine
    <2> QED  BY <2>1, <2>2 DEF Owns, IInv, NoncesDiffer
  <1>7. TypeOK'
    <2>1. log' \in Seq(Line)  BY <1>2, <1>3, Grown DEF IInv
    <2> QED  BY <1>2, <1>5, <2>1 DEF IInv, TypeOK
  <1>8. NothingYet'  BY <1>1, <1>5 DEF NothingYet
  <1>9. TornIsUnowned' /\ OwnerIsCurrent'  BY <1>6 DEF TornIsUnowned, OwnerIsCurrent
  <1>10. DraftIsCurrent'
    <2>1. \A q \in Procs : pc[q] = "idle"
      BY <1>1, WalAssumption DEF IInv, Holding
    <2>2. \A q \in Writers : pc'[q] = "idle" /\ draft'[q].nonce = 0
      BY <1>5, <2>1 DEF IInv, DraftIsCurrent
    <2> QED  BY <2>2 DEF DraftIsCurrent
  <1>11. AckedIsDurable'  BY <1>1, <1>2, <1>3, <1>5, Grown DEF IInv, AckedIsDurable
  <1> QED
    BY <1>4, <1>5, <1>7, <1>8, <1>9, <1>10, <1>11 DEF IInv

-----------------------------------------------------------------------------
(* The steps of Next, and what their writes come to.                       *)
LEMMA Steps ==
  ASSUME IInv, FailedAppendsLeaveNothing, [Next]_vars
  PROVE  \/ \E p \in Writers : \/ Open(p) \/ TakeOver(p)
                               \/ Replay(p) \/ AcquireLease(p) \/ WriteHeader(p) \/ GiveUp(p)
                               \/ HeaderFails(p) \/ AppendFails(p) \/ ReleaseLease(p)
                               \/ Mine(p) /\ Appends(p)
         \/ \E g \in Collectors : Collect(g) \/ UnlinkLease(g) \/ Mark(g) \/ Rename(g)
                                  \/ CollectFails(g) \/ DeleteTrash(g)
         \/ \E p \in Procs : Kill(p)
         \/ \E p \in Writers : \/ KillInHeader(p) \/ KillInLease(p)
                               \/ Mine(p) /\ Dies(p) /\ UNCHANGED <<file, lease>>
                                  /\ \/ torn' = TRUE /\ UNCHANGED log
                                     \/ Written(LineOf(handle[p], "other", 0))
         \/ UNCHANGED vars
  <1>1. ASSUME NEW p \in Writers, Appending(p)
        PROVE  ReleaseLease(p) \/ AppendFails(p) \/ (Mine(p) /\ Appends(p))
    BY <1>1, AppendsOneLine
  <1>2. CASE \E p \in Writers : Open(p) \/ TakeOver(p) \/ Opening(p) \/ GiveUp(p) \/ Appending(p)
    BY <1>1, <1>2 DEF Opening
  <1>3. CASE \E g \in Collectors : Collect(g) \/ Collecting(g) \/ CollectFails(g) \/ DeleteTrash(g)
    BY <1>3 DEF Collecting
  <1>4. CASE \E p \in Writers : KillInAppend(p) \/ KillInHeader(p) \/ KillInLease(p)
    BY <1>4 DEF KillInAppend
  <1> QED  BY <1>2, <1>3, <1>4 DEF Next

LEMMA NextKeepsIInv == IInv /\ FailedAppendsLeaveNothing /\ [Next]_vars => IInv'
  <1> SUFFICES ASSUME IInv, FailedAppendsLeaveNothing, [Next]_vars  PROVE IInv'
    OBVIOUS
  <1>1. ASSUME NEW p \in Writers, Open(p) \/ TakeOver(p)  PROVE IInv'
    BY <1>1, OpenKeepsIInv
  <1>2. ASSUME NEW p \in Writers, Replay(p)  PROVE IInv'  BY <1>2, ReplayKeepsIInv
  <1>3. ASSUME NEW p \in Writers, AcquireLease(p)  PROVE IInv'  BY <1>3, AcquireKeepsIInv
  <1>4. ASSUME NEW p \in Writers, WriteHeader(p)  PROVE IInv'  BY <1>4, HeaderKeepsIInv
  <1>5. ASSUME NEW p \in Writers, GiveUp(p)  PROVE IInv'  BY <1>5, GiveUpKeepsIInv
  <1>6. ASSUME NEW p \in Writers, ReleaseLease(p)  PROVE IInv'  BY <1>6, ReleaseKeepsIInv
  <1>18. ASSUME NEW p \in Writers, HeaderFails(p) \/ AppendFails(p)  PROVE IInv'
    BY <1>18, HeaderFailsKeepsIInv, RefusedKeepsIInv
  <1>7. ASSUME NEW p \in Writers, Mine(p), Appends(p)  PROVE IInv'  BY <1>7, AppendKeepsIInv
  <1>8. ASSUME NEW g \in Collectors, Collect(g)  PROVE IInv'  BY <1>8, CollectKeepsIInv
  <1>9. ASSUME NEW g \in Collectors, UnlinkLease(g)  PROVE IInv'  BY <1>9, UnlinkKeepsIInv
  <1>10. ASSUME NEW g \in Collectors, Mark(g)  PROVE IInv'  BY <1>10, MarkKeepsIInv
  <1>11. ASSUME NEW g \in Collectors, Rename(g)  PROVE IInv'  BY <1>11, RenameKeepsIInv
  <1>12. ASSUME NEW g \in Collectors, CollectFails(g)  PROVE IInv'
    BY <1>12, CollectFailsKeepsIInv
  <1>13. ASSUME NEW g \in Collectors, DeleteTrash(g)  PROVE IInv'
    BY <1>13, TrashKeepsIInv DEF DeleteTrash, IInv, TypeOK
  <1>14. ASSUME NEW p \in Procs, Kill(p)  PROVE IInv'  BY <1>14, QuietKillKeepsIInv
  <1>15. ASSUME NEW p \in Writers, KillInHeader(p) \/ KillInLease(p)  PROVE IInv'
    BY <1>15, QuietKillKeepsIInv DEF Procs
  <1>16. ASSUME NEW p \in Writers, Mine(p), Dies(p), UNCHANGED <<file, lease>>,
                \/ torn' = TRUE /\ UNCHANGED log
                \/ Written(LineOf(handle[p], "other", 0))
         PROVE  IInv'
    <2>1. CASE torn' = TRUE /\ UNCHANGED log
      BY <1>16, <2>1, QuietKillKeepsIInv DEF Procs
    <2>2. CASE Written(LineOf(handle[p], "other", 0))  BY <1>16, <2>2, LateKillKeepsIInv
    <2> QED  BY <1>16, <2>1, <2>2
  <1>17. CASE UNCHANGED vars  BY <1>17, TrashKeepsIInv DEF vars, disk, IInv, TypeOK
  <1> QED
    BY <1>1, <1>2, <1>3, <1>4, <1>5, <1>6, <1>7, <1>8, <1>9, <1>10, <1>11, <1>12, <1>13, <1>14,
       <1>15, <1>16, <1>17, <1>18, Steps

(* The invariant holds in every state, if refused appends leave nothing.   *)
THEOREM Invariance ==
  ASSUME FailedAppendsLeaveNothing
  PROVE  Spec => []IInv
  <1>1. IInv /\ [Next]_vars => IInv'  BY NextKeepsIInv
  <1> QED  BY InitIInv, <1>1, PTL DEF Spec

-----------------------------------------------------------------------------
(* Every variable keeps its type.                                          *)
THEOREM TypeCorrect ==
  ASSUME FailedAppendsLeaveNothing
  PROVE  Spec => []TypeOK
  <1>1. IInv => TypeOK  BY DEF IInv
  <1> QED  BY Invariance, <1>1, PTL

(* No takeover, kill or stale handle leaves a line recovery rejects        *)
(* (run-control-wal.ts, replayLocked).                                     *)
THEOREM Replayable ==
  ASSUME FailedAppendsLeaveNothing
  PROVE  Spec => []LogIsReplayable
  <1>1. IInv => LogIsReplayable  BY DEF IInv
  <1> QED  BY Invariance, <1>1, PTL

(* The epochs of the log never decrease and no two writers share one: the  *)
(* writer whose lease was taken over writes nothing more (assertLease).    *)
THEOREM Fenced ==
  ASSUME FailedAppendsLeaveNothing
  PROVE  Spec => []EpochsFenceWriters
  <1>1. IInv => EpochsFenceWriters  BY DEF IInv
  <1> QED  BY Invariance, <1>1, PTL

(* The counters and the fence cached by the owner of the lease are those   *)
(* of a replay, if no append of a worker's start throws.                   *)
THEOREM OwnerCounters ==
  ASSUME FailedAppendsLeaveNothing, NoStartThrows
  PROVE  Spec => []WriterIsCurrent
  <1>1. IInv => WriterIsCurrent
    <2> SUFFICES ASSUME IInv, NEW p \in Writers, Owns(p), ~marker
                 PROVE  handle[p] = Replayed(handle[p])
      BY DEF WriterIsCurrent
    <2>1. handle[p] \in Handle /\ Current(handle[p])
      BY DEF IInv, TypeOK, OwnerIsCurrent
    <2>2. handle[p].epoch \in Nat /\ MaxEpoch \in Nat  BY <2>1, MaxEpochIs DEF Handle, IInv
    <2>3. Highest({handle[p].epoch, MaxEpoch}) = handle[p].epoch
      BY <2>1, <2>2, HighestOfTwo DEF Current
    <2>4. Replayed(handle[p]) =
            [nonce |-> handle[p].nonce, epoch |-> handle[p].epoch, next |-> handle[p].next,
             seq |-> handle[p].seq, closed |-> handle[p].closed]
      BY <2>1, <2>3, ReplayedIs DEF Current
    <2> QED  BY <2>1, <2>4 DEF Handle
  <1> QED  BY Invariance, <1>1, PTL

(* A record whose append returned is never lost to a truncation, a         *)
(* takeover or a replay, as long as the run's directory exists.            *)
THEOREM Durable ==
  ASSUME FailedAppendsLeaveNothing
  PROVE  Spec => []AckedIsDurable
  <1>1. IInv => AckedIsDurable  BY DEF IInv
  <1> QED  BY Invariance, <1>1, PTL

-----------------------------------------------------------------------------
(* The fence.  Supplements are numbered by their count, so that the number *)
(* a replay goes on with says how many there are; and every prefix of the  *)
(* log has a last fence or start, if it has one at all.                    *)
Upto(k) == SubSeq(log, 1, k)
Counted == NextSequence = Cardinality(Supplements) + 1
PrefixesNumbered == \A k \in DOMAIN log : HasGreatest({0} \cup Fences(Upto(k)))

FenceInv == FenceHolds /\ Counted /\ PrefixesNumbered

(* What FenceHolds says of one supplement.                                 *)
OpenBefore(k) == LastFence(Upto(k)) # 0 => log[LastFence(Upto(k))].type = "start"
IsCount(k) == log[k].data = Cardinality({l \in Supplements : l <= k})

LEMMA FenceHoldsIs == FenceHolds = \A k \in Supplements : OpenBefore(k) /\ IsCount(k)
  BY DEF FenceHolds, OpenBefore, IsCount, LastFence, Upto

LEMMA FenceWillHoldIs == FenceHolds' = \A k \in Supplements' : OpenBefore(k)' /\ IsCount(k)'
  BY DEF FenceHolds, OpenBefore, IsCount, LastFence, Upto

LEMMA PrefixIs ==
  ASSUME NEW lines \in Seq(Line), NEW k \in DOMAIN lines
  PROVE  /\ SubSeq(lines, 1, k) \in Seq(Line) /\ Len(SubSeq(lines, 1, k)) = k
         /\ \A i \in 1..k : SubSeq(lines, 1, k)[i] = lines[i]
  <1>1. k \in Nat /\ 1 <= k /\ k <= Len(lines) /\ DOMAIN lines = 1..Len(lines)
    BY LinesAre
  <1>2. \A i \in 1..k : lines[i] \in Line  BY <1>1, LinesAre
  <1> QED  BY <1>1, <1>2, SubSeqProperties

(* A prefix stays when a line is added; the whole log is one more.         *)
LEMMA PrefixKept ==
  ASSUME TypeOK, NEW line \in Line, log' = Append(log, line)
  PROVE  /\ \A k \in DOMAIN log : Upto(k)' = Upto(k)
         /\ \A n : n = Len(log) + 1 => Upto(n)' = log'
  <1>1. /\ log \in Seq(Line) /\ log' \in Seq(Line) /\ Len(log') = Len(log) + 1
        /\ DOMAIN log' = DOMAIN log \cup {Len(log) + 1}
    BY Grown DEF TypeOK
  <1>2. ASSUME NEW k \in DOMAIN log  PROVE Upto(k)' = Upto(k)
    <2>1. k \in DOMAIN log' /\ k \in Nat  BY <1>1, LinesOf
    <2>2. /\ Upto(k) \in Seq(Line) /\ Upto(k)' \in Seq(Line)
          /\ Len(Upto(k)) = k /\ Len(Upto(k)') = k
          /\ \A i \in 1..k : Upto(k)[i] = log[i] /\ Upto(k)'[i] = log'[i]
      BY <1>1, <2>1, PrefixIs DEF Upto
    <2>3. \A i \in 1..k : i \in DOMAIN log  BY LinesOf
    <2>4. \A i \in 1..k : Upto(k)'[i] = Upto(k)[i]  BY <2>2, <2>3, Grown
    <2> QED  BY <2>2, <2>4, SeqEqual
  <1>3. ASSUME NEW n, n = Len(log) + 1  PROVE Upto(n)' = log'
    <2>1. SubSeq(log', 1, Len(log')) = log'  BY <1>1, SubSeqFull
    <2> QED  BY <1>1, <1>3, <2>1 DEF Upto
  <1> QED  BY <1>2, <1>3

(* The last fence or start of a log is one of its lines, of that kind.     *)
LEMMA LastFenceIn ==
  ASSUME NEW lines \in Seq(Line), HasGreatest({0} \cup Fences(lines)), LastFence(lines) # 0
  PROVE  /\ LastFence(lines) \in Fences(lines) /\ LastFence(lines) \in DOMAIN lines
         /\ lines[LastFence(lines)].type \in {"fence", "start"}
  <1>1. PICK n \in {0} \cup Fences(lines) : \A m \in {0} \cup Fences(lines) : m <= n
    BY DEF HasGreatest
  <1>2. Fences(lines) # {}  BY LastFenceIs
  <1>3. Fences(lines) \subseteq DOMAIN lines /\ \A m \in Fences(lines) : m \in Nat /\ m >= 1
    BY LinesAre DEF Fences
  <1>4. n \in Fences(lines)  BY <1>1, <1>2, <1>3
  <1>5. LastFence(lines) = n  BY <1>1, <1>4, LastFenceIs
  <1> QED  BY <1>3, <1>4, <1>5 DEF Fences

LEMMA SupplementsFinite ==
  ASSUME TypeOK
  PROVE  /\ IsFiniteSet(Supplements) /\ Cardinality(Supplements) \in Nat
         /\ Supplements \subseteq DOMAIN log
  <1>1. Supplements \subseteq 1..Len(log) /\ Len(log) \in Nat  BY LinesOf DEF Supplements
  <1>2. IsFiniteSet(1..Len(log))  BY <1>1, FS_Interval
  <1> QED  BY <1>1, <1>2, FS_Subset, FS_CardinalityType DEF Supplements

LEMMA EmptyFence == log = <<>> => FenceInv
  <1> SUFFICES ASSUME log = <<>>  PROVE FenceInv
    OBVIOUS
  <1>1. DOMAIN log = {}  BY LinesAre
  <1>2. Supplements = {}  BY <1>1 DEF Supplements
  <1>3. NextSequence = 1
    <2>1. NextSequence = Highest({1})  BY <1>2 DEF NextSequence
    <2>2. HasGreatest({1})  BY DEF HasGreatest
    <2> QED  BY <2>1, <2>2, HighestIs
  <1>4. Cardinality(Supplements) = 0  BY <1>2, FS_EmptySet
  <1> QED  BY <1>1, <1>2, <1>3, <1>4 DEF FenceInv, FenceHolds, Counted, PrefixesNumbered

LEMMA EmptiedFence == log' = <<>> => FenceInv'
  <1>1. (log = <<>> => FenceInv)'  BY EmptyFence, PTL
  <1> QED  BY <1>1

(* A line that is added keeps the fence, when it is no supplement or one   *)
(* that a replay would call open, with the number it would give.           *)
LEMMA LineKeepsFence ==
  ASSUME TypeOK, Numbered, FenceInv, NEW line \in Line, log' = Append(log, line),
         line.type = "supplement" => line.data = NextSequence /\ ~Closed
  PROVE  FenceInv'
  <1>1. PICK n : n = Len(log) + 1
    OBVIOUS
  <1>2. /\ log \in Seq(Line) /\ log' \in Seq(Line) /\ DOMAIN log' = DOMAIN log \cup {n}
        /\ log'[n] = line /\ \A k \in DOMAIN log : k \in Nat /\ k < n /\ log'[k] = log[k]
        /\ n \in Nat
    BY <1>1, Grown, LinesOf DEF TypeOK
  <1>3. n \notin DOMAIN log  BY <1>2
  <1>4. (\A k \in DOMAIN log : Upto(k)' = Upto(k)) /\ Upto(n)' = log'
    BY <1>1, PrefixKept
  <1>5. /\ Supplements' = IF line.type = "supplement" THEN Supplements \cup {n} ELSE Supplements
        /\ Supplements \subseteq DOMAIN log
    BY <1>2, <1>3 DEF Supplements
  <1>6. /\ IsFiniteSet(Supplements) /\ Cardinality(Supplements) \in Nat
        /\ Cardinality(Supplements \cup {n}) = Cardinality(Supplements) + 1
    BY <1>3, <1>5, SupplementsFinite, FS_AddElement
  <1>7. /\ Numbered'
        /\ NextSequence' = IF line.type = "supplement" THEN NextSequence + 1 ELSE NextSequence
    BY GrownReplay
  <1>8. NextSequence = Cardinality(Supplements) + 1  BY DEF FenceInv, Counted
  <1>9. Counted'
    <2>1. CASE line.type = "supplement"
      <3>1. Supplements' = Supplements \cup {n}  BY <1>5, <2>1
      <3>2. Cardinality(Supplements') = Cardinality(Supplements) + 1
        BY <1>6, <3>1, Zenon
      <3> QED  BY <1>7, <1>8, <2>1, <3>2 DEF Counted
    <2>2. CASE line.type # "supplement"
      <3>1. Cardinality(Supplements') = Cardinality(Supplements)
        BY <1>5, <2>2
      <3> QED  BY <1>7, <1>8, <2>2, <3>1 DEF Counted
    <2> QED  BY <2>1, <2>2
  <1>10. PrefixesNumbered'
    <2> SUFFICES ASSUME NEW k \in DOMAIN log'  PROVE HasGreatest({0} \cup Fences(Upto(k)'))
      BY DEF PrefixesNumbered
    <2>1. CASE k = n  BY <1>4, <1>7, <2>1 DEF Numbered
    <2>2. CASE k \in DOMAIN log  BY <1>4, <2>2 DEF FenceInv, PrefixesNumbered
    <2> QED  BY <1>2, <2>1, <2>2
  <1>11. FenceHolds'
    <2> SUFFICES ASSUME NEW k \in Supplements'  PROVE OpenBefore(k)' /\ IsCount(k)'
      BY FenceWillHoldIs
    <2>1. CASE k \in Supplements
      <3>1. k \in DOMAIN log /\ k < n  BY <1>2, <1>5, <2>1
      <3>2. OpenBefore(k) /\ IsCount(k)  BY <2>1, FenceHoldsIs DEF FenceInv
      <3>3. OpenBefore(k)'
        <4> SUFFICES ASSUME LastFence(Upto(k)) # 0
                     PROVE  log'[LastFence(Upto(k))].type = "start"
          BY <1>4, <3>1 DEF OpenBefore
        <4>1. Upto(k) \in Seq(Line) /\ Len(Upto(k)) = k  BY <1>2, <3>1, PrefixIs DEF Upto
        <4>2. LastFence(Upto(k)) \in DOMAIN Upto(k)
          BY <3>1, <4>1, LastFenceIn DEF FenceInv, PrefixesNumbered
        <4>3. LastFence(Upto(k)) \in DOMAIN log  BY <3>1, <4>1, <4>2, LinesAre, LinesOf
        <4> QED  BY <1>2, <3>2, <4>3 DEF OpenBefore
      <3>4. {l \in Supplements' : l <= k} = {l \in Supplements : l <= k}
        BY <1>2, <1>5, <3>1
      <3> QED  BY <1>2, <3>1, <3>2, <3>3, <3>4 DEF IsCount
    <2>2. CASE k = n /\ line.type = "supplement"
      <3>1. {l \in Supplements' : l <= k} = Supplements \cup {n}
        BY <1>2, <1>5, <2>2
      <3>2. IsCount(k)'
        <4>1. Cardinality({l \in Supplements' : l <= k}) = Cardinality(Supplements) + 1
          BY <1>6, <3>1, Zenon
        <4> QED  BY <1>2, <1>8, <2>2, <4>1 DEF IsCount
      <3>3. OpenBefore(k)'
        <4> SUFFICES ASSUME LastFence(log') # 0  PROVE log'[LastFence(log')].type = "start"
          BY <1>4, <2>2 DEF OpenBefore
        <4>1. Closed' = Closed  BY <2>2, GrownReplay
        <4>2. Closed' = (LastFence(log') # 0 /\ log'[LastFence(log')].type = "fence")
          BY DEF Closed, LastFence, SelectLastInSeq
        <4>3. log'[LastFence(log')].type \in {"fence", "start"}
          BY <1>2, <1>7, LastFenceIn DEF Numbered
        <4>4. ~Closed'  BY <2>2, <4>1
        <4>5. log'[LastFence(log')].type # "fence"  BY <4>2, <4>4
        <4> QED  BY <4>3, <4>5
      <3> QED  BY <3>2, <3>3
    <2> QED  BY <1>5, <2>1, <2>2
  <1> QED  BY <1>9, <1>10, <1>11 DEF FenceInv

LEMMA SameFence ==
  ASSUME FenceInv, log' = log
  PROVE  FenceInv'
  <1>1. NextSequence' = NextSequence  BY SameReplay
  <1>2. Supplements' = Supplements  BY DEF Supplements
  <1>3. \A k : Upto(k)' = Upto(k)  BY DEF Upto
  <1>4. FenceHolds'
    <2>1. \A k \in Supplements : OpenBefore(k)' = OpenBefore(k)  BY <1>3 DEF OpenBefore
    <2>2. \A k \in Supplements : IsCount(k)' = IsCount(k)  BY <1>2 DEF IsCount
    <2> QED  BY <1>2, <2>1, <2>2, FenceHoldsIs, FenceWillHoldIs DEF FenceInv
  <1>5. Counted' /\ PrefixesNumbered'  BY <1>1, <1>2, <1>3 DEF FenceInv, Counted, PrefixesNumbered
  <1> QED  BY <1>4, <1>5 DEF FenceInv

(* What a step does to the log.                                            *)
LEMMA LogMoves ==
  ASSUME IInv, FailedAppendsLeaveNothing, NoStartThrows, [Next]_vars
  PROVE  \/ log' = log \/ log' = <<>>
         \/ \E line \in Line : /\ log' = Append(log, line)
                               /\ line.type = "supplement" => line.data = NextSequence /\ ~Closed
  <1> DEFINE Adds == \E line \in Line :
               /\ log' = Append(log, line)
               /\ line.type = "supplement" => line.data = NextSequence /\ ~Closed
  <1>1. ASSUME NEW p \in Writers, Mine(p), Appends(p)  PROVE Adds
    BY <1>1, WriteFacts
  <1>2. ASSUME NEW p \in Writers, WriteHeader(p)  PROVE Adds
    <2>1. draft[p] \in Handle  BY DEF IInv, TypeOK
    <2>2. LineOf(draft[p], "header", 0) \in Line /\ LineOf(draft[p], "header", 0).type = "header"
      BY <2>1 DEF LineOf, Line, Types, Handle
    <2>3. log' = Append(log, LineOf(draft[p], "header", 0))  BY <1>2 DEF WriteHeader
    <2> QED  BY <2>2, <2>3
  <1>3. ASSUME NEW p \in Writers, Mine(p), Written(LineOf(handle[p], "other", 0))  PROVE Adds
    <2>1. handle[p] \in Handle /\ ~torn  BY <1>3, OwnerWrites
    <2>2. LineOf(handle[p], "other", 0) \in Line /\ LineOf(handle[p], "other", 0).type = "other"
      BY <2>1 DEF LineOf, Line, Types, Handle
    <2>3. log' = Append(log, LineOf(handle[p], "other", 0))  BY <1>3, <2>1 DEF Written
    <2> QED  BY <2>2, <2>3
  <1> HIDE DEF Adds
  <1>4. ASSUME NEW p \in Writers, Open(p) \/ TakeOver(p) \/ Replay(p) \/ AcquireLease(p)
                                  \/ GiveUp(p) \/ ReleaseLease(p) \/ KillInHeader(p)
                                  \/ KillInLease(p)
        PROVE  log' = log
    BY <1>4 DEF Open, TakeOver, Replay, AcquireLease, GiveUp, ReleaseLease, KillInHeader,
                KillInLease, disk
  <1>5. ASSUME NEW g \in Collectors, Collect(g) \/ UnlinkLease(g) \/ Mark(g) \/ Rename(g)
                                     \/ CollectFails(g) \/ DeleteTrash(g)
        PROVE  log' = log \/ log' = <<>>
    BY <1>5 DEF Collect, UnlinkLease, Mark, Rename, CollectFails, DeleteTrash, disk
  <1>6. ASSUME NEW p \in Procs, Kill(p)  PROVE log' = log
    BY <1>6 DEF Kill
  <1>7. ASSUME NEW p \in Writers, HeaderFails(p) \/ AppendFails(p)  PROVE log' = log
    BY <1>7, LeavesNothing DEF HeaderFails, AppendFails
  <1>8. CASE UNCHANGED vars  BY <1>8 DEF vars, disk
  <1> QED  BY <1>1, <1>2, <1>3, <1>4, <1>5, <1>6, <1>7, <1>8, Steps DEF Adds

(* Between a worker's close fence and the next worker's start no           *)
(* supplement is recorded, and supplements are numbered consecutively,     *)
(* across recoveries and takeovers (recordSupplement, closeFence and       *)
(* replayLocked of run-control-wal.ts), if no append of a worker's start   *)
(* throws: beginWorker reopens the cached fence before it appends, and     *)
(* supplements would be taken again though no start was written.           *)
THEOREM FenceKept ==
  ASSUME FailedAppendsLeaveNothing, NoStartThrows
  PROVE  Spec => []FenceHolds
  <1>1. Init => FenceInv  BY EmptyFence DEF Init
  <1>2. IInv /\ FenceInv /\ [Next]_vars => FenceInv'
    <2> SUFFICES ASSUME IInv, FenceInv, [Next]_vars  PROVE FenceInv'
      OBVIOUS
    <2>1. CASE log' = log  BY <2>1, SameFence
    <2>2. CASE log' = <<>>  BY <2>2, EmptiedFence
    <2>3. ASSUME NEW line \in Line, log' = Append(log, line),
                 line.type = "supplement" => line.data = NextSequence /\ ~Closed
          PROVE  FenceInv'
      BY <2>3, LineKeepsFence DEF IInv
    <2> QED  BY <2>1, <2>2, <2>3, LogMoves
  <1>3. FenceInv => FenceHolds  BY DEF FenceInv
  <1> QED  BY <1>1, <1>2, <1>3, Invariance, PTL DEF Spec

-----------------------------------------------------------------------------
(* Collections need much less of the invariant, and nothing of appends:    *)
(* who may be where, and what a tombstone and a lease say of it.           *)
Stands ==
  /\ pc \in [Procs -> Places] /\ lease.state \in {"none", "held", "torn"}
  /\ Holding /\ CollectorsInside
  /\ \A p \in Procs : pc[p] \in {"opening", "replayed", "leased"} => p \in Writers /\ ~marker

(* Who enters, moves on inside and leaves, when tombstone, lease and dead  *)
(* do not matter to anybody else.                                          *)
LEMMA Moves ==
  ASSUME Stands, NEW p \in Procs, NEW place \in Places, pc' = [pc EXCEPT ![p] = place],
         holder = p \/ (holder = NoProc /\ p \notin dead),
         place # "idle" => holder' = p,
         dead' = dead, lease'.state \in {"none", "held", "torn"},
         place \in {"opening", "replayed", "leased"} => p \in Writers /\ ~marker',
         place = "unlinking" => lease'.state = "held" /\ lease'.pid \in dead,
         place \in {"marking", "renaming"} => lease'.state = "none",
         place \in {"unlinking", "marking", "renaming"} => p \in Collectors,
         place \in {"unlinking", "marking"} => ~marker',
         place = "renaming" => marker',
         pc[p] # "idle" \/ (holder = NoProc /\ p \notin dead)
  PROVE  Stands'
  <1>1. p # NoProc  BY WalAssumption DEF Procs
  <1>2. \A q \in Procs : q # p => pc[q] = "idle"
    BY <1>1, WalAssumption DEF Stands, Holding, Procs
  <1>3. pc'[p] = place /\ p \notin dead /\ \A q \in Procs : q # p => pc'[q] = "idle"
    BY <1>2 DEF Stands, Holding
  <1>4. pc' \in [Procs -> Places]  BY DEF Stands
  <1>5. Holding'  BY <1>3 DEF Holding
  <1>6. CollectorsInside'  BY <1>3 DEF CollectorsInside
  <1> QED  BY <1>3, <1>4, <1>5, <1>6 DEF Stands

LEMMA InitStands == Init => Stands
  BY DEF Init, Stands, Holding, CollectorsInside, NoLease, Places

LEMMA NextStands == Stands /\ [Next]_vars => Stands'
  <1> SUFFICES ASSUME Stands, [Next]_vars  PROVE Stands'
    OBVIOUS
  <1> USE DEF Procs
  <1>1. ASSUME NEW p \in Procs, pc[p] # "idle"
        PROVE  holder = p /\ p \notin dead /\ \A q \in Procs : q # p => pc[q] = "idle"
    BY <1>1 DEF Stands, Holding
  <1>2. NoLease.state = "none" /\ [NoLease EXCEPT !.state = "torn"].state = "torn"
    BY DEF NoLease
  <1>3. ASSUME NEW p \in Writers, Open(p) \/ TakeOver(p)  PROVE Stands'
    <2>1. /\ holder = NoProc /\ p \notin dead /\ pc' = [pc EXCEPT ![p] = "opening"]
          /\ holder' = p /\ dead' = dead /\ lease' = lease /\ ~marker'
      BY <1>3 DEF Open, TakeOver, Free, Enter, disk
    <2>2. "opening" \in Places  BY DEF Places
    <2> QED  BY <2>1, <2>2, Moves DEF Stands
  <1>4. ASSUME NEW p \in Writers, Replay(p) \/ AcquireLease(p) \/ WriteHeader(p) \/ GiveUp(p)
                                  \/ HeaderFails(p)
        PROVE  Stands'
    <2>1. /\ pc[p] \in {"opening", "replayed", "leased"} /\ dead' = dead /\ marker' = marker
          /\ \E place \in {"idle", "replayed", "leased"} :
               pc' = [pc EXCEPT ![p] = place] /\ (place # "idle" => holder' = holder)
          /\ lease' = lease \/ lease'.state = "held"
      <3>1. CASE Replay(p)  BY <3>1 DEF Replay, Inside, Goto
      <3>2. CASE AcquireLease(p)
        <4>1. /\ pc[p] = "replayed" /\ dead' = dead /\ marker' = marker /\ lease'.state = "held"
              /\ \/ pc' = [pc EXCEPT ![p] = "idle"]
                 \/ pc' = [pc EXCEPT ![p] = "leased"] /\ holder' = holder
          BY <3>2 DEF AcquireLease, Inside, Goto, Leave
        <4> QED  BY <4>1
      <3>3. CASE WriteHeader(p)  BY <3>3 DEF WriteHeader, Inside, Leave
      <3>4. CASE GiveUp(p)  BY <3>4 DEF GiveUp, Inside, Leave, disk
      <3>5. CASE HeaderFails(p)  BY <3>5 DEF HeaderFails, Inside, Leave
      <3> QED  BY <1>4, <3>1, <3>2, <3>3, <3>4, <3>5
    <2>2. PICK place \in {"idle", "replayed", "leased"} :
            pc' = [pc EXCEPT ![p] = place] /\ (place # "idle" => holder' = holder)
      BY <2>1
    <2>3. place \in Places /\ pc[p] # "idle" /\ holder = p /\ ~marker'
      BY <1>1, <2>1 DEF Places, Stands
    <2> QED  BY <2>1, <2>2, <2>3, Moves DEF Stands
  <1>5. ASSUME NEW p \in Writers, Appending(p)  PROVE Stands'
    <2>1. /\ Mine(p) /\ UNCHANGED <<marker, holder, dead, pc>>
          /\ lease' = lease \/ lease' = NoLease
      BY <1>5 DEF Appending, RecordSupplement, CloseFence, BeginWorker, RecordOther,
         MigrateLegacy, AppendFails, ReleaseLease, Write
    <2>2. \A q \in Procs : pc[q] = "idle"
      BY <2>1, WalAssumption DEF Mine, Free, Stands, Holding
    <2> QED  BY <1>2, <2>1, <2>2 DEF Stands, Holding, CollectorsInside
  <1>6. ASSUME NEW g \in Collectors, Collect(g)  PROVE Stands'
    <2>1. /\ holder = NoProc /\ g \notin dead /\ ~marker' /\ holder' = g /\ dead' = dead
          /\ pc' = [pc EXCEPT ![g] = IF lease.state = "held" THEN "unlinking" ELSE "marking"]
          /\ lease.state # "torn" /\ (lease.state = "held" => lease.pid \in dead)
          /\ lease' = lease
      BY <1>6 DEF Collect, Free, Collectable, Enter, disk
    <2>2. "unlinking" \in Places /\ "marking" \in Places  BY DEF Places
    <2> QED  BY <2>1, <2>2, Moves DEF Stands
  <1>7. ASSUME NEW g \in Collectors, UnlinkLease(g) \/ Mark(g) \/ Rename(g) \/ CollectFails(g)
        PROVE  Stands'
    <2>1. CASE UnlinkLease(g)
      <3>1. /\ pc[g] = "unlinking" /\ lease'.state = "none" /\ pc' = [pc EXCEPT ![g] = "marking"]
            /\ UNCHANGED <<marker, holder, dead>>
        BY <1>2, <2>1 DEF UnlinkLease, Inside, Goto
      <3>2. "marking" \in Places /\ holder = g /\ ~marker'
        BY <1>1, <3>1 DEF Places, Stands, CollectorsInside
      <3> QED  BY <3>1, <3>2, Moves
    <2>2. CASE Mark(g)
      <3>1. /\ pc[g] = "marking" /\ marker' /\ pc' = [pc EXCEPT ![g] = "renaming"]
            /\ UNCHANGED <<lease, holder, dead>>
        BY <2>2 DEF Mark, Inside, Goto
      <3>2. "renaming" \in Places /\ holder = g /\ lease.state = "none"
        BY <1>1, <3>1 DEF Places, Stands, CollectorsInside
      <3> QED  BY <3>1, <3>2, Moves
    <2>3. CASE Rename(g) \/ CollectFails(g)
      <3>1. /\ pc[g] # "idle" /\ pc' = [pc EXCEPT ![g] = "idle"]
            /\ UNCHANGED <<lease, marker, dead>>
        BY <2>3 DEF Rename, CollectFails, Inside, Leave, disk
      <3>2. "idle" \in Places /\ holder = g  BY <1>1, <3>1 DEF Places
      <3> QED  BY <3>1, <3>2, Moves DEF Stands
    <2> QED  BY <1>7, <2>1, <2>2, <2>3
  <1>8. ASSUME NEW p \in Procs, Dies(p),
               lease' = lease \/ (lease'.state = "torn" /\ p \in Writers /\ pc[p] # "idle")
        PROVE  Stands'
    <2>1. /\ dead' = dead \cup {p} /\ pc' = [pc EXCEPT ![p] = "idle"] /\ marker' = marker
          /\ holder' = IF holder = p THEN NoProc ELSE holder
      BY <1>8 DEF Dies
    <2>2. \A q \in Procs : pc'[q] # "idle" => q # p /\ pc'[q] = pc[q] /\ holder = q /\ q \notin dead
      BY <1>1, <2>1 DEF Stands
    <2>3. Holding'  BY <2>1, <2>2 DEF Holding
    <2>4. lease' = lease \/ \A q \in Procs : pc'[q] = "idle"
      BY <1>1, <1>8, <2>2
    <2>5. CollectorsInside'
      BY <2>1, <2>2, <2>4 DEF Stands, CollectorsInside
    <2>6. pc' \in [Procs -> Places]  BY <2>1 DEF Stands, Places
    <2>7. lease'.state \in {"none", "held", "torn"}  BY <1>8 DEF Stands
    <2> QED  BY <2>1, <2>2, <2>3, <2>5, <2>6, <2>7 DEF Stands
  <1>9. ASSUME NEW p \in Procs, Kill(p)  PROVE Stands'  BY <1>8, <1>9 DEF Kill
  <1>10. ASSUME NEW p \in Writers, KillInAppend(p) \/ KillInHeader(p) \/ KillInLease(p)
         PROVE  Stands'
    <2>1. Dies(p) /\ (lease' = lease \/ (lease'.state = "torn" /\ pc[p] # "idle"))
      BY <1>2, <1>10 DEF KillInAppend, KillInHeader, KillInLease, Inside
    <2> QED  BY <1>8, <2>1
  <1>11. CASE UNCHANGED <<lease, marker, holder, dead, pc>>
    BY <1>11 DEF Stands, Holding, CollectorsInside
  <1>12. (\E g \in Collectors : DeleteTrash(g)) \/ UNCHANGED vars
           => UNCHANGED <<lease, marker, holder, dead, pc>>
    BY DEF DeleteTrash, vars, disk
  <1> QED
    BY <1>3, <1>4, <1>5, <1>6, <1>7, <1>9, <1>10, <1>11, <1>12
    DEF Next, Opening, Collecting

(* This holds however appends fail.                                        *)
THEOREM AlwaysStands == Spec => []Stands
  BY InitStands, NextStands, PTL DEF Spec

(* Garbage collection takes no lease from a live writer and tombstones no  *)
(* run one holds (run-gc.ts, collectOne).                                  *)
THEOREM SparesWriters == Spec => CollectionSparesWriters
  <1> DEFINE Spared == /\ holder \in Collectors /\ lease' # lease => lease.pid \in dead
                       /\ ~marker /\ marker' => \A p \in Writers \ dead : ~Owns(p)
  <1>1. Stands /\ [Next]_vars => Spared
    <2> SUFFICES ASSUME Stands, [Next]_vars  PROVE Spared
      OBVIOUS
    <2>1. ASSUME NEW p \in Procs, pc[p] # "idle"  PROVE holder = p
      BY <2>1 DEF Stands, Holding
    <2>2. \A p \in Writers : p \notin Collectors /\ p # NoProc  BY WalAssumption
    <2>3. ASSUME NEW p \in Writers,
                 \/ Open(p) \/ TakeOver(p) \/ Replay(p) \/ WriteHeader(p) \/ GiveUp(p)
                 \/ HeaderFails(p) \/ KillInHeader(p) \/ KillInAppend(p)
          PROVE  lease' = lease /\ marker' = marker
      <3>1. CASE Open(p) \/ TakeOver(p)  BY <3>1 DEF Open, TakeOver, disk
      <3>2. CASE Replay(p) \/ WriteHeader(p) \/ GiveUp(p) \/ HeaderFails(p)
        BY <3>2 DEF Replay, WriteHeader, GiveUp, HeaderFails, disk
      <3>3. CASE KillInHeader(p) \/ KillInAppend(p)
        BY <3>3 DEF KillInHeader, KillInAppend, Dies
      <3> QED  BY <2>3, <3>1, <3>2, <3>3
    <2>4. ASSUME NEW p \in Writers, AcquireLease(p) \/ KillInLease(p) \/ Appending(p)
          PROVE  holder \notin Collectors /\ marker' = marker
      <3>1. CASE AcquireLease(p) \/ KillInLease(p)
        BY <2>1, <2>2, <3>1 DEF AcquireLease, KillInLease, Inside, Dies, Procs
      <3>2. CASE Appending(p)
        BY <3>2, WalAssumption DEF Appending, RecordSupplement, CloseFence, BeginWorker,
           RecordOther, MigrateLegacy, AppendFails, ReleaseLease, Write, Mine, Free
      <3> QED  BY <2>4, <3>1, <3>2
    <2>5. ASSUME NEW g \in Collectors,
                 Collect(g) \/ Rename(g) \/ CollectFails(g) \/ DeleteTrash(g)
          PROVE  lease' = lease /\ marker' = marker
      BY <2>5 DEF Collect, Rename, CollectFails, DeleteTrash, disk
    <2>6. ASSUME NEW g \in Collectors, UnlinkLease(g)
          PROVE  lease.pid \in dead /\ marker' = marker
      BY <2>6 DEF UnlinkLease, Inside, Stands, CollectorsInside, Procs
    <2>7. ASSUME NEW g \in Collectors, Mark(g)
          PROVE  lease' = lease /\ \A p \in Writers : ~Owns(p)
      BY <2>7 DEF Mark, Inside, Stands, CollectorsInside, Procs, Owns
    <2>8. ASSUME NEW p \in Procs, Kill(p)  PROVE lease' = lease /\ marker' = marker
      BY <2>8 DEF Kill, Dies
    <2>9. CASE UNCHANGED vars  BY <2>9 DEF vars, disk
    <2> QED
      BY <2>3, <2>4, <2>5, <2>6, <2>7, <2>8, <2>9 DEF Next, Opening, Collecting
  <1> HIDE DEF Spared
  <1>2. [][Spared]_vars <=> CollectionSparesWriters  BY DEF Spared, CollectionSparesWriters
  <1> QED  BY AlwaysStands, <1>1, <1>2, PTL DEF Spec

(* A tombstone is final: no record, no lease and no directory after it     *)
(* (run-control-wal.ts, withOperationLock).                                *)
THEOREM FinalTombstone == Spec => NoResurrection
  <1> DEFINE Final == marker => /\ marker'
                                /\ log' \in {log, <<>>}
                                /\ lease' = lease
                                /\ (exists' => exists)
  <1>1. Stands /\ [Next]_vars => Final
    <2> SUFFICES ASSUME Stands, [Next]_vars, marker  PROVE Final
      BY DEF Final
    <2>1. \A p \in Procs : pc[p] \notin {"opening", "replayed", "leased", "unlinking", "marking"}
      BY DEF Stands, CollectorsInside
    <2>2. ASSUME NEW p \in Writers,
                 \/ Open(p) \/ TakeOver(p) \/ Replay(p) \/ AcquireLease(p) \/ WriteHeader(p)
                 \/ GiveUp(p) \/ HeaderFails(p) \/ Appending(p) \/ KillInAppend(p)
                 \/ KillInHeader(p) \/ KillInLease(p)
          PROVE  FALSE
      <3>1. p \in Procs  BY DEF Procs
      <3>2. CASE Open(p) \/ TakeOver(p) \/ KillInAppend(p)
        BY <3>2 DEF Open, TakeOver, KillInAppend, Mine, Free
      <3>3. CASE \/ Replay(p) \/ AcquireLease(p) \/ WriteHeader(p) \/ GiveUp(p)
                 \/ HeaderFails(p) \/ KillInHeader(p) \/ KillInLease(p)
        BY <2>1, <3>1, <3>3 DEF Replay, AcquireLease, WriteHeader, GiveUp, HeaderFails, KillInHeader,
           KillInLease, Inside
      <3>4. CASE Appending(p)
        BY <3>4 DEF Appending, RecordSupplement, CloseFence, BeginWorker, RecordOther,
           MigrateLegacy, AppendFails, ReleaseLease, Mine, Free
      <3> QED  BY <2>2, <3>2, <3>3, <3>4
    <2>3. ASSUME NEW g \in Collectors, Collect(g) \/ UnlinkLease(g) \/ Mark(g)  PROVE FALSE
      BY <2>1, <2>3 DEF Collect, Free, UnlinkLease, Mark, Inside, Procs
    <2>4. ASSUME NEW g \in Collectors, Rename(g)  PROVE Final
      BY <2>4 DEF Rename
    <2>5. ASSUME NEW g \in Collectors, CollectFails(g) \/ DeleteTrash(g)  PROVE Final
      BY <2>5 DEF CollectFails, DeleteTrash, disk
    <2>6. ASSUME NEW p \in Procs, Kill(p)  PROVE Final
      BY <2>6 DEF Kill, Dies
    <2>7. CASE UNCHANGED vars  BY <2>7 DEF vars, disk
    <2> HIDE DEF Final
    <2> QED
      BY <2>2, <2>3, <2>4, <2>5, <2>6, <2>7 DEF Next, Opening, Collecting
  <1> HIDE DEF Final
  <1>2. [][Final]_vars <=> NoResurrection  BY DEF Final, NoResurrection
  <1> QED  BY AlwaysStands, <1>1, <1>2, PTL DEF Spec

-----------------------------------------------------------------------------
(* The run is a fenced log.  A lease in force is a turn, ...               *)
LEMMA LesseeIs ==
  ASSUME IInv
  PROVE  /\ lease.state = "held" => Lessee = [by |-> lease.nonce, epoch |-> lease.epoch]
         /\ lease.state # "held" => Lessee = Log!Nobody
         /\ Lessee.epoch \in Nat
         /\ lease.state = "held" => Lessee.epoch = lease.epoch
  <1>1. lease.epoch \in Nat  BY DEF IInv, TypeOK, Lease
  <1> QED  BY <1>1 DEF Lessee, Log!Nobody

(* ... a line that says what the lease says is a turn taken, ...           *)
LEMMA LineIsWrite ==
  ASSUME IInv, NEW line \in Line, log' = Append(log, line),
         line.index = Len(log) + 1, line.epoch = lease.epoch, line.by = lease.nonce,
         lease.state = "held", lease.nonce # 0, lease' = lease, ~marker, marker' = marker,
         acked' \in {acked, acked \cup {line}}
  PROVE  Log!Write
  <1>1. Len(log') = Len(log) + 1 /\ log'[Len(log) + 1] = line  BY Grown DEF IInv
  <1>2. Lessee = [by |-> lease.nonce, epoch |-> lease.epoch] /\ Lessee' = Lessee
    BY LesseeIs DEF Lessee
  <1>3. Lessee # Log!Nobody /\ Lessee.by = lease.nonce /\ Lessee.epoch = lease.epoch
    BY <1>2 DEF Log!Nobody
  <1> QED  BY <1>1, <1>2, <1>3 DEF Log!Write

(* ... and so are the steps of a writer, ...                               *)
LEMMA AppendIsWrite ==
  ASSUME IInv, NEW p \in Writers, Mine(p), Appends(p)
  PROVE  Log!Write
  <1>1. PICK line \in Line :
           /\ log' = Append(log, line) /\ acked' = acked \cup {line}
           /\ line.index = Len(log) + 1
           /\ line.epoch = lease.epoch /\ line.by = lease.nonce
           /\ lease' = lease /\ marker' = marker
    BY WriteFacts
  <1>2. ~marker /\ lease.state = "held" /\ lease.nonce # 0  BY OwnerWrites
  <1> QED  BY <1>1, <1>2, LineIsWrite

LEMMA LateKillIsWrite ==
  ASSUME IInv, NEW p \in Writers, Mine(p), Dies(p), lease' = lease,
         Written(LineOf(handle[p], "other", 0))
  PROVE  Log!Write
  <1> DEFINE line == LineOf(handle[p], "other", 0)
  <1>1. /\ ~torn /\ ~marker /\ handle[p] \in Handle /\ handle[p].next = Len(log) + 1
        /\ lease.state = "held" /\ lease.nonce # 0
        /\ lease.nonce = handle[p].nonce /\ lease.epoch = handle[p].epoch
    BY OwnerWrites DEF Current
  <1>2. /\ line \in Line /\ line.index = Len(log) + 1
        /\ line.epoch = lease.epoch /\ line.by = lease.nonce
    BY <1>1 DEF LineOf, Line, Types, Handle
  <1>3. log' = Append(log, line)  BY <1>1 DEF Written
  <1>4. acked' = acked /\ marker' = marker  BY DEF Dies
  <1> HIDE DEF line
  <1> QED  BY <1>1, <1>2, <1>3, <1>4, LineIsWrite

LEMMA HeaderIsWrite ==
  ASSUME IInv, NEW p \in Writers, WriteHeader(p)
  PROVE  Log!Write
  <1> DEFINE line == LineOf(draft[p], "header", 0)
  <1>1. /\ pc[p] = "leased" /\ log' = Append(log, line) /\ acked' = acked \cup {line}
        /\ lease' = lease /\ marker' = marker
    BY DEF WriteHeader, Inside
  <1>2. /\ draft[p] \in Handle /\ draft[p].nonce # 0 /\ Current(draft[p]) /\ ~marker
        /\ lease.state = "held" /\ lease.nonce = draft[p].nonce /\ lease.epoch = draft[p].epoch
    BY <1>1 DEF IInv, DraftIsCurrent, WritersInside, TypeOK, Procs
  <1>3. /\ line \in Line /\ line.index = Len(log) + 1
        /\ line.epoch = lease.epoch /\ line.by = lease.nonce
    BY <1>2 DEF LineOf, Line, Types, Handle, Current
  <1> HIDE DEF line
  <1> QED  BY <1>1, <1>2, <1>3, LineIsWrite

(* ... a lease taken is past the one before it and past every line, ...    *)
LEMMA AcquireIsGrant ==
  ASSUME IInv, NEW p \in Writers, AcquireLease(p)
  PROVE  Log!Grant
  <1> DEFINE e == NextEpoch(p)
             top == Highest({draft[p].epoch, lease.epoch})
             h == [draft[p] EXCEPT !.epoch = NextEpoch(p)]
  <1>1. /\ pc[p] = "replayed"
        /\ lease' = [state |-> "held", nonce |-> h.nonce, pid |-> p, epoch |-> h.epoch]
        /\ UNCHANGED <<log, acked, marker>>
    BY DEF AcquireLease, Inside
  <1>2. /\ draft[p] \in Handle /\ draft[p].nonce # 0 /\ MaxEpoch <= draft[p].epoch /\ ~marker
    BY <1>1 DEF IInv, DraftIsCurrent, WritersInside, TypeOK, Procs, Current
  <1>3. draft[p].epoch \in Nat /\ lease.epoch \in Nat  BY <1>2 DEF Handle, IInv, TypeOK, Lease
  <1>4. top \in Nat /\ draft[p].epoch <= top /\ lease.epoch <= top  BY <1>3, HighestOfTwo
  <1>5. e = top + 1  BY DEF NextEpoch
  <1>6. h.nonce = draft[p].nonce /\ h.epoch = e  BY <1>2 DEF Handle
  <1> HIDE DEF e, top, h
  <1>7. Lessee' = [by |-> draft[p].nonce, epoch |-> e]  BY <1>1, <1>6 DEF Lessee
  <1>8. Lessee' # Log!Nobody /\ (Lessee').epoch = e  BY <1>2, <1>7 DEF Log!Nobody
  <1>9. e > Lessee.epoch
    <2>1. Lessee.epoch \in {lease.epoch, 0}  BY DEF Lessee
    <2> QED  BY <1>3, <1>4, <1>5, <2>1
  <1>10. \A k \in DOMAIN log : e > log[k].epoch
    <2>1. MaxEpoch \in Nat /\ \A k \in DOMAIN log : log[k].epoch <= MaxEpoch /\ log[k].epoch \in Nat
      BY MaxEpochIs, LinesOf DEF IInv
    <2> QED  BY <1>2, <1>3, <1>4, <1>5, <2>1
  <1> QED  BY <1>1, <1>2, <1>8, <1>9, <1>10 DEF Log!Grant

(* ... and what touches neither log nor tombstone leaves the turn as it is *)
(* or takes it away.                                                       *)
LEMMA QuietIsStutterOrLoss ==
  ASSUME UNCHANGED <<log, acked, marker>>, lease' = lease \/ lease'.state # "held"
  PROVE  [Log!Lose]_(Log!vars)
  <1>1. CASE lease' = lease  BY <1>1 DEF Lessee, Log!vars
  <1>2. CASE lease'.state # "held"
    <2>1. Lessee' = Log!Nobody  BY <1>2 DEF Lessee, Log!Nobody
    <2> QED  BY <2>1 DEF Log!Lose
  <1> QED  BY <1>1, <1>2

LEMMA NextIsFenced ==
  ASSUME IInv, Stands, FailedAppendsLeaveNothing, [Next]_vars
  PROVE  [Log!Next]_(Log!vars)
  <1> DEFINE Quiet == /\ UNCHANGED <<log, acked, marker>>
                      /\ lease' = lease \/ lease'.state # "held"
  <1>0. NoLease.state # "held" /\ [NoLease EXCEPT !.state = "torn"].state # "held"
    BY DEF NoLease
  <1>1. ASSUME NEW p \in Writers,
               \/ Open(p) \/ TakeOver(p) \/ Replay(p) \/ GiveUp(p) \/ ReleaseLease(p)
               \/ HeaderFails(p) \/ AppendFails(p) \/ KillInHeader(p) \/ KillInLease(p)
        PROVE  Quiet
    <2>1. CASE Open(p) \/ TakeOver(p)  BY <2>1 DEF Open, TakeOver, disk
    <2>2. CASE Replay(p) \/ GiveUp(p)  BY <2>2 DEF Replay, GiveUp, disk
    <2>3. CASE ReleaseLease(p)  BY <1>0, <2>3 DEF ReleaseLease
    <2>4. CASE KillInHeader(p)  BY <2>4 DEF KillInHeader, Dies
    <2>5. CASE KillInLease(p)  BY <1>0, <2>5 DEF KillInLease, Dies
    <2>6. CASE HeaderFails(p) \/ AppendFails(p)
      BY <2>6, LeavesNothing DEF HeaderFails, AppendFails
    <2> QED  BY <1>1, <2>1, <2>2, <2>3, <2>4, <2>5, <2>6
  <1>2. ASSUME NEW g \in Collectors,
               Collect(g) \/ UnlinkLease(g) \/ CollectFails(g) \/ DeleteTrash(g)
        PROVE  Quiet
    BY <1>0, <1>2 DEF Collect, UnlinkLease, CollectFails, DeleteTrash, disk
  <1>3. ASSUME NEW p \in Procs, Kill(p)  PROVE Quiet  BY <1>3 DEF Kill, Dies
  <1>4. ASSUME NEW p \in Writers, Dies(p), lease' = lease, UNCHANGED log  PROVE Quiet
    BY <1>4 DEF Dies
  <1>5. CASE UNCHANGED vars  BY <1>5, QuietIsStutterOrLoss DEF vars, disk, Log!Next
  <1>6. ASSUME NEW g \in Collectors, Mark(g)  PROVE Log!End
    <2>1. lease.state = "none"
      BY <1>6 DEF Mark, Inside, Stands, CollectorsInside, Procs
    <2>2. marker' = TRUE /\ UNCHANGED <<log, acked, lease>>  BY <1>6 DEF Mark
    <2>3. Lessee = Log!Nobody /\ Lessee' = Lessee  BY <2>1, <2>2 DEF Lessee, Log!Nobody
    <2> QED  BY <2>2, <2>3 DEF Log!End
  <1>7. ASSUME NEW g \in Collectors, Rename(g)  PROVE Log!Delete
    <2>1. marker  BY <1>7 DEF Rename, Inside, Stands, CollectorsInside, Procs
    <2>2. log' = <<>> /\ UNCHANGED <<acked, lease, marker>>  BY <1>7 DEF Rename
    <2>3. Lessee' = Lessee  BY <2>2 DEF Lessee
    <2> QED  BY <2>1, <2>2, <2>3 DEF Log!Delete
  <1>8. Quiet => [Log!Next]_(Log!vars)  BY QuietIsStutterOrLoss DEF Log!Next
  <1> HIDE DEF Quiet
  <1>9. CASE \E p \in Writers : \/ Open(p) \/ TakeOver(p)
                                \/ Replay(p) \/ AcquireLease(p) \/ WriteHeader(p) \/ GiveUp(p)
                                \/ HeaderFails(p) \/ AppendFails(p) \/ ReleaseLease(p)
                                \/ Mine(p) /\ Appends(p)
    BY <1>1, <1>8, <1>9, AcquireIsGrant, HeaderIsWrite, AppendIsWrite DEF Log!Next
  <1>10. CASE \E g \in Collectors : Collect(g) \/ UnlinkLease(g) \/ Mark(g) \/ Rename(g)
                                    \/ CollectFails(g) \/ DeleteTrash(g)
    BY <1>2, <1>6, <1>7, <1>8, <1>10 DEF Log!Next
  <1>11. CASE \E p \in Writers : \/ KillInHeader(p) \/ KillInLease(p)
                                 \/ Mine(p) /\ Dies(p) /\ UNCHANGED <<file, lease>>
                                    /\ \/ torn' = TRUE /\ UNCHANGED log
                                       \/ Written(LineOf(handle[p], "other", 0))
    BY <1>1, <1>4, <1>8, <1>11, LateKillIsWrite DEF Log!Next
  <1> QED  BY <1>3, <1>5, <1>8, <1>9, <1>10, <1>11, Steps

(* The control log of a run, with its writers, takeovers, kills and its    *)
(* collection, is a log with a fenced lease (run-control-wal.ts and        *)
(* run-gc.ts).                                                             *)
THEOREM ImplementsFencedLog ==
  ASSUME FailedAppendsLeaveNothing
  PROVE  Spec => IsFencedLog
  <1>1. Init => Log!Init
    BY DEF Init, NoLease, Lessee, Log!Init, Log!Nobody
  <1>2. IInv /\ Stands /\ [Next]_vars => [Log!Next]_(Log!vars)  BY NextIsFenced
  <1> QED
    BY <1>1, <1>2, Invariance, AlwaysStands, PTL DEF Spec, IsFencedLog, Log!Spec
=============================================================================
