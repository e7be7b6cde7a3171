---------------------------- MODULE ControlProofs ----------------------------
(***************************************************************************)
(* The control thread's grid and statistics, and the life of its node.     *)
(*                                                                         *)
(* For every number of fields, every width of the sequence counter and     *)
(* every record of delays: the sequence lock makes record() and snapshot() *)
(* atomic, the loop keeps to its grid, and every report describes its      *)
(* window.  For every set of components: when main() returns the hardware  *)
(* is out of service, whatever ended the node.                             *)
(***************************************************************************)
EXTENDS ControlLoop, ControlNode, FiniteSetTheorems, TLAPS

-----------------------------------------------------------------------------
(***************************************************************************)
(* The sequence lock.                                                      *)
(***************************************************************************)
LEMMA WrapParity ==
  ASSUME NEW n \in 0 .. SeqValues - 1
  PROVE  /\ Wrap(n) \in 0 .. SeqValues - 1
         /\ Wrap(n) % 2 = 0 <=> n % 2 # 0
  BY SeqAssumption DEF Wrap

\* A store of seq flips its parity, and is counted by the pass that it meets.
LEMMA StoreCounts ==
  ASSUME TypeOK, StoresSeq
  PROVE  /\ seq' \in 0 .. SeqValues - 1
         /\ seq' % 2 = 0 <=> seq % 2 # 0
         /\ stores' \in 0 .. SeqValues - 1
         /\ reporter # "loading" => stores' = 0
         /\ reporter = "loading" =>
              /\ stores' # 0
              /\ (seq = IF before + stores < SeqValues THEN before + stores
                        ELSE before + stores - SeqValues)
                 => (seq' = IF before + stores' < SeqValues THEN before + stores'
                            ELSE before + stores' - SeqValues)
<1>1. seq \in 0 .. SeqValues - 1 /\ before \in 0 .. SeqValues - 1
      /\ stores \in 0 .. SeqValues - 1
  BY DEF TypeOK
<1>2. seq' = Wrap(seq) /\ stores' < SeqValues
  BY DEF StoresSeq
<1>3. stores' = IF reporter = "loading" THEN stores + 1 ELSE 0
  BY DEF StoresSeq
<1> QED
  BY <1>1, <1>2, <1>3, WrapParity, SeqAssumption DEF Wrap

\* StatsInv is inductive.
LEMMA StatsInductive == StatsInv /\ [Next]_vars => StatsInv'
<1> SUFFICES ASSUME StatsInv, [Next]_vars
             PROVE  StatsInv'
  OBVIOUS
<1> USE DEF StatsInv
<1>1. ASSUME NEW s \in Samples, RecordBegins(s)
      PROVE  StatsInv'
  <2>1. TypeOK'
    BY <1>1, StoreCounts DEF TypeOK, RecordBegins, writer, reader
  <2>2. ParityInv'
    BY <1>1, StoreCounts DEF ParityInv, RecordBegins
  <2>3. StoredInv'
    BY <1>1 DEF StoredInv, RecordBegins
  <2>4. CopyInv'
    BY <1>1, StoreCounts DEF CopyInv, RecordBegins, reader
  <2> QED
    BY <2>1, <2>2, <2>3, <2>4
<1>2. CASE RecordFolds
  <2>1. TypeOK'
    BY <1>2 DEF TypeOK, Table, RecordFolds, Fold, reader
  <2>2. ParityInv' /\ StoredInv' /\ CopyInv'
    BY <1>2 DEF ParityInv, StoredInv, CopyInv, RecordFolds, reader
  <2> QED
    BY <2>1, <2>2
<1>3. ASSUME NEW f \in Fields, RecordStores(f)
      PROVE  StatsInv'
  <2>1. TypeOK' /\ ParityInv'
    BY <1>3 DEF TypeOK, Table, ParityInv, RecordStores, reader
  <2>2. StoredInv'
    BY <1>3 DEF TypeOK, Table, StoredInv, RecordStores
  <2>3. CopyInv'
    BY <1>3 DEF CopyInv, RecordStores, reader
  <2> QED
    BY <2>1, <2>2, <2>3
<1>4. CASE RecordEnds
  <2>1. TypeOK'
    BY <1>4, StoreCounts DEF TypeOK, RecordEnds, reader
  <2>2. ParityInv'
    BY <1>4, StoreCounts DEF ParityInv, RecordEnds
  <2>3. StoredInv'
    BY <1>4 DEF RecordEnds, StoredInv
  <2>4. CopyInv'
    BY <1>4, StoreCounts DEF CopyInv, RecordEnds, reader
  <2> QED
    BY <2>1, <2>2, <2>3, <2>4
<1>5. CASE SnapshotBegins
  <2>1. TypeOK' /\ ParityInv' /\ StoredInv'
    BY <1>5 DEF TypeOK, ParityInv, StoredInv, SnapshotBegins, writer
  <2>2. CopyInv'
    BY <1>5, SeqAssumption DEF TypeOK, ParityInv, CopyInv, SnapshotBegins, writer
  <2> QED
    BY <2>1, <2>2
<1>6. ASSUME NEW f \in Fields, SnapshotLoads(f)
      PROVE  StatsInv'
  <2>1. TypeOK' /\ ParityInv' /\ StoredInv'
    BY <1>6 DEF TypeOK, Table, ParityInv, StoredInv, SnapshotLoads, writer
  <2>2. CopyInv'
    BY <1>6 DEF TypeOK, Table, CopyInv, SnapshotLoads, writer
  <2> QED
    BY <2>1, <2>2
<1>7. CASE SnapshotEnds
  BY <1>7, SeqAssumption
     DEF TypeOK, Table, ParityInv, StoredInv, CopyInv, SnapshotEnds, PassEnds, writer, Zeros
<1>8. CASE Reports
  BY <1>8 DEF TypeOK, ParityInv, StoredInv, CopyInv, Reports, writer
<1>9. CASE UNCHANGED vars
  BY <1>9 DEF TypeOK, ParityInv, StoredInv, CopyInv, vars, writer, reader
<1> QED
  BY <1>1, <1>2, <1>3, <1>4, <1>5, <1>6, <1>7, <1>8, <1>9
     DEF Next, Reporter, RecordGoesOn, SnapshotLoads, RecordStores

LEMMA StatsInitially == Init => StatsInv
  BY SeqAssumption DEF Init, StatsInv, TypeOK, ParityInv, StoredInv, CopyInv, Table, Zeros

\* Whatever is recorded, an unchanged even sequence number means an untorn copy.
THEOREM StatsInvariant == Spec => []StatsInv
  BY StatsInitially, StatsInductive, PTL DEF Spec

\* The copy that snapshot() accepts is what the fields are.
LEMMA AcceptedCopy ==
  ASSUME StatsInv, reporter = "loading", loaded = Fields, seq = before
  PROVE  loop = "idle" /\ got = data
<1>1. stores = 0
  BY SeqAssumption DEF StatsInv, TypeOK, CopyInv
<1>2. loop = "idle" /\ \A f \in Fields : got[f] = data[f]
  BY <1>1 DEF StatsInv, CopyInv
<1>3. Table(got) /\ Table(data)
  BY DEF StatsInv, TypeOK
<1> QED
  BY <1>2, <1>3, Zenon DEF Table

\* When record() ends the fields are what it meant to store.
LEMMA StoredRecord ==
  ASSUME StatsInv, loop = "storing", left = {}
  PROVE  data = fresh
<1>1. \A f \in Fields : data[f] = fresh[f]
  BY DEF StatsInv, StoredInv
<1>2. Table(data) /\ Table(fresh)
  BY DEF StatsInv, TypeOK
<1> QED
  BY <1>1, <1>2, Zenon DEF Table

\* Both modules mean the same by a record.
LEMMA SameFold ==
  ASSUME NEW table, NEW requested, NEW seen, NEW s
  PROVE  Atomic!Fold(table, requested, seen, s) = Fold(table, requested, seen, s)
  BY Zenon DEF Fold, NewWindow, Counters, Increment, Start, Tighten, Lower, Higher, NsToUsRounded,
         Atomic!Fold, Atomic!NewWindow, Atomic!Counters, Atomic!Increment, Atomic!Start,
         Atomic!Tighten, Atomic!Lower, Atomic!Higher, Atomic!NsToUsRounded

LEMMA StepRefines == StatsInv /\ [Next]_vars => [Atomic!Next]_(Atomic!vars)
<1> SUFFICES ASSUME StatsInv, [Next]_vars
             PROVE  Atomic!Next \/ UNCHANGED Atomic!vars
  OBVIOUS
<1>1. ASSUME NEW s \in Samples, RecordBegins(s)
      PROVE  UNCHANGED Atomic!vars
  BY <1>1 DEF Atomic!vars, RecordBegins, reader
<1>2. CASE RecordFolds
  <2>1. sample \in Samples
    BY <1>2 DEF RecordFolds, StatsInv, TypeOK
  <2>2. Atomic!Record(sample)
    BY <1>2, SameFold DEF RecordFolds, Atomic!Record, reader
  <2> QED
    BY <2>1, <2>2 DEF Atomic!Next
<1>3. ASSUME NEW f \in Fields, RecordStores(f)
      PROVE  UNCHANGED Atomic!vars
  BY <1>3 DEF Atomic!vars, RecordStores, reader
<1>4. CASE RecordEnds
  BY <1>4, StoredRecord DEF Atomic!vars, RecordEnds, reader
<1>5. CASE SnapshotBegins
  BY <1>5 DEF Atomic!vars, SnapshotBegins, writer
<1>6. ASSUME NEW f \in Fields, SnapshotLoads(f)
      PROVE  UNCHANGED Atomic!vars
  BY <1>6 DEF Atomic!vars, SnapshotLoads, writer
<1>7. CASE SnapshotEnds
  <2>1. CASE seq = before
    <3>1. loop = "idle" /\ got = data
      BY <1>7, <2>1, AcceptedCopy DEF SnapshotEnds
    <3>2. Atomic!Snapshot
      BY <1>7, <2>1, <3>1 DEF SnapshotEnds, PassEnds, Atomic!Snapshot, writer
    <3> QED
      BY <3>2 DEF Atomic!Next
  <2>2. CASE seq # before
    BY <1>7, <2>2 DEF SnapshotEnds, PassEnds, Atomic!vars, writer
  <2> QED
    BY <2>1, <2>2
<1>8. CASE Reports
  <2>1. Atomic!ResetWindow
    BY <1>8 DEF Reports, Atomic!ResetWindow, writer
  <2> QED
    BY <2>1 DEF Atomic!Next
<1>9. CASE UNCHANGED vars
  BY <1>9 DEF vars, writer, reader, Atomic!vars
<1> QED
  BY <1>1, <1>2, <1>3, <1>4, <1>5, <1>6, <1>7, <1>8, <1>9
     DEF Next, Reporter, RecordGoesOn, SnapshotLoads, RecordStores

\* PeriodStats implements AtomicStats: to the loop and to the reporter record() and
\* snapshot() look as if each took place at once.
THEOREM Refinement == Spec => RefinesAtomic
<1>1. Init => Atomic!Init
  BY DEF Init, Atomic!Init, Zeros, Atomic!Zeros
<1>2. StatsInv /\ [Next]_vars => [Atomic!Next]_(Atomic!vars)
  BY StepRefines
<1> QED
  BY <1>1, <1>2, StatsInvariant, PTL DEF Spec, RefinesAtomic, Atomic!Spec

-----------------------------------------------------------------------------
(***************************************************************************)
(* The arithmetic of the grid.                                             *)
(***************************************************************************)
LEMMA Division ==
  ASSUME NEW a \in Int, NEW d \in Nat \ {0}
  PROVE  \E q \in Int, r \in 0 .. d - 1 :
           /\ a \div d = q /\ a % d = r
           /\ a = q * d + r
           /\ a >= 0 => q >= 0
<1> DEFINE q == a \div d
           r == a % d
<1>1. q \in Int /\ r \in 0 .. d - 1 /\ q = a \div d /\ r = a % d /\ (a >= 0 => q >= 0)
  OBVIOUS
<1> HIDE DEF q, r
<1>2. a = q * d + r
  BY <1>1, Z3
<1> QED
  BY <1>1, <1>2

LEMMA Multiple ==
  ASSUME NEW k \in Int, NEW d \in Nat \ {0}
  PROVE  (k * d) % d = 0
<1>1. k * d \in Int
  OBVIOUS
<1>2. PICK q \in Int, r \in 0 .. d - 1 : (k * d) % d = r /\ k * d = q * d + r
  BY <1>1, Division, Zenon
<1>3. (k - q) * d = r
  BY <1>2
<1>4. ~ (k - q >= 1)
  <2>1. k - q >= 1 => (k - q) * d >= d
    OBVIOUS
  <2> QED
    BY <1>3, <2>1
<1>5. ~ (k - q <= -1)
  <2>1. k - q <= -1 => (k - q) * d <= -d
    OBVIOUS
  <2> QED
    BY <1>3, <2>1
<1> QED
  BY <1>2, <1>3, <1>4, <1>5

LEMMA NextMultiple ==
  ASSUME NEW a \in Int, NEW d \in Nat \ {0}, a % d = 0
  PROVE  (a + d) % d = 0
<1>1. PICK q \in Int, r \in 0 .. d - 1 : a % d = r /\ a = q * d + r
  BY Division
<1>2. a + d = (q + 1) * d
  BY <1>1
<1>3. q + 1 \in Int
  OBVIOUS
<1> QED
  BY <1>2, <1>3, Multiple

LEMMA FromNsCorrect ==
  ASSUME NEW n \in Nat
  PROVE  FromNs(n) \in Timespec /\ ToNs(FromNs(n)) = n
  BY Division, UnitsAssumption DEF FromNs, ToNs, Timespec

LEMMA ToNsTyped ==
  ASSUME NEW t \in Timespec
  PROVE  ToNs(t) \in Int
  BY UnitsAssumption DEF ToNs, Timespec

LEMMA DiffNsCorrect ==
  ASSUME NEW a \in Timespec, NEW b \in Timespec
  PROVE  DiffNs(a, b) = ToNs(a) - ToNs(b)
  BY UnitsAssumption DEF DiffNs, ToNs, Timespec

LEMMA AddNsCorrect ==
  ASSUME NEW t \in Timespec, NEW ns \in Nat
  PROVE  AddNs(t, ns) \in Timespec /\ ToNs(AddNs(t, ns)) = ToNs(t) + ns
<1> DEFINE total == t.nsec + ns
<1>1. t.sec \in Int /\ t.nsec \in Nat /\ total \in Nat
  BY UnitsAssumption DEF Timespec
<1>2. PICK q \in Int, r \in 0 .. NsPerSec - 1 : total \div NsPerSec = q /\ total = q * NsPerSec + r
  <2>1. total \in Int
    BY <1>1
  <2> QED
    BY <2>1, Division, UnitsAssumption, Zenon
<1>3. total - q * NsPerSec = r
  BY <1>1, <1>2, UnitsAssumption
<1>4. AddNs(t, ns) = [sec |-> t.sec + q, nsec |-> r]
  BY <1>1, <1>2, <1>3, UnitsAssumption DEF AddNs, TruncDiv
<1>5. AddNs(t, ns) \in Timespec
  BY <1>1, <1>2, <1>4 DEF Timespec
<1>6. (t.sec + q) * NsPerSec + r = t.sec * NsPerSec + total
  BY <1>1, <1>2, UnitsAssumption
<1> QED
  BY <1>1, <1>4, <1>5, <1>6, UnitsAssumption DEF ToNs

\* The grid is resynchronised to a multiple of the period that is not in the past.
LEMMA ResyncCorrect ==
  ASSUME NEW now \in Timespec, ToNs(now) >= 0
  PROVE  /\ ResyncToGrid(now) \in Timespec
         /\ ToNs(ResyncToGrid(now)) >= ToNs(now)
         /\ ToNs(ResyncToGrid(now)) % Period = 0
<1> DEFINE earliest == ToNs(now) + Period \div 2
           sum == earliest + Period - 1
<1>1. earliest \in Nat /\ earliest >= ToNs(now) /\ sum \in Int
  BY ToNsTyped, PeriodAssumption
<1>2. ResyncToGrid(now) = FromNs((sum \div Period) * Period)
  BY DEF ResyncToGrid
<1> HIDE DEF sum
<1>3. PICK q \in Int, r \in 0 .. Period - 1 :
        sum \div Period = q /\ sum = q * Period + r
  BY <1>1, Division, PeriodAssumption, Zenon
<1>4. q * Period >= earliest /\ q * Period \in Nat
  BY <1>1, <1>3, PeriodAssumption DEF sum
<1>5. (q * Period) % Period = 0
  BY Multiple, PeriodAssumption
<1>6. ResyncToGrid(now) = FromNs(q * Period)
  BY <1>2, <1>3
<1> HIDE DEF earliest
<1> QED
  BY <1>1, <1>4, <1>5, <1>6, FromNsCorrect, ToNsTyped

-----------------------------------------------------------------------------
(***************************************************************************)
(* The loop keeps its grid.                                                *)
(***************************************************************************)
LEMMA PacedInitially == LoopInit => PacedInv
<1> SUFFICES ASSUME LoopInit
             PROVE  PacedInv
  OBVIOUS
<1>1. previousWake \in Timespec /\ ToNs(previousWake) = StartTime /\ StartTime \in Nat
  BY LoopAssumption, FromNsCorrect DEF LoopInit
<1>2. deadline = ResyncToGrid(previousWake)
  BY DEF LoopInit
<1>3. deadline \in Timespec /\ ToNs(deadline) >= StartTime /\ ToNs(deadline) % Period = 0
  BY <1>1, <1>2, ResyncCorrect
<1>4. wakes = << StartTime >> /\ wakes \in Seq(Nat) /\ Len(wakes) = 1 /\ wakes[1] = StartTime
  BY <1>1 DEF LoopInit
<1>5. TimesOK
  BY <1>1, <1>3, <1>4 DEF TimesOK
<1>6. Ahead
  <2>1. ToNs(deadline) >= StartTime + (1 - 1) * Period
    BY <1>1, <1>3, ToNsTyped, PeriodAssumption
  <2> QED
    BY <1>4, <2>1 DEF Ahead
<1>7. Paced
  BY <1>3, <1>4 DEF Paced, OnGrid, Spaced
<1> QED
  BY <1>5, <1>6, <1>7 DEF PacedInv

\* The next deadline is on the grid, a period or more later, and not before the wake-up.
LEMMA NextDeadlineCorrect ==
  ASSUME NEW d \in Timespec, NEW now \in Timespec, ToNs(now) >= 0, ToNs(d) % Period = 0
  PROVE  /\ NextDeadline(d, now) \in Timespec
         /\ ToNs(NextDeadline(d, now)) >= ToNs(d) + Period
         /\ ToNs(NextDeadline(d, now)) >= ToNs(now)
         /\ ToNs(NextDeadline(d, now)) % Period = 0
<1>1. /\ ToNs(d) \in Int /\ ToNs(now) \in Int /\ Period \in Nat \ {0}
      /\ DiffNs(now, d) = ToNs(now) - ToNs(d)
  BY ToNsTyped, DiffNsCorrect, PeriodAssumption
<1>2. CASE Verdict(DiffNs(now, d)) = "Overrun"
  <2>1. NextDeadline(d, now) = ResyncToGrid(now)
    BY <1>2 DEF NextDeadline
  <2>2. ToNs(now) >= ToNs(d) + Period
    BY <1>1, <1>2 DEF Verdict
  <2>3. ToNs(ResyncToGrid(now)) \in Int
    BY ResyncCorrect, ToNsTyped
  <2> QED
    BY <1>1, <2>1, <2>2, <2>3, ResyncCorrect
<1>3. CASE Verdict(DiffNs(now, d)) # "Overrun"
  <2>1. NextDeadline(d, now) = AddNs(d, Period)
    BY <1>3 DEF NextDeadline
  <2>2. ToNs(now) < ToNs(d) + Period
    BY <1>1, <1>3 DEF Verdict
  <2>3. AddNs(d, Period) \in Timespec /\ ToNs(AddNs(d, Period)) = ToNs(d) + Period
    BY <1>1, AddNsCorrect
  <2>4. (ToNs(d) + Period) % Period = 0
    BY <1>1, NextMultiple
  <2> QED
    BY <1>1, <2>1, <2>2, <2>3, <2>4
<1> QED
  BY <1>2, <1>3

LEMMA WakePaced ==
  ASSUME PacedInv, NEW t \in WakeTimes, Wakes(FromNs(t))
  PROVE  PacedInv'
<1> DEFINE n == Len(wakes)
           D == ToNs(deadline)
<1>1. /\ deadline \in Timespec /\ previousWake \in Timespec
      /\ wakes \in Seq(Nat) /\ n \in Nat \ {0} /\ wakes[n] = ToNs(previousWake)
      /\ wakes[n] \in Nat /\ \A i \in 1 .. n : wakes[i] \in Nat
  BY DEF PacedInv, TimesOK
<1>2. D \in Int /\ Period \in Nat \ {0} /\ Slew \in Nat
  BY <1>1, ToNsTyped, PeriodAssumption, LoopAssumption
<1>3. t \in Nat /\ t >= D - Slew
  BY <1>1, <1>2, LoopAssumption DEF WakeTimes, Higher
<1>4. FromNs(t) \in Timespec /\ ToNs(FromNs(t)) = t
  BY <1>3, FromNsCorrect
<1>5. /\ deadline' = NextDeadline(deadline, FromNs(t)) /\ previousWake' = FromNs(t)
      /\ wakes' = Append(wakes, t)
  BY <1>4 DEF Wakes
<1>6. /\ deadline' \in Timespec /\ ToNs(deadline)' >= D + Period /\ ToNs(deadline)' >= t
      /\ ToNs(deadline)' % Period = 0 /\ ToNs(deadline)' \in Int
  <2>1. D % Period = 0
    BY DEF PacedInv, Paced, OnGrid
  <2>2. ToNs(deadline)' = ToNs(deadline')
    BY DEF ToNs
  <2> QED
    BY <1>1, <1>3, <1>4, <1>5, <2>1, <2>2, NextDeadlineCorrect, ToNsTyped
<1>7. /\ wakes' \in Seq(Nat) /\ Len(wakes') = n + 1 /\ wakes'[n + 1] = t
      /\ \A i \in 1 .. n : wakes'[i] = wakes[i]
  BY <1>1, <1>3, <1>5
<1>8. TimesOK'
  <2>1. ToNs(previousWake)' = t
    BY <1>4, <1>5 DEF ToNs
  <2> QED
    BY <1>1, <1>4, <1>5, <1>6, <1>7, <2>1 DEF TimesOK
<1>9. \A i \in 1 .. n : D >= wakes[i] + (n - i) * Period
  BY DEF PacedInv, Ahead
<1>10. Ahead'
  <2> SUFFICES ASSUME NEW i \in 1 .. n + 1
               PROVE  ToNs(deadline)' >= wakes'[i] + (n + 1 - i) * Period
    BY <1>7 DEF Ahead
  <2>1. CASE i = n + 1
    BY <1>1, <1>2, <1>3, <1>6, <1>7, <2>1
  <2>2. CASE i \in 1 .. n
    <3>1. D >= wakes[i] + (n - i) * Period /\ wakes[i] \in Nat
      BY <1>1, <1>9, <2>2
    <3>2. (n + 1 - i) * Period = (n - i) * Period + Period /\ (n - i) * Period \in Int
      BY <1>1, <1>2
    <3> QED
      BY <1>2, <1>6, <1>7, <2>2, <3>1, <3>2
  <2> QED
    BY <1>1, <2>1, <2>2
<1>11. Paced'
  <2>1. Spaced'
    <3> SUFFICES ASSUME NEW i \in 1 .. n + 1, NEW j \in 1 .. n + 1, i < j
                 PROVE  wakes'[j] - wakes'[i] >= (j - i - 1) * Period - Slew
      BY <1>7 DEF Spaced
    <3>1. CASE j \in 1 .. n
      <4>1. i \in 1 .. n
        BY <1>1, <3>1
      <4>2. wakes[j] - wakes[i] >= (j - i - 1) * Period - Slew
        BY <3>1, <4>1 DEF PacedInv, Paced, Spaced
      <4> QED
        BY <1>7, <3>1, <4>1, <4>2
    <3>2. CASE j = n + 1
      <4>1. i \in 1 .. n /\ wakes[i] \in Nat
        BY <1>1, <3>2
      <4>2. t - wakes[i] >= (n - i) * Period - Slew
        BY <1>1, <1>2, <1>3, <1>9, <4>1
      <4> QED
        BY <1>7, <3>2, <4>1, <4>2
    <3>3. j \in 1 .. n \/ j = n + 1
      BY <1>1
    <3> QED
      BY <3>1, <3>2, <3>3
  <2> QED
    BY <1>6, <2>1 DEF Paced, OnGrid
<1> QED
  BY <1>8, <1>10, <1>11 DEF PacedInv

LEMMA PacedInductive == PacedInv /\ [LoopNext]_loopVars => PacedInv'
<1> SUFFICES ASSUME PacedInv, [LoopNext]_loopVars
             PROVE  PacedInv'
  OBVIOUS
<1>1. ASSUME NEW t \in WakeTimes, Wakes(FromNs(t))
      PROVE  PacedInv'
  BY <1>1, WakePaced
<1>2. CASE UNCHANGED time
  BY <1>2 DEF time, PacedInv, TimesOK, Ahead, Paced, OnGrid, Spaced, ToNs
<1> QED
  BY <1>1, <1>2 DEF LoopNext, loopVars, time

\* PacedInv as a theorem: the deadline is ahead of every wake-up.
THEOREM PacedInvariant == LoopSpec => []PacedInv
  BY PacedInitially, PacedInductive, PTL DEF LoopSpec

\* Whatever the delays, the loop stays on its grid and drops what it missed.
THEOREM LoopPaced == LoopSpec => []Paced
<1>1. PacedInv => Paced
  BY DEF PacedInv
<1> QED
  BY <1>1, PacedInvariant, PTL

\* The loop records and is reported on in the ways of PeriodStats, so that what holds of
\* these holds of it.
LEMMA LoopIsSpec == LoopSpec => Spec
<1>1. LoopInit => Init
  BY DEF LoopInit
<1>2. [LoopNext]_loopVars => [Next]_vars
  BY DEF LoopNext, Wakes, Next, loopVars
<1> QED
  BY <1>1, <1>2, PTL DEF LoopSpec, Spec

\* The two threads of the control node see the statistics as one object.
THEOREM LoopRefines == LoopSpec => []StatsInv /\ RefinesAtomic
  BY LoopIsSpec, StatsInvariant, Refinement, PTL

-----------------------------------------------------------------------------
(***************************************************************************)
(* A report describes one window.                                          *)
(***************************************************************************)
\* Rounding to microseconds is off by half a microsecond at most.
LEMMA RoundingCorrect ==
  ASSUME NEW p \in Int
  PROVE  /\ NsToUsRounded(p) \in Int
         /\ 2 * (NsToUsRounded(p) * NsPerUs - p) <= NsPerUs
         /\ 2 * (p - NsToUsRounded(p) * NsPerUs) <= NsPerUs
<1> DEFINE half == NsPerUs \div 2
<1>1. NsPerUs \in Nat \ {0} /\ half \in Nat /\ (NsPerUs = 2 * half \/ NsPerUs = 2 * half + 1)
  BY UnitsAssumption
<1> HIDE DEF half
<1>2. ASSUME NEW n \in Nat
      PROVE  /\ (n + half) \div NsPerUs \in Int
             /\ 2 * (((n + half) \div NsPerUs) * NsPerUs - n) <= NsPerUs
             /\ 2 * (n - ((n + half) \div NsPerUs) * NsPerUs) <= NsPerUs
  <2>1. n + half \in Int
    BY <1>1
  <2>2. PICK q \in Int, r \in 0 .. NsPerUs - 1 :
          (n + half) \div NsPerUs = q /\ n + half = q * NsPerUs + r
    BY <1>1, <2>1, Division, Zenon
  <2>3. q * NsPerUs \in Int /\ q * NsPerUs - n = half - r
    BY <1>1, <2>2
  <2> QED
    BY <1>1, <2>2, <2>3
<1>3. CASE p >= 0
  BY <1>2, <1>3 DEF NsToUsRounded, half
<1>4. CASE p < 0
  <2>1. -p \in Nat
    BY <1>4
  <2>2. PICK m \in Int : m = (-p + half) \div NsPerUs
    BY <1>2, <2>1
  <2>3. 2 * (m * NsPerUs + p) <= NsPerUs /\ 2 * (-p - m * NsPerUs) <= NsPerUs
    BY <1>1, <1>2, <2>1, <2>2
  <2>4. NsToUsRounded(p) = -m
    BY <1>4, <2>2 DEF NsToUsRounded, half
  <2>5. (-m) * NsPerUs = -(m * NsPerUs) /\ m * NsPerUs \in Int
    BY <1>1
  <2> QED
    BY <1>1, <2>3, <2>4, <2>5
<1> QED
  BY <1>3, <1>4

\* What a cycle does to the fields that a report is about.
LEMMA FoldAdds ==
  ASSUME NEW t, Table(t), NEW requested, NEW seen, NEW s
  PROVE  /\ Table(Fold(t, requested, seen, s))
         /\ Fold(t, requested, seen, s)["count"] = t["count"] + 1
         /\ Fold(t, requested, seen, s)["sum"] = t["sum"] + NsToUsRounded(s.period)
         /\ Fold(t, requested, seen, s)["window"] =
              IF NewWindow(t, requested, seen) THEN requested ELSE t["window"]
         /\ Fold(t, requested, seen, s)["max"] =
              IF NewWindow(t, requested, seen) THEN s.period ELSE Higher(t["max"], s.period)
<1>1. DOMAIN t = Fields
  BY DEF Table
<1> QED
  BY <1>1, FieldsAssumption DEF Table, Fold, Counters, Increment, Start, Tighten

LEMMA FoldsTyped ==
  ASSUME TimesOK, TallyInv
  PROVE  /\ Len(wakes) \in Nat \ {0} /\ Folds \in 0 .. Len(wakes) - 1
         /\ loop = "begun" => Folds = Len(wakes) - 2
         /\ loop # "begun" => Folds = Len(wakes) - 1
         /\ \A i \in 1 .. Len(wakes) : wakes[i] \in Nat
<1>1. Len(wakes) \in Nat \ {0} /\ \A i \in 1 .. Len(wakes) : wakes[i] \in Nat
  BY DEF TimesOK
<1>2. loop = "begun" => Folds >= 0
  BY DEF TallyInv
<1> QED
  BY <1>1, <1>2 DEF Folds

\* One more cycle leaves a sum close to the time that passed.
LEMMA CloseAdds ==
  ASSUME TimesOK, NEW x, NEW y, NEW z, Close(x, y),
         {x["count"], y["count"], x["sum"], y["sum"]} \subseteq Int,
         x["count"] >= 0, y["count"] >= 0, y["count"] + 2 <= Len(wakes),
         z["count"] = y["count"] + 1,
         z["sum"] = y["sum"] + NsToUsRounded(Gap(y["count"] + 1))
  PROVE  Close(x, z)
<1> DEFINE p == Gap(y["count"] + 1)
           m == NsToUsRounded(p)
           a == wakes[x["count"] + 1]
           b == wakes[y["count"] + 1]
           c == wakes[z["count"] + 1]
           d == y["sum"] - x["sum"]
           k == y["count"] - x["count"]
<1>1. k >= 0 /\ 2 * (d * NsPerUs - (b - a)) <= k * NsPerUs
             /\ -2 * (d * NsPerUs - (b - a)) <= k * NsPerUs
  BY DEF Close
<1>2. a \in Int /\ b \in Int /\ c \in Int /\ p = c - b
  <2>0. k >= 0
    BY <1>1
  <2>1. \A i \in 1 .. Len(wakes) : wakes[i] \in Int
    BY DEF TimesOK
  <2>2. /\ x["count"] + 1 \in 1 .. Len(wakes) /\ y["count"] + 1 \in 1 .. Len(wakes)
        /\ z["count"] + 1 \in 1 .. Len(wakes) /\ z["count"] = y["count"] + 1
    <3>1. Len(wakes) \in Nat /\ x["count"] \in Int /\ y["count"] \in Int
      BY DEF TimesOK
    <3> HIDE DEF p, m, a, b, c, d
    <3> QED
      BY <2>0, <3>1
  <2>3. p = c - b
    BY <2>2 DEF Gap
  <2> HIDE DEF p
  <2> QED
    BY <2>1, <2>2, <2>3
<1>3. /\ NsPerUs \in Nat /\ d \in Int /\ k \in Nat
      /\ z["sum"] - x["sum"] = d + m /\ z["count"] - x["count"] = k + 1 /\ m \in Int
      /\ 2 * (m * NsPerUs - p) <= NsPerUs /\ 2 * (p - m * NsPerUs) <= NsPerUs
  <2>1. p \in Int
    BY <1>2
  <2>2. /\ m \in Int
        /\ 2 * (m * NsPerUs - p) <= NsPerUs /\ 2 * (p - m * NsPerUs) <= NsPerUs
    BY <2>1, RoundingCorrect
  <2> HIDE DEF m
  <2>3. z["sum"] = y["sum"] + m
    BY DEF m
  <2>4. d \in Int /\ k \in Nat /\ z["count"] - x["count"] = k + 1
    <3>1. k >= 0
      BY <1>1
    <3> HIDE DEF p, a, b, c
    <3> QED
      BY <3>1
  <2>5. z["sum"] - x["sum"] = d + m
    BY <2>2, <2>3
  <2> QED
    BY <2>2, <2>4, <2>5, UnitsAssumption
<1> HIDE DEF p, m, a, b, c, d, k
<1>4. /\ (d + m) * NsPerUs = d * NsPerUs + m * NsPerUs /\ (k + 1) * NsPerUs = k * NsPerUs + NsPerUs
      /\ d * NsPerUs \in Int /\ m * NsPerUs \in Int /\ k * NsPerUs \in Int
  BY <1>3
<1>5. /\ 2 * ((d + m) * NsPerUs - (c - a)) <= (k + 1) * NsPerUs
      /\ -2 * ((d + m) * NsPerUs - (c - a)) <= (k + 1) * NsPerUs
  BY <1>1, <1>2, <1>3, <1>4
<1>6. k + 1 >= 0
  BY <1>3
<1>7. /\ z["count"] - x["count"] >= 0
      /\ 2 * ((z["sum"] - x["sum"]) * NsPerUs - (wakes[z["count"] + 1] - wakes[x["count"] + 1]))
           <= (z["count"] - x["count"]) * NsPerUs
      /\ -2 * ((z["sum"] - x["sum"]) * NsPerUs - (wakes[z["count"] + 1] - wakes[x["count"] + 1]))
           <= (z["count"] - x["count"]) * NsPerUs
  BY <1>3, <1>5, <1>6, Zenon DEF a, c
<1> QED
  BY <1>7, Zenon DEF Close

LEMMA CloseTransitive ==
  ASSUME NEW x, NEW y, NEW z, Close(x, y), Close(y, z), TimesOK,
         \A t \in {x, y, z} : t["count"] \in 0 .. Len(wakes) - 1 /\ t["sum"] \in Int
  PROVE  Close(x, z)
<1> DEFINE a == wakes[x["count"] + 1]
           b == wakes[y["count"] + 1]
           c == wakes[z["count"] + 1]
           d == y["sum"] - x["sum"]
           e == z["sum"] - y["sum"]
           k == y["count"] - x["count"]
           l == z["count"] - y["count"]
<1>1. /\ k >= 0 /\ l >= 0
      /\ 2 * (d * NsPerUs - (b - a)) <= k * NsPerUs /\ -2 * (d * NsPerUs - (b - a)) <= k * NsPerUs
      /\ 2 * (e * NsPerUs - (c - b)) <= l * NsPerUs /\ -2 * (e * NsPerUs - (c - b)) <= l * NsPerUs
  BY DEF Close
<1>2. a \in Int /\ b \in Int /\ c \in Int
  <2>1. Len(wakes) \in Nat /\ \A i \in 1 .. Len(wakes) : wakes[i] \in Int
    BY DEF TimesOK
  <2> QED
    BY <2>1
<1>3. /\ d \in Int /\ e \in Int /\ k \in Int /\ l \in Int /\ NsPerUs \in Nat
      /\ z["sum"] - x["sum"] = d + e /\ z["count"] - x["count"] = k + l
  <2>1. Len(wakes) \in Nat
    BY DEF TimesOK
  <2> QED
    BY <2>1, UnitsAssumption
<1> HIDE DEF a, b, c, d, e, k, l
<1>4. /\ (d + e) * NsPerUs = d * NsPerUs + e * NsPerUs /\ (k + l) * NsPerUs = k * NsPerUs + l * NsPerUs
      /\ d * NsPerUs \in Int /\ e * NsPerUs \in Int /\ k * NsPerUs \in Int /\ l * NsPerUs \in Int
  BY <1>3
<1>5. /\ k + l >= 0
      /\ 2 * ((d + e) * NsPerUs - (c - a)) <= (k + l) * NsPerUs
      /\ -2 * ((d + e) * NsPerUs - (c - a)) <= (k + l) * NsPerUs
  BY <1>1, <1>2, <1>3, <1>4
<1>6. /\ z["count"] - x["count"] >= 0
      /\ 2 * ((z["sum"] - x["sum"]) * NsPerUs - (wakes[z["count"] + 1] - wakes[x["count"] + 1]))
           <= (z["count"] - x["count"]) * NsPerUs
      /\ -2 * ((z["sum"] - x["sum"]) * NsPerUs - (wakes[z["count"] + 1] - wakes[x["count"] + 1]))
           <= (z["count"] - x["count"]) * NsPerUs
  BY <1>3, <1>5, Zenon DEF a, c
<1> QED
  BY <1>6, Zenon DEF Close

LEMMA CloseReflexive ==
  ASSUME NEW x, x["count"] \in 0 .. Len(wakes) - 1, x["sum"] \in Int, TimesOK
  PROVE  Close(x, x)
<1>1. Len(wakes) \in Nat /\ wakes[x["count"] + 1] \in Int
  BY DEF TimesOK
<1>2. /\ x["sum"] - x["sum"] = 0 /\ wakes[x["count"] + 1] - wakes[x["count"] + 1] = 0
      /\ x["count"] - x["count"] = 0
  BY <1>1
<1> QED
  BY <1>2, UnitsAssumption DEF Close

LEMMA ReportInitially == LoopInit => ReportInv
<1> SUFFICES ASSUME LoopInit
             PROVE  ReportInv
  OBVIOUS
<1>1. /\ wakes = << StartTime >> /\ cut = 0 /\ request = 0 /\ expected = 0 /\ windowSeen = 0
      /\ loop = "idle" /\ reporter = "idle"
      /\ data = Zeros /\ current = Zeros /\ previous = Zeros
  BY DEF LoopInit, Init
<1>2. Folds = 0 /\ Folded = Zeros /\ StartTime \in Nat
  BY <1>1, LoopAssumption DEF Folds, Folded
<1>3. /\ Zeros["count"] = 0 /\ Zeros["sum"] = 0 /\ Zeros["max"] = 0 /\ Zeros["window"] = 0
      /\ Table(Zeros)
  BY FieldsAssumption DEF Zeros, Table
<1>4. TallyInv
  BY <1>1, <1>2, <1>3 DEF TallyInv
<1>5. SumInv
  BY <1>1, <1>2, <1>3, UnitsAssumption DEF SumInv, Close
<1>6. WindowInv
  BY <1>1, <1>2, <1>3 DEF WindowInv, Applied
<1> QED
  BY <1>4, <1>5, <1>6 DEF ReportInv

\* A step that neither folds nor takes nor asks for anything.
LEMMA QuietKeeps ==
  ASSUME ReportInv, Folds' = Folds,
         UNCHANGED << wakes, Folded, windowSeen, request, cut, previous, current, expected >>,
         loop' = "begun" => loop = "begun" /\ sample' = sample,
         reporter' = "taken" => reporter = "taken"
  PROVE  ReportInv'
<1>1. TallyInv'
  BY DEF ReportInv, TallyInv, Gap
<1>2. SumInv'
  BY DEF ReportInv, SumInv, Close
<1>3. WindowInv'
  BY DEF ReportInv, WindowInv, HasMax, Applied, Gap
<1> QED
  BY <1>1, <1>2, <1>3 DEF ReportInv

\* A wake-up is one more, and its cycle is not folded yet.
LEMMA WakeKeeps ==
  ASSUME TimesOK, ReportInv, NEW t \in Nat, Wakes(FromNs(t))
  PROVE  ReportInv'
<1> DEFINE n == Len(wakes)
<1>1. /\ loop = "idle" /\ loop' = "begun" /\ wakes' = Append(wakes, t)
      /\ UNCHANGED << data, windowSeen, request, cut, previous, current, expected, reporter >>
      /\ sample' = Sample(DiffNs(FromNs(t), previousWake), DiffNs(FromNs(t), deadline))
  BY FromNsCorrect DEF Wakes, RecordBegins, reader
<1>2. /\ n \in Nat \ {0} /\ \A i \in 1 .. n : wakes[i] \in Nat
      /\ Folds = n - 1
  BY <1>1, FoldsTyped DEF ReportInv
<1>3. /\ Len(wakes') = n + 1 /\ wakes'[n + 1] = t
      /\ \A i \in 1 .. n : wakes'[i] = wakes[i]
  BY <1>1 DEF TimesOK
<1>4. Folds' = Folds /\ Folded' = Folded
  <2>1. Folded' = Folded
    BY <1>1 DEF Folded
  <2>2. Folds' = n + 1 - 2
    BY <1>1, <1>3 DEF Folds
  <2> QED
    BY <1>2, <2>1, <2>2
<1>5. sample'.period = t - wakes[n]
  <2>1. DiffNs(FromNs(t), previousWake) = t - ToNs(previousWake)
    BY FromNsCorrect, DiffNsCorrect DEF TimesOK
  <2> QED
    BY <1>1, <2>1 DEF Sample, TimesOK
<1>6. \A k \in 1 .. n - 1 : Gap(k)' = Gap(k)
  BY <1>2, <1>3 DEF Gap
<1>7. \A x \in {Folded, current, previous} : x["count"] \in 0 .. n - 1
  BY <1>2 DEF ReportInv, TallyInv
<1>8. TallyInv'
  <2>1. (Gap(Len(wakes) - 1))' = t - wakes[n]
    <3>1. Len(wakes') - 1 = n /\ Len(wakes') - 1 + 1 = n + 1 /\ wakes'[n] = wakes[n]
      BY <1>2, <1>3
    <3> QED
      BY <1>3, <3>1 DEF Gap
  <2> QED
    BY <1>1, <1>2, <1>4, <1>5, <2>1 DEF ReportInv, TallyInv
<1>9. SumInv'
  <2>1. wakes'[Folded["count"] + 1] = wakes[Folded["count"] + 1]
    BY <1>2, <1>3, <1>7
  <2>2. wakes'[current["count"] + 1] = wakes[current["count"] + 1]
    BY <1>2, <1>3, <1>7
  <2>3. wakes'[previous["count"] + 1] = wakes[previous["count"] + 1]
    BY <1>2, <1>3, <1>7
  <2> QED
    BY <1>1, <1>4, <2>1, <2>2, <2>3 DEF ReportInv, SumInv, Close
<1>10. WindowInv'
  <2>1. ASSUME NEW x \in {Folded, current}, HasMax(x), x' = x
        PROVE  HasMax(x)'
    <3>1. \A k \in cut + 1 .. x["count"] : k \in 1 .. n - 1 /\ Gap(k)' = Gap(k)
      BY <1>2, <1>6, <1>7 DEF ReportInv, WindowInv
    <3> QED
      BY <1>1, <2>1, <3>1 DEF HasMax
  <2>2. HasMax(Folded) => HasMax(Folded)'
    BY <1>4, <2>1
  <2>3. HasMax(current) => HasMax(current)'
    BY <1>1, <2>1
  <2>4. Applied(Folded)' = Applied(Folded) /\ Applied(current)' = Applied(current)
    BY <1>1, <1>4 DEF Applied
  <2> QED
    BY <1>1, <1>4, <2>2, <2>3, <2>4 DEF ReportInv, WindowInv
<1> QED
  BY <1>8, <1>9, <1>10 DEF ReportInv

\* A cycle is folded, and with it the window that was asked for is applied.
LEMMA FoldKeeps ==
  ASSUME TimesOK, ReportInv, RecordFolds, UNCHANGED << time, cut >>
  PROVE  ReportInv'
<1> DEFINE n == Folds
           p == Gap(n + 1)
<1>1. /\ loop = "begun" /\ loop' = "storing"
      /\ fresh' = Fold(data, request, windowSeen, sample) /\ windowSeen' = request
      /\ UNCHANGED << data, wakes, request, cut, previous, current, expected, reporter >>
  BY DEF RecordFolds, reader, time
<1>2. n \in Nat /\ Len(wakes) = n + 2 /\ \A i \in 1 .. Len(wakes) : wakes[i] \in Nat
  BY <1>1, FoldsTyped DEF ReportInv
<1>3. Folded = data /\ Folded' = fresh' /\ sample.period = p /\ p \in Int
  <2>1. sample.period = p
    BY <1>1, <1>2 DEF ReportInv, TallyInv
  <2>2. p \in Int
    BY <1>2 DEF Gap
  <2> QED
    BY <1>1, <2>1, <2>2 DEF Folded
<1>4. Folds' = n + 1
  BY <1>1, <1>2 DEF Folds
<1>5. /\ Table(data) /\ data["count"] = n /\ data["sum"] \in Int /\ data["max"] \in Int
  BY <1>3 DEF ReportInv, TallyInv
<1>6. /\ Table(Folded)' /\ Folded'["count"] = n + 1
      /\ Folded'["sum"] = data["sum"] + NsToUsRounded(p)
      /\ Folded'["window"] = IF NewWindow(data, request, windowSeen) THEN request ELSE data["window"]
      /\ Folded'["max"] = IF NewWindow(data, request, windowSeen) THEN p ELSE Higher(data["max"], p)
  <2>1. Table(Folded)' = Table(Folded')
    BY DEF Table
  <2> QED
    BY <1>1, <1>3, <1>5, <2>1, FoldAdds
<1>7. NsToUsRounded(p) \in Int
  BY <1>3, RoundingCorrect
<1> HIDE DEF n, p
<1>8. TallyInv'
  <2>1. \A x \in {current, previous} :
          Table(x) /\ x["count"] \in 0 .. n /\ {x["sum"], x["max"]} \subseteq Int
    BY DEF ReportInv, TallyInv, n
  <2>2. Folded'["sum"] \in Int /\ Folded'["max"] \in Int
    BY <1>3, <1>5, <1>6, <1>7 DEF Higher
  <2>3. \A x \in {current, previous} :
          Table(x) /\ x["count"] \in 0 .. n + 1 /\ {x["sum"], x["max"]} \subseteq Int
    BY <1>2, <2>1
  <2>4. \A x \in {Folded', current', previous'} :
          /\ x = [f \in Fields |-> x[f]] /\ x["count"] \in 0 .. n + 1
          /\ {x["sum"], x["max"]} \subseteq Int
    <3>1. /\ Folded' = [f \in Fields |-> Folded'[f]] /\ Folded'["count"] \in 0 .. n + 1
          /\ {Folded'["sum"], Folded'["max"]} \subseteq Int
      BY <1>2, <1>6, <2>2 DEF Table
    <3>2. current' = current /\ previous' = previous
      BY <1>1
    <3> QED
      BY <2>3, <3>1, <3>2 DEF Table
  <2>5. request' \in Nat /\ loop' # "begun" /\ Folded'["count"] = Folds'
    BY <1>1, <1>4, <1>6 DEF ReportInv, TallyInv
  <2> QED
    BY <1>4, <2>4, <2>5 DEF TallyInv, Table
<1>9. SumInv'
  <2>1. Close(previous, current)'
    BY <1>1 DEF ReportInv, SumInv, Close
  <2>2. Close(current, Folded')
    <3>1. Close(current, data)
      BY <1>3 DEF ReportInv, SumInv
    <3>2. current["count"] \in Nat /\ current["sum"] \in Int
      BY <1>2 DEF ReportInv, TallyInv, n
    <3> QED
      BY <1>2, <1>5, <1>6, <3>1, <3>2, CloseAdds DEF p
  <2>3. Close(current, Folded)'
    BY <1>1, <2>2 DEF Close
  <2> QED
    BY <2>1, <2>3 DEF SumInv
<1>10. WindowInv'
  <2>1. cut \in 0 .. n /\ expected = request /\ request \in Nat /\ windowSeen \in 0 .. request
        /\ (windowSeen = request <=> Applied(data)) /\ data["window"] = windowSeen
        /\ (Applied(data) /\ n > 0 => HasMax(data)) /\ (request = 0 => cut = 0)
    BY <1>3 DEF ReportInv, TallyInv, WindowInv, n
  <2>2. Applied(Folded)'
    BY <1>1, <1>2, <1>6, <2>1 DEF Applied
  <2>3. Folded'["window"] = request
    BY <1>6, <2>1 DEF NewWindow
  <2>4. HasMax(Folded)'
    <3>1. CASE NewWindow(data, request, windowSeen)
      <4>1. cut = n
        BY <1>2, <1>5, <2>1, <3>1 DEF NewWindow, Applied
      <4>2. cut + 1 .. n + 1 = {n + 1} /\ Folded'["max"] = Gap(n + 1)
        BY <1>2, <1>6, <3>1, <4>1 DEF p
      <4> QED
        BY <1>1, <1>2, <1>3, <1>6, <4>1, <4>2 DEF HasMax, Gap, p
    <3>2. CASE ~ NewWindow(data, request, windowSeen)
      <4>1. n > 0 /\ HasMax(data)
        BY <1>2, <1>5, <2>1, <3>2 DEF NewWindow
      <4>2. /\ \A k \in cut + 1 .. n : Gap(k) <= data["max"]
            /\ \E k \in cut + 1 .. n : Gap(k) = data["max"]
        BY <1>5, <4>1 DEF HasMax
      <4>3. Folded'["max"] = Higher(data["max"], p)
        BY <1>6, <3>2
      <4>4. \A k \in cut + 1 .. n + 1 : k \in cut + 1 .. n \/ k = n + 1
        BY <1>2, <2>1
      <4>5. \A k \in cut + 1 .. n : Gap(k) \in Int
        BY <1>2, <2>1 DEF Gap
      <4>6. \A k \in cut + 1 .. n + 1 : Gap(k) <= Folded'["max"]
        BY <1>3, <1>5, <4>2, <4>3, <4>4, <4>5 DEF Higher, p
      <4>7. \E k \in cut + 1 .. n + 1 : Gap(k) = Folded'["max"]
        <5>1. CASE p > data["max"]
          BY <1>2, <2>1, <4>3, <5>1 DEF Higher, p
        <5>2. CASE ~ p > data["max"]
          BY <1>2, <2>1, <4>2, <4>3, <5>2 DEF Higher
        <5> QED
          BY <5>1, <5>2
      <4> QED
        BY <1>1, <1>6, <4>6, <4>7 DEF HasMax, Gap
    <3> QED
      BY <3>1, <3>2
  <2>5. reporter' = "taken" =>
          /\ current'["window"] = request' <=> Applied(current)'
          /\ Applied(current)' /\ current'["count"] > 0 => HasMax(current)'
    BY <1>1 DEF ReportInv, WindowInv, Applied, HasMax, Gap
  <2> QED
    BY <1>1, <1>2, <1>4, <2>1, <2>2, <2>3, <2>4, <2>5 DEF WindowInv
<1> QED
  BY <1>8, <1>9, <1>10 DEF ReportInv

\* A snapshot that is accepted is what is folded.
LEMMA SnapshotKeeps ==
  ASSUME TimesOK, ReportInv, loop = "idle", reporter' = "taken", current' = Folded,
         UNCHANGED << wakes, loop, data, windowSeen, request, cut, previous, expected >>
  PROVE  ReportInv'
<1>1. Folded' = Folded /\ Folds' = Folds /\ Folds \in Nat
  BY FoldsTyped DEF Folded, Folds, ReportInv
<1>2. TallyInv'
  BY <1>1 DEF ReportInv, TallyInv, Table
<1>3. SumInv'
  <2>1. \A x \in {Folded, current, previous} :
          x["count"] \in 0 .. Len(wakes) - 1 /\ x["sum"] \in Int
    BY FoldsTyped DEF ReportInv, TallyInv
  <2>2. Close(previous, Folded)
    BY <2>1, CloseTransitive DEF ReportInv, SumInv
  <2>3. Close(Folded, Folded)
    BY <2>1, CloseReflexive
  <2> QED
    BY <1>1, <2>2, <2>3 DEF SumInv, Close
<1>4. WindowInv'
  <2>1. Applied(Folded)' = Applied(Folded) /\ Applied(current)' = Applied(Folded)
    BY <1>1 DEF Applied
  <2>2. HasMax(Folded)' = HasMax(Folded) /\ HasMax(current)' = HasMax(Folded)
    BY <1>1 DEF HasMax, Gap
  <2>3. Folded["count"] = Folds
    BY DEF ReportInv, TallyInv
  <2> QED
    BY <1>1, <2>1, <2>2, <2>3 DEF ReportInv, WindowInv
<1> QED
  BY <1>2, <1>3, <1>4 DEF ReportInv

\* A report begins a window after the cycles that are folded.
LEMMA RequestKeeps ==
  ASSUME TimesOK, ReportInv, Reports, cut' = Folds, UNCHANGED time
  PROVE  ReportInv'
<1>1. /\ request' = request + 1 /\ expected' = request + 1 /\ previous' = current
      /\ reporter' = "idle"
      /\ UNCHANGED << wakes, loop, sample, data, fresh, windowSeen, current >>
  BY DEF Reports, writer, time
<1>2. Folded' = Folded /\ Folds' = Folds /\ Folds \in Nat
  BY <1>1, FoldsTyped DEF Folded, Folds, ReportInv
<1>3. TallyInv'
  BY <1>1, <1>2 DEF ReportInv, TallyInv, Table, Gap
<1>4. SumInv'
  <2>1. \A x \in {Folded, current, previous} :
          x["count"] \in 0 .. Len(wakes) - 1 /\ x["sum"] \in Int
    BY FoldsTyped DEF ReportInv, TallyInv
  <2>2. Close(current, Folded) /\ Close(current, current)
    BY <2>1, CloseReflexive DEF ReportInv, SumInv
  <2> QED
    BY <1>1, <1>2, <2>2 DEF SumInv, Close
<1>5. WindowInv'
  <2>1. ~ Applied(Folded)'
    BY <1>1, <1>2 DEF ReportInv, TallyInv, Applied
  <2> QED
    BY <1>1, <1>2, <2>1 DEF ReportInv, TallyInv, WindowInv
<1> QED
  BY <1>3, <1>4, <1>5 DEF ReportInv

LEMMA ReportInductive ==
  StatsInv /\ PacedInv /\ ReportInv /\ [LoopNext]_loopVars => ReportInv'
<1> SUFFICES ASSUME StatsInv, PacedInv, ReportInv, [LoopNext]_loopVars
             PROVE  ReportInv'
  OBVIOUS
<1>1. TimesOK
  BY DEF PacedInv
<1>2. ASSUME NEW t \in WakeTimes, Wakes(FromNs(t))
      PROVE  ReportInv'
  <2>1. t \in Nat
    <3>1. ToNs(previousWake) \in Nat /\ ToNs(deadline) \in Int
      BY <1>1, ToNsTyped DEF TimesOK
    <3> QED
      BY <3>1, LoopAssumption DEF WakeTimes, Higher
  <2> QED
    BY <1>1, <1>2, <2>1, WakeKeeps
<1>3. CASE RecordGoesOn /\ UNCHANGED << time, cut >>
  <2>1. CASE RecordFolds
    BY <1>1, <1>3, <2>1, FoldKeeps
  <2>2. ASSUME NEW f \in Fields, RecordStores(f)
        PROVE  ReportInv'
    <3>1. Folded' = Folded /\ Folds' = Folds
      BY <1>3, <2>2 DEF RecordStores, Folded, Folds, time
    <3> QED
      BY <1>3, <2>2, <3>1, QuietKeeps DEF RecordStores, reader, time
  <2>3. CASE RecordEnds
    <3>1. Folded' = Folded /\ Folds' = Folds
      BY <1>3, <2>3, StoredRecord DEF RecordEnds, Folded, Folds, time
    <3> QED
      BY <1>3, <2>3, <3>1, QuietKeeps DEF RecordEnds, reader, time
  <2> QED
    BY <1>3, <2>1, <2>2, <2>3 DEF RecordGoesOn
<1>4. CASE Reporter /\ UNCHANGED time /\ cut' = IF reporter = "taken" THEN Folds ELSE cut
  <2>1. CASE Reports
    BY <1>1, <1>4, <2>1, RequestKeeps DEF Reports
  <2>2. CASE SnapshotEnds /\ seq = before
    <3>1. loop = "idle" /\ got = data
      BY <2>2, AcceptedCopy DEF SnapshotEnds
    <3>2. current' = Folded /\ reporter' = "taken"
      BY <2>2, <3>1 DEF SnapshotEnds, Folded
    <3>3. UNCHANGED << wakes, loop, data, windowSeen, request, cut, previous, expected >>
      BY <1>4, <2>2 DEF SnapshotEnds, PassEnds, writer, time
    <3> QED
      BY <1>1, <3>1, <3>2, <3>3, SnapshotKeeps
  <2>3. ASSUME SnapshotBegins \/ (SnapshotEnds /\ seq # before)
                 \/ \E f \in Fields : SnapshotLoads(f)
        PROVE  ReportInv'
    <3>1. /\ UNCHANGED << writer, request, previous, current, expected, wakes, cut >>
          /\ reporter' = "taken" => reporter = "taken"
      BY <1>4, <2>3 DEF SnapshotBegins, SnapshotEnds, PassEnds, SnapshotLoads, time
    <3>2. Folded' = Folded /\ Folds' = Folds
      BY <3>1 DEF Folded, Folds, writer
    <3> QED
      BY <3>1, <3>2, QuietKeeps DEF writer
  <2> QED
    BY <1>4, <2>1, <2>2, <2>3 DEF Reporter
<1>5. CASE UNCHANGED loopVars
  <2>1. Folded' = Folded /\ Folds' = Folds
    BY <1>5 DEF loopVars, vars, writer, time, Folded, Folds
  <2> QED
    BY <1>5, <2>1, QuietKeeps DEF loopVars, vars, writer, reader, time
<1> QED
  BY <1>2, <1>3, <1>4, <1>5 DEF LoopNext

\* What is reported is what the invariant says of the two last snapshots.
LEMMA ReportDescribes ==
  ASSUME TimesOK, ReportInv, reporter = "taken"
  PROVE  Describes(Report.in, previous["count"], current["count"], cut, Report.stale)
<1>1. /\ \A x \in {current, previous} : Table(x) /\ x["count"] \in Nat
      /\ Close(previous, current) /\ request \in Nat /\ expected = request /\ cut \in Nat
  BY FoldsTyped DEF ReportInv, TallyInv, SumInv, WindowInv
<1>2. /\ current["window"] = request <=> Applied(current)
      /\ Applied(current) /\ current["count"] > 0 => HasMax(current)
  BY DEF ReportInv, WindowInv
<1>3. /\ Report.in["count"] = current["count"] - previous["count"]
      /\ Report.in["sum"] = current["sum"] - previous["sum"]
      /\ Report.in["max"] = current["max"]
      /\ Report.stale = (current["window"] # request)
  <2>1. DOMAIN current = Fields
    BY <1>1 DEF Table
  <2> QED
    BY <1>1, <2>1, FieldsAssumption DEF Report, Summarize, Counters
<1>4. Report.stale <=> request > 0 /\ current["count"] <= cut
  <2>1. ~ Applied(current) <=> request > 0 /\ current["count"] <= cut
    BY <1>1 DEF Applied
  <2>2. Report.stale <=> ~ Applied(current)
    BY <1>2, <1>3, Zenon
  <2> QED
    BY <2>1, <2>2, Zenon
<1>5. ~Report.stale /\ current["count"] > 0 => HasMax(current)
  BY <1>2, <1>3
<1> QED
  BY <1>1, <1>3, <1>4, <1>5 DEF Describes, Close, HasMax

LEMMA ReportsMatch ==
  PacedInv /\ ReportInv /\ [LoopNext]_loopVars =>
    (request' # request =>
       Describes(Report.in, previous["count"], current["count"], cut, Report.stale))
<1> SUFFICES ASSUME PacedInv, ReportInv, [LoopNext]_loopVars, request' # request
             PROVE  Describes(Report.in, previous["count"], current["count"], cut, Report.stale)
  OBVIOUS
<1>1. Reports
  BY DEF LoopNext, Wakes, RecordBegins, RecordGoesOn, RecordFolds, RecordStores, RecordEnds,
         Reporter, SnapshotBegins, SnapshotLoads, SnapshotEnds, PassEnds, loopVars, vars, reader
<1> QED
  BY <1>1, ReportDescribes DEF Reports, PacedInv

\* The statistics count the cycles so far, and each snapshot is what they once were.
THEOREM ReportInvariant == LoopSpec => []ReportInv
<1>1. LoopSpec => []StatsInv
  BY LoopIsSpec, StatsInvariant, PTL
<1> QED
  BY <1>1, PacedInvariant, ReportInitially, ReportInductive, PTL DEF LoopSpec

\* Every report counts the cycles between two snapshots, spans the time they took, and has
\* the extremes of the window asked for last, or is marked stale.
THEOREM ReportsAreExact == LoopSpec => ReportExact
  BY PacedInvariant, ReportInvariant, ReportsMatch, PTL DEF LoopSpec, ReportExact

-----------------------------------------------------------------------------
(***************************************************************************)
(* The life of the node.                                                   *)
(***************************************************************************)
LEMMA NodeInitially == NodeInit => NodeInv
  BY DEF NodeInit, NodeInv, NodeTypeOK, HookInv, ProgressInv, MainInv, Configured, Released

\* A component that is told to leave service does, and none is out of the known states.
LEMMA ReachesTyped ==
  ASSUME NEW state \in Configured \cup Released,
         NEW target \in Configured \cup {"unconfigured"}
  PROVE  /\ Reaches(state, target) \subseteq Configured \cup Released
         /\ target = "unconfigured" => Reaches(state, target) \subseteq Released
  BY DEF Reaches, Configured, Released

LEMMA SetsStateTyped ==
  ASSUME NodeTypeOK, NEW c \in Components, NEW target \in Configured \cup {"unconfigured"},
         SetsState(c, target)
  PROVE  /\ component' \in [Components -> Configured \cup Released]
         /\ \A d \in Components \ {c} : component'[d] = component[d]
         /\ target = "unconfigured" => component'[c] \in Released
  BY ReachesTyped DEF NodeTypeOK, SetsState

\* What main() does leaves the hook alone.
LEMMA MainKeeps ==
  ASSUME NodeInv, exit = "running",
         \/ Starts
         \/ SpinReturns \/ Joins \/ MainReturns \/ SpinThrows
  PROVE  NodeInv'
<1> USE DEF NodeInv
<1>1. NodeTypeOK'
  BY DEF NodeTypeOK, Starts, Creates, RefusesPeriod, CreationFails, SpinReturns, Joins, MainReturns,
         SpinThrows, shutdown, Configured, Released
<1>2. HookInv'
  BY DEF NodeTypeOK, HookInv, MainInv, Starts, Creates, RefusesPeriod, CreationFails, SpinReturns,
         Joins, MainReturns, SpinThrows, shutdown
<1>3. ProgressInv'
  <2>1. CASE Creates \/ RefusesPeriod
    BY <2>1 DEF HookInv, MainInv, ProgressInv, Creates, RefusesPeriod, shutdown
  <2>2. CASE ~(Creates \/ RefusesPeriod)
    BY <2>2 DEF ProgressInv, Starts, CreationFails, SpinReturns, Joins, MainReturns,
                SpinThrows, shutdown
  <2> QED
    BY <2>1, <2>2
<1>4. MainInv'
  BY DEF NodeTypeOK, MainInv, Starts, Creates, RefusesPeriod, CreationFails, SpinReturns, Joins,
         MainReturns, SpinThrows, shutdown
<1> QED
  BY <1>1, <1>2, <1>3, <1>4

\* What the loop does may take a component out of service, and nothing else.
LEMMA LoopKeeps ==
  ASSUME NodeInv, exit = "running",
         Loops \/ LoopThrows \/ \E c \in Components : ComponentFails(c)
  PROVE  NodeInv'
<1> USE DEF NodeInv
<1>1. CASE Loops \/ LoopThrows
  BY <1>1 DEF NodeTypeOK, HookInv, ProgressInv, MainInv, Loops, LoopTests, LoopWakes, LoopCycles,
              LoopThrows, process, shutdown
<1>2. ASSUME NEW c \in Components, ComponentFails(c)
      PROVE  NodeInv'
  <2>1. PICK s \in Released : component' = [component EXCEPT ![c] = s]
    BY <1>2 DEF ComponentFails
  <2>2. NodeTypeOK'
    BY <1>2, <2>1 DEF NodeTypeOK, ComponentFails, process, shutdown
  <2>3. HookInv' /\ MainInv'
    BY <1>2 DEF HookInv, MainInv, ComponentFails, process, shutdown
  <2>4. ProgressInv'
    BY <1>2, <2>1 DEF NodeTypeOK, ProgressInv, ComponentFails, shutdown
  <2> QED
    BY <2>2, <2>3, <2>4
<1> QED
  BY <1>1, <1>2

\* The hook works its way through the components.
LEMMA HookKeeps ==
  ASSUME NodeInv, exit = "running", Shutdown
  PROVE  NodeInv'
<1> USE DEF NodeInv
<1>1. CASE HookBegins
  BY <1>1 DEF NodeTypeOK, HookInv, ProgressInv, MainInv, HookBegins, RunsHook, process
<1>2. CASE HookLists
  <2>1. NodeTypeOK' /\ HookInv' /\ MainInv'
    BY <1>2 DEF NodeTypeOK, HookInv, MainInv, HookLists, process
  <2>2. ProgressInv'
    BY <1>2 DEF NodeTypeOK, ProgressInv, HookLists
  <2> QED
    BY <2>1, <2>2
<1>3. CASE HookTakes
  <2>1. PICK c \in todo :
          /\ at' = c /\ todo' = todo \ {c}
          /\ hook' = CASE listed[c] = "active" -> "deactivating"
                       [] listed[c] = "inactive" -> "cleaning"
                       [] OTHER -> "next"
    BY <1>3 DEF HookTakes
  <2>2. NodeTypeOK' /\ HookInv' /\ MainInv'
    BY <1>3, <2>1 DEF NodeTypeOK, HookInv, MainInv, HookTakes, process
  <2>3. ProgressInv'
    BY <1>3, <2>1 DEF NodeTypeOK, ProgressInv, HookTakes, Configured
  <2> QED
    BY <2>2, <2>3
<1>4. CASE HookDeactivates
  <2>1. /\ component' \in [Components -> Configured \cup Released]
        /\ \A d \in Components \ {at} : component'[d] = component[d]
    BY <1>4, SetsStateTyped DEF NodeTypeOK, HookDeactivates, Configured
  <2>2. NodeTypeOK' /\ HookInv' /\ MainInv'
    BY <1>4, <2>1 DEF NodeTypeOK, HookInv, MainInv, HookDeactivates, process
  <2>3. ProgressInv'
    BY <1>4, <2>1 DEF ProgressInv, HookDeactivates
  <2> QED
    BY <2>2, <2>3
<1>5. CASE HookCleansUp
  <2>1. /\ component' \in [Components -> Configured \cup Released]
        /\ \A d \in Components \ {at} : component'[d] = component[d]
        /\ component'[at] \in Released
    BY <1>5, SetsStateTyped DEF NodeTypeOK, HookCleansUp
  <2>2. NodeTypeOK' /\ HookInv' /\ MainInv'
    BY <1>5, <2>1 DEF NodeTypeOK, HookInv, MainInv, HookCleansUp, process
  <2>3. ProgressInv'
    BY <1>5, <2>1 DEF ProgressInv, HookCleansUp
  <2> QED
    BY <2>2, <2>3
<1>6. CASE HookEnds
  BY <1>6 DEF NodeTypeOK, HookInv, ProgressInv, MainInv, HookEnds, process
<1>7. CASE ShutdownEnds
  BY <1>7 DEF NodeTypeOK, HookInv, ProgressInv, MainInv, ShutdownEnds, RunsHook, process
<1> QED
  BY <1>1, <1>2, <1>3, <1>4, <1>5, <1>6, <1>7 DEF Shutdown

LEMMA NodeInductive == NodeInv /\ [NodeNext]_nodeVars => NodeInv'
<1> SUFFICES ASSUME NodeInv, [NodeNext]_nodeVars
             PROVE  NodeInv'
  OBVIOUS
<1>1. CASE MainShutsDown \/ SignalShutsDown
  BY <1>1 DEF NodeInv, NodeTypeOK, HookInv, ProgressInv, MainInv, MainShutsDown, SignalShutsDown,
              ShutdownBegins, process
<1>4. CASE Signals
  BY <1>4 DEF NodeInv, NodeTypeOK, HookInv, ProgressInv, MainInv, Signals, process, shutdown
<1>5. ASSUME NEW d, exit = "running", Terminates(d)
      PROVE  NodeInv'
  <2>1. NodeTypeOK' /\ HookInv' /\ ProgressInv'
    BY <1>5 DEF NodeInv, NodeTypeOK, HookInv, ProgressInv, Terminates, shutdown
  <2>2. MainInv'
    BY <1>5 DEF NodeInv, MainInv, Terminates
  <2> QED
    BY <2>1, <2>2 DEF NodeInv
<1>2. ASSUME NEW c \in Components, NEW target \in Configured \cup {"unconfigured"},
             exit = "running", Operates(c, target)
      PROVE  NodeInv'
  <2>1. component' \in [Components -> Configured \cup Released]
    BY <1>2, SetsStateTyped DEF NodeInv, Operates
  <2> QED
    BY <1>2, <2>1 DEF NodeInv, NodeTypeOK, HookInv, ProgressInv, MainInv, Operates, process, shutdown
<1>3. CASE UNCHANGED nodeVars
  BY <1>3 DEF NodeInv, NodeTypeOK, HookInv, ProgressInv, MainInv, nodeVars, process, shutdown
<1> QED
  BY <1>1, <1>2, <1>3, <1>4, <1>5, MainKeeps, LoopKeeps, HookKeeps DEF NodeNext, Fails, Ends

\* The node's invariant.
THEOREM NodeInvariant == NodeSpec => []NodeInv
  BY NodeInitially, NodeInductive, PTL DEF NodeSpec

\* Whatever ended the node, main() leaves no component in service and no loop behind.
THEOREM HardwareReleased == NodeSpec => []ReleasedAtExit
<1>1. NodeInv => ReleasedAtExit
  BY DEF NodeInv, NodeTypeOK, HookInv, ProgressInv, MainInv, ReleasedAtExit
<1> QED
  BY <1>1, NodeInvariant, PTL

\* A component less on the list: the hook has at least three steps less before it.
LEMMA TakingShortens ==
  ASSUME NodeTypeOK, NEW c \in todo
  PROVE  /\ Cardinality(todo) \in Nat
         /\ Cardinality(todo \ {c}) = Cardinality(todo) - 1
<1>1. IsFiniteSet(todo)
  BY ComponentsAssumption, FS_Subset DEF NodeTypeOK
<1> QED
  BY <1>1, FS_CardinalityType, FS_RemoveElement

\* Each step of the hook is one less to go.
LEMMA HookStepIsOneLess ==
  ASSUME NodeTypeOK, Shutdown, ~ShutdownEnds
  PROVE  HookLeft' < HookLeft
<1>1. Cardinality(Components) \in Nat /\ Cardinality(todo) \in Nat
  BY ComponentsAssumption, FS_Subset, FS_CardinalityType DEF NodeTypeOK
<1>2. CASE HookBegins
  BY <1>1, <1>2 DEF HookBegins, HookLeft
<1>3. CASE HookLists
  BY <1>1, <1>3 DEF HookLists, HookLeft
<1>4. CASE HookTakes
  <2>1. PICK c \in todo : /\ todo' = todo \ {c}
                          /\ hook' \in {"deactivating", "cleaning", "next"}
    BY <1>4 DEF HookTakes
  <2>2. Cardinality(todo') = Cardinality(todo) - 1
    BY <2>1, TakingShortens
  <2> QED
    BY <1>1, <1>4, <2>1, <2>2 DEF HookTakes, HookLeft
<1>5. CASE HookDeactivates \/ HookCleansUp
  BY <1>1, <1>5 DEF HookDeactivates, HookCleansUp, HookLeft
<1>6. CASE HookEnds
  BY <1>1, <1>6 DEF HookEnds, HookLeft
<1> QED
  BY <1>2, <1>3, <1>4, <1>5, <1>6 DEF Shutdown

\* The hook is through after at most three steps for each component and three more:
\* HookAdvances, for every finite set of components.
THEOREM HookIsShort == NodeSpec => HookAdvances
<1> DEFINE Advances == IF Shutdown /\ ~ShutdownEnds THEN HookLeft' < HookLeft
                       ELSE HookLeft' = HookLeft
<1>1. NodeInv /\ [NodeNext]_nodeVars => [Advances]_nodeVars
  <2> SUFFICES ASSUME NodeInv, NodeNext, ~(Shutdown /\ ~ShutdownEnds)
               PROVE  HookLeft' = HookLeft
    BY HookStepIsOneLess DEF NodeInv
  <2> SUFFICES hook' = hook /\ todo' = todo
    BY DEF HookLeft
  <2>1. CASE Starts \/ Ends \/ SignalShutsDown \/ ShutdownEnds
    BY <2>1 DEF Starts, Ends, Creates, RefusesPeriod, CreationFails, SpinReturns, Joins,
       MainShutsDown, MainReturns, SignalShutsDown, ShutdownBegins, ShutdownEnds, shutdown
  <2>2. CASE Loops \/ Fails \/ Signals
    BY <2>2 DEF Loops, Fails, LoopTests, LoopWakes, LoopCycles, SpinThrows, LoopThrows,
       ComponentFails, Signals, shutdown
  <2>3. ASSUME NEW c \in Components, NEW target \in Configured \cup {"unconfigured"},
               Operates(c, target)
        PROVE  hook' = hook /\ todo' = todo
    BY <2>3 DEF Operates, shutdown
  <2>4. ASSUME NEW d \in {"FatalBadAlloc", "FatalException", "IgnoredShutdownRace"},
               Terminates(d)
        PROVE  hook' = hook /\ todo' = todo
    BY <2>4 DEF Terminates, shutdown
  <2> QED
    BY <2>1, <2>2, <2>3, <2>4 DEF NodeNext
<1> QED
  BY <1>1, NodeInvariant, PTL DEF NodeSpec, HookAdvances
=============================================================================
