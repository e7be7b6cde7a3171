---------------------------- MODULE PeriodStats -----------------------------
(***************************************************************************)
(* PeriodStats: the loop records its cycles, a reporter on another thread  *)
(* copies them, and a sequence counter tells the reporter whether a record *)
(* came in between.  Neither waits for the other.                          *)
(*                                                                         *)
(* The fields are relaxed atomics between fences, so they are stored and   *)
(* loaded in any order.  A field that record() leaves as it was is stored  *)
(* like the others.  The counter wraps.                                    *)
(***************************************************************************)
EXTENDS Timebase

CONSTANTS
  Fields,       \* the fields of a Snapshot
  Samples,      \* what the loop may record
  SeqValues     \* how many values seq has: 2^32

ASSUME FieldsAssumption == {"count", "sum", "max", "window"} \subseteq Fields
ASSUME SeqAssumption == SeqValues \in Nat /\ SeqValues % 2 = 0 /\ SeqValues >= 4

VARIABLES
  seq,          \* w_.seq, odd while record() is in flight
  data,         \* the fields of w_
  windowSeen,   \* window_seen_
  request,      \* r_.window_request
  loop,         \* record() is "idle", has "begun", or is "storing"
  sample,       \* its argument
  fresh, left,  \* the values it stores, and the fields it has not stored yet
  reporter,     \* "idle", "loading" in snapshot(), or it has "taken" one
  before,       \* what snapshot() loaded of seq first
  got, loaded,  \* the copy, and the fields it holds so far
  stores,       \* how often seq was stored since then
  previous, current,  \* the last two snapshots
  expected      \* the window expected in the next one

writer == << data, windowSeen, loop, sample, fresh, left >>
reader == << request, reporter, before, got, loaded, previous, current, expected >>
vars   == << seq, stores, writer, reader >>

Zeros    == [f \in Fields |-> 0]
NoSample == [period |-> 0, lateness |-> 0, overrun |-> FALSE, clamped |-> FALSE]

Init ==
  /\ seq = 0 /\ data = Zeros /\ windowSeen = 0 /\ request = 0
  /\ loop = "idle" /\ sample = NoSample /\ fresh = Zeros /\ left = {}
  /\ reporter = "idle" /\ before = 0 /\ got = Zeros /\ loaded = {} /\ stores = 0
  /\ previous = Zeros /\ current = Zeros /\ expected = 0

-----------------------------------------------------------------------------
(***************************************************************************)
(* record().                                                               *)
(***************************************************************************)
\* The next value of a counter that wraps.
Wrap(n) == IF n = SeqValues - 1 THEN 0 ELSE n + 1

\* One pass of snapshot() is over before seq has gone round: 2^31 cycles take more than a
\* year at 50 Hz, and a pass a handful of loads.
StoresSeq ==
  /\ seq' = Wrap(seq)
  /\ stores' = IF reporter = "loading" THEN stores + 1 ELSE 0
  /\ stores' < SeqValues

\* Variant: a record that is in flight cannot be told from one that is complete.
RecordBeginsSilently(s) ==
  /\ loop = "idle"
  /\ loop' = "begun" /\ sample' = s
  /\ UNCHANGED << seq, stores, data, windowSeen, fresh, left, reader >>

RecordBegins(s) ==
  /\ loop = "idle"
  /\ loop' = "begun" /\ sample' = s
  /\ StoresSeq
  /\ UNCHANGED << data, windowSeen, fresh, left, reader >>

\* The window asked for is loaded, and with it everything to be stored is known.
\* Variant: a reset is forgotten unless the window was empty.
RecordFoldsOldWindow ==
  /\ loop = "begun"
  /\ loop' = "storing"
  /\ fresh' = Fold(data, windowSeen, windowSeen, sample)
  /\ left' = Fields
  /\ windowSeen' = request
  /\ UNCHANGED << seq, stores, data, sample, reader >>

RecordFolds ==
  /\ loop = "begun"
  /\ loop' = "storing"
  /\ fresh' = Fold(data, request, windowSeen, sample)
  /\ left' = Fields
  /\ windowSeen' = request
  /\ UNCHANGED << seq, stores, data, sample, reader >>

RecordStores(f) ==
  /\ loop = "storing" /\ f \in left
  /\ data' = [data EXCEPT ![f] = fresh[f]]
  /\ left' = left \ {f}
  /\ UNCHANGED << seq, stores, windowSeen, loop, sample, fresh, reader >>

RecordEnds ==
  /\ loop = "storing" /\ left = {}
  /\ loop' = "idle" /\ sample' = NoSample
  /\ StoresSeq
  /\ UNCHANGED << data, windowSeen, fresh, left, reader >>

-----------------------------------------------------------------------------
(***************************************************************************)
(* snapshot() and the callback of the reporter's timer.                    *)
(***************************************************************************)
\* While seq is odd snapshot() loads it again.
SnapshotBegins ==
  /\ reporter = "idle" /\ seq % 2 = 0
  /\ reporter' = "loading"
  /\ before' = seq
  /\ UNCHANGED << seq, stores, writer, request, got, loaded, previous, current, expected >>

SnapshotLoads(f) ==
  /\ reporter = "loading" /\ f \in Fields \ loaded
  /\ got' = [got EXCEPT ![f] = data[f]]
  /\ loaded' = loaded \cup {f}
  /\ UNCHANGED << seq, stores, writer, request, reporter, before, previous, current,
                  expected >>

\* The locals of a pass are gone when it is over.
PassEnds ==
  /\ before' = 0 /\ stores' = 0 /\ got' = Zeros /\ loaded' = {}
  /\ UNCHANGED << seq, writer, request, previous, expected >>

\* Variant: seq is not read again.
SnapshotEndsUnchecked ==
  /\ reporter = "loading" /\ loaded = Fields
  /\ reporter' = "taken" /\ current' = got
  /\ PassEnds

SnapshotEnds ==
  /\ reporter = "loading" /\ loaded = Fields
  /\ IF seq = before THEN reporter' = "taken" /\ current' = got
                     ELSE reporter' = "idle" /\ UNCHANGED current
  /\ PassEnds

\* What is reported of the last snapshot.
Report == Summarize(previous, current, expected)

\* request_window_reset(), and the report of what was copied before it.
Reports ==
  /\ reporter = "taken"
  /\ request' = request + 1 /\ expected' = request + 1
  /\ previous' = current
  /\ reporter' = "idle"
  /\ UNCHANGED << seq, stores, writer, before, got, loaded, current >>

Reporter ==
  \/ SnapshotBegins \/ SnapshotEnds \/ Reports
  \/ \E f \in Fields : SnapshotLoads(f)

\* Where the loop is once it has recorded a cycle is of no concern here.
RecordGoesOn == RecordFolds \/ RecordEnds \/ \E f \in Fields : RecordStores(f)

Next == Reporter \/ RecordGoesOn \/ \E s \in Samples : RecordBegins(s)

Spec == Init /\ [][Next]_vars

-----------------------------------------------------------------------------
(***************************************************************************)
(* Properties.                                                             *)
(***************************************************************************)
Table(t) == t = [f \in Fields |-> t[f]]

TypeOK ==
  /\ seq \in 0 .. SeqValues - 1 /\ before \in 0 .. SeqValues - 1
  /\ stores \in 0 .. SeqValues - 1
  /\ loop \in {"idle", "begun", "storing"}
  /\ reporter \in {"idle", "loading", "taken"}
  /\ left \subseteq Fields /\ loaded \subseteq Fields
  /\ loop # "idle" => sample \in Samples
  /\ Table(data) /\ Table(fresh) /\ Table(got)

\* seq is odd exactly while a record is in flight.
ParityInv == seq % 2 = 0 <=> loop = "idle"

\* What is not to be stored any more is stored.
StoredInv == loop = "storing" => \A f \in Fields \ left : data[f] = fresh[f]

\* While snapshot() loads, seq is where the stores since then have brought it; while there
\* was none, no record is in flight and the copy agrees with the fields.
CopyInv ==
  IF reporter # "loading" THEN stores = 0 /\ loaded = {}
  ELSE
    /\ seq = IF before + stores < SeqValues THEN before + stores
             ELSE before + stores - SeqValues
    /\ stores = 0 => loop = "idle" /\ \A f \in loaded : got[f] = data[f]

\* The inductive invariant behind the sequence lock: why an unchanged even seq means an
\* untorn copy.
StatsInv == TypeOK /\ ParityInv /\ StoredInv /\ CopyInv

\* A snapshot is never a mix of two cycles: record() and snapshot() look as if each took
\* place at once.  A record takes place when it has loaded the window asked for, a
\* snapshot when it finds seq unchanged.
Atomic == INSTANCE AtomicStats WITH
  stats <- IF loop = "storing" THEN fresh ELSE data,
  seen  <- windowSeen,
  taken <- reporter = "taken"

RefinesAtomic == Atomic!Spec
=============================================================================
