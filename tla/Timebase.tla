------------------------------ MODULE Timebase ------------------------------
(***************************************************************************)
(* The pure part of rt_timebase: the grid of the control loop, how a wake- *)
(* up is classified, and what one cycle adds to the period statistics.     *)
(* Times are those of CLOCK_MONOTONIC_RAW.                                 *)
(***************************************************************************)
EXTENDS Integers

CONSTANTS
  NsPerSec, NsPerUs,      \* kNsPerSec and kNsPerUs
  Period,                 \* period_ns, the nominal period
  MaxMeasuredPeriods      \* kMaxMeasuredPeriods

ASSUME UnitsAssumption == NsPerSec \in Nat \ {0} /\ NsPerUs \in Nat \ {0}
ASSUME PeriodAssumption == Period \in Nat \ {0} /\ MaxMeasuredPeriods \in Nat \ {0}

-----------------------------------------------------------------------------
(***************************************************************************)
(* A timespec is normalised: its nanoseconds stay below a second.          *)
(***************************************************************************)
Timespec == [sec : Int, nsec : 0 .. NsPerSec - 1]

\* The division of C++ truncates toward zero.
TruncDiv(a, b) == IF a >= 0 THEN a \div b ELSE -((-a) \div b)

ToNs(t) == t.sec * NsPerSec + t.nsec
FromNs(ns) == [sec |-> ns \div NsPerSec, nsec |-> ns % NsPerSec]  \* of a time that is not negative
DiffNs(a, b) == (a.sec - b.sec) * NsPerSec + (a.nsec - b.nsec)

AddNs(t, ns) ==
  LET total == t.nsec + ns
      carry == TruncDiv(total, NsPerSec)
      rest  == total - carry * NsPerSec
  IN  IF rest < 0 THEN [sec |-> t.sec + carry - 1, nsec |-> rest + NsPerSec]
      ELSE [sec |-> t.sec + carry, nsec |-> rest]

-----------------------------------------------------------------------------
(***************************************************************************)
(* The grid: the multiples of the period.                                  *)
(***************************************************************************)
Verdict(lateness) ==
  IF lateness <= 0 THEN "OnTime" ELSE IF lateness < Period THEN "Late" ELSE "Overrun"

\* The first multiple of the period at least half a period away.
ResyncToGrid(now) ==
  LET earliest == ToNs(now) + Period \div 2
  IN  FromNs(((earliest + Period - 1) \div Period) * Period)

\* Variant: a loop that catches up with the grid.
NextDeadlineCatchesUp(deadline, now) == AddNs(deadline, Period)

\* step(): a late wake-up leaves the grid where it was, an overrun drops the missed cycles.
NextDeadline(deadline, now) ==
  IF Verdict(DiffNs(now, deadline)) = "Overrun" THEN ResyncToGrid(now)
  ELSE AddNs(deadline, Period)

\* clamp_measured_period(): the dt that read(), update() and write() are given.
Clamped(measured) ==
  IF measured < 0 THEN 0
  ELSE IF measured > MaxMeasuredPeriods * Period THEN MaxMeasuredPeriods * Period
  ELSE measured

-----------------------------------------------------------------------------
(***************************************************************************)
(* The statistics.  The counters are never reset, the extremes belong to a *)
(* window.                                                                 *)
(***************************************************************************)
Sample(gap, lateness) ==
  [period |-> gap, lateness |-> lateness,
   overrun |-> Verdict(lateness) = "Overrun", clamped |-> Clamped(gap) # gap]

NsToUsRounded(ns) ==
  IF ns >= 0 THEN (ns + NsPerUs \div 2) \div NsPerUs ELSE -((-ns + NsPerUs \div 2) \div NsPerUs)

Counters == {"count", "sum", "squares", "overruns", "clamps"}
Extremes == {"min", "max", "lateness"}

Lower(a, b)  == IF b < a THEN b ELSE a
Higher(a, b) == IF b > a THEN b ELSE a

\* What a sample adds to a counter.
Increment(f, s) ==
  CASE f = "count" -> 1
    [] f = "sum" -> NsToUsRounded(s.period)
    [] f = "squares" -> NsToUsRounded(s.period) * NsToUsRounded(s.period)
    [] f = "overruns" -> IF s.overrun THEN 1 ELSE 0
    [] f = "clamps" -> IF s.clamped THEN 1 ELSE 0

\* An extreme starts from the sample in a new window, and is tightened in an old one.
Start(f, s) == IF f = "lateness" THEN s.lateness ELSE s.period
Tighten(f, old, s) == IF f = "min" THEN Lower(old, s.period) ELSE Higher(old, Start(f, s))

\* record(), as a function of the fields stored before: requested is the window last asked
\* for, seen the one applied last.
NewWindow(stats, requested, seen) == requested # seen \/ stats["count"] = 0

Fold(stats, requested, seen, s) ==
  [f \in DOMAIN stats |->
     IF f \in Counters THEN stats[f] + Increment(f, s)
     ELSE IF f = "window" THEN IF NewWindow(stats, requested, seen) THEN requested ELSE stats[f]
     ELSE IF NewWindow(stats, requested, seen) THEN Start(f, s)
     ELSE Tighten(f, stats[f], s)]

\* summarize(): the counters of two snapshots are subtracted, the extremes are the later
\* ones'.
Summarize(prev, cur, expected) ==
  [in |-> [f \in DOMAIN cur |-> IF f \in Counters THEN cur[f] - prev[f] ELSE cur[f]],
   stale |-> cur["window"] # expected]
=============================================================================
