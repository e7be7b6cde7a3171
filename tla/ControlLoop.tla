---------------------------- MODULE ControlLoop -----------------------------
(***************************************************************************)
(* The control thread's cycle on the period grid, and the reporter that    *)
(* reads its statistics: rt_timebase as main() puts it to use.  A cycle    *)
(* wakes up at or after its deadline, or a little early since the kernel   *)
(* sleeps on another clock, and records itself; what read(), update() and  *)
(* write() take, a preemption or a stall make the next wake-up late.       *)
(***************************************************************************)
EXTENDS PeriodStats, Sequences

CONSTANTS
  StartTime,    \* when the thread starts, in ns
  Slew,         \* how early a sleep may end
  Lateness,     \* how late a wake-up may be, negative when it is early
  MaxCycles,    \* bound: how many cycles run
  MaxReports    \* bound: how many reports are made

ASSUME LoopAssumption ==
  /\ StartTime \in Nat /\ Slew \in Nat
  /\ Lateness \subseteq Int /\ \A n \in Lateness : n >= -Slew

VARIABLES
  deadline,      \* the grid point the loop sleeps to
  previousWake,  \* previous_wake
  wakes,         \* history: the times of all wake-ups, the start first
  cut            \* history: how many cycles had begun a window when the last was asked for

time     == << deadline, previousWake, wakes >>
loopVars == << vars, time, cut >>

LoopInit ==
  /\ Init
  /\ previousWake = FromNs(StartTime)
  /\ deadline = ResyncToGrid(FromNs(StartTime))
  /\ wakes = << StartTime >> /\ cut = 0

\* One cycle up to its record(): sleep_until_raw(), step() and the measured period.
Wakes(now) ==
  /\ Len(wakes) <= MaxCycles
  /\ \E s \in Samples :
       /\ s = Sample(DiffNs(now, previousWake), DiffNs(now, deadline))
       /\ RecordBegins(s)
  /\ deadline' = NextDeadline(deadline, now)
  /\ previousWake' = now
  /\ wakes' = Append(wakes, ToNs(now))
  /\ UNCHANGED cut

\* With the deadline in the past the sleep returns at once.
WakeTimes == {Higher(ToNs(previousWake), ToNs(deadline) + n) : n \in Lateness}

\* How many cycles have begun to store what they add.
Folds == Len(wakes) - (IF loop = "begun" THEN 2 ELSE 1)

LoopNext ==
  \/ \E t \in WakeTimes : Wakes(FromNs(t))
  \/ RecordGoesOn /\ UNCHANGED << time, cut >>
  \/ /\ Reporter /\ (reporter = "taken" => request < MaxReports)
     /\ cut' = IF reporter = "taken" THEN Folds ELSE cut
     /\ UNCHANGED time

LoopSpec == LoopInit /\ [][LoopNext]_loopVars

-----------------------------------------------------------------------------
(***************************************************************************)
(* Properties.                                                             *)
(***************************************************************************)
Gap(k) == wakes[k + 1] - wakes[k]   \* the measured period of cycle k

\* The phase against the bus is kept: every deadline is a multiple of the period, whatever
\* delays there were.  Missed cycles are dropped and never run back to back: whatever cycles
\* came late, from one to another no less time passes than the grid has for those between.
OnGrid == ToNs(deadline) % Period = 0
Spaced ==
  \A i, j \in 1 .. Len(wakes) :
    i < j => wakes[j] - wakes[i] >= (j - i - 1) * Period - Slew

Paced == OnGrid /\ Spaced

\* Why: the deadline is ahead of every wake-up by the periods of the cycles since.
TimesOK ==
  /\ deadline \in Timespec /\ previousWake \in Timespec
  /\ wakes \in Seq(Nat) /\ wakes # << >> /\ wakes[Len(wakes)] = ToNs(previousWake)
Ahead ==
  \A i \in 1 .. Len(wakes) : ToNs(deadline) >= wakes[i] + (Len(wakes) - i) * Period

PacedInv == TimesOK /\ Ahead /\ Paced

\* A report describes one window: it counts the cycles between two snapshots, spans the
\* time they took (give or take the rounding), has the extremes of just those that began
\* after the last reset, and is marked stale exactly when there was none.
Describes(r, first, last, from, stale) ==
  /\ r["count"] = last - first
  /\ LET error == r["sum"] * NsPerUs - (wakes[last + 1] - wakes[first + 1])
     IN  2 * error <= r["count"] * NsPerUs /\ -2 * error <= r["count"] * NsPerUs
  /\ stale <=> request > 0 /\ last <= from
  /\ ~stale /\ last > 0 =>
       /\ \A k \in from + 1 .. last : Gap(k) <= r["max"]
       /\ \E k \in from + 1 .. last : Gap(k) = r["max"]

ReportExact ==
  [][request' # request =>
       Describes(Report.in, previous["count"], current["count"], cut, Report.stale)]_loopVars

\* Why: the statistics, once they are folded, count the cycles so far, and the two last
\* snapshots are what they once were.
Folded == IF loop = "storing" THEN fresh ELSE data

TallyInv ==
  /\ request \in Nat
  /\ \A x \in {Folded, current, previous} :
       Table(x) /\ x["count"] \in 0 .. Folds /\ {x["sum"], x["max"]} \subseteq Int
  /\ Folded["count"] = Folds
  /\ loop = "begun" => Folds >= 0 /\ sample.period = Gap(Len(wakes) - 1)

\* From one to another the sum is that of the gaps, up to half a unit for each.
Close(x, y) ==
  LET error == (y["sum"] - x["sum"]) * NsPerUs - (wakes[y["count"] + 1] - wakes[x["count"] + 1])
      cycles == y["count"] - x["count"]
  IN  cycles >= 0 /\ 2 * error <= cycles * NsPerUs /\ -2 * error <= cycles * NsPerUs

SumInv == Close(previous, current) /\ Close(current, Folded)

\* The window last asked for was applied if a cycle was folded since, and then the extremes
\* are those of the cycles since.
HasMax(x) ==
  /\ \A k \in cut + 1 .. x["count"] : Gap(k) <= x["max"]
  /\ \E k \in cut + 1 .. x["count"] : Gap(k) = x["max"]
Applied(x) == request = 0 \/ x["count"] > cut

WindowInv ==
  /\ expected = request /\ cut \in 0 .. Folds
  /\ Folded["window"] = windowSeen /\ windowSeen \in 0 .. request
  /\ windowSeen = request <=> Applied(Folded)
  /\ request = 0 => cut = 0
  /\ Applied(Folded) /\ Folds > 0 => HasMax(Folded)
  /\ reporter = "taken" =>
       /\ current["window"] = request <=> Applied(current)
       /\ Applied(current) /\ current["count"] > 0 => HasMax(current)

ReportInv == TallyInv /\ SumInv /\ WindowInv
=============================================================================
