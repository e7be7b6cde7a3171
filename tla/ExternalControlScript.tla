------------------------ MODULE ExternalControlScript ------------------------
(***************************************************************************)
(* The control script on the arm: the main thread reads commands from the  *)
(* reverse socket, starts and stops the thread that moves the arm (servo,  *)
(* speed), and starts, replaces and cancels the trajectory thread, which   *)
(* counts points in from the trajectory socket and runs them.              *)
(*                                                                         *)
(* A point carries no trajectory id, the script only counts.  The ids here *)
(* are history: on the wire, the number of the trajectory a point was      *)
(* written for.  The two sockets are not ordered with each other.          *)
(*                                                                         *)
(* stop_thread() ends a thread between two statements, and outside of a    *)
(* section that holds a lock.                                              *)
(***************************************************************************)
EXTENDS Naturals, Sequences

CONSTANTS
  Timeout,          \* TRAJECTORY_POINT_TIMEOUT, in steps
  MaxTrajectories,  \* bound on the START actions of the host
  MaxPoints,        \* bound on the points of a trajectory
  MotionModes       \* the modes with a move thread that are commanded

ASSUME TimeoutAssumption == Timeout \in Nat
ASSUME BoundsAssumption == MaxTrajectories \in Nat /\ MaxPoints \in Nat \ {0}
ASSUME ModesAssumption == MotionModes \subseteq {"servoj", "speedj", "speedl"}

VARIABLES
  main,          \* where the main thread is
  cmd,           \* the command it handles
  heard,         \* a command was received, and read_timeout is not 0.0 any more
  control_mode,
  mover,         \* the thread behind move_thread_handle, named for its mode
  vetting,       \* servo_start_check_pending
  freedrive,     \* freedrive_active
  thread,        \* where trajectoryThread() is
  num,           \* trajectory_point_num
  active,        \* trajectory_active
  result,        \* trajectory_result
  wait,          \* trajectory_point_wait, up to Timeout + 1
  silence,       \* silence of the drain under way, up to Timeout
  reverse,       \* the command on the reverse socket
  wire,          \* the points on the trajectory socket
  started,       \* the trajectories the host has started
  left,          \* points it has still to write for the last of them
  habit,         \* of the host, see Habits
  current,       \* history: the trajectory started last by the script
  reports,       \* history: how many results each trajectory has reported
  cut,           \* history: trajectories stopped with a result in hand
  timedOut,      \* history: trajectories that timed out
  mixed          \* history: with an orderly host, a trajectory took a point of another one

motion     == << control_mode, mover, vetting, freedrive >>
trajectory == << thread, num, active, result, wait >>
host       == << reverse, started, left, habit >>
reported   == << current, reports, cut >>
taken      == << timedOut, mixed >>
vars == << main, cmd, heard, motion, trajectory, silence, host, wire, reported, taken >>

Trajectories == 1 .. MaxTrajectories

\* An orderly host awaits a result before it starts another trajectory.  The points of a
\* late one take longer than the time the script waits for them.
Habits == {"orderly", "hasty", "late"}
punctual == habit # "late"

Modes == MotionModes \cup {"uninitialized", "idle", "trajectory", "freedrive", "stopped"}

Command(mode, action, points) == [mode |-> mode, action |-> action, points |-> points]
NoCommand == Command("uninitialized", "none", 0)

Commands ==
  {Command(m, "none", 0) : m \in {"idle", "stopped"} \cup (MotionModes \ {"servoj"})}
    \cup {Command(m, a, 0) : m \in MotionModes \cap {"servoj"}, a \in {"near", "far"}}
    \cup {Command("freedrive", a, 0) : a \in {"start", "end"}}
    \cup {Command("trajectory", a, 0) : a \in {"cancel", "noop"}}
    \cup {Command("trajectory", "start", n) : n \in 1 .. MaxPoints}

Starts(c) == c.mode = "trajectory" /\ c.action = "start"

Running == {"init", "loop", "got", "stopj", "inactive", "send"}
Drains  == {"drainSwitch", "drainCancel", "drainStart"}

Init ==
  /\ main = "read" /\ cmd = NoCommand /\ heard = FALSE
  /\ control_mode = "uninitialized" /\ mover = "none" /\ vetting = FALSE
  /\ freedrive = FALSE
  /\ thread = "none" /\ num = 0 /\ active = FALSE /\ result = "success" /\ wait = 0
  /\ silence = 0
  /\ reverse = NoCommand /\ wire = << >>
  /\ started = 0 /\ left = 0 /\ habit \in Habits
  /\ current = 0 /\ reports = [t \in Trajectories |-> 0] /\ cut = {}
  /\ timedOut = {} /\ mixed = FALSE

-----------------------------------------------------------------------------
(***************************************************************************)
(* The trajectory socket.                                                  *)
(***************************************************************************)
\* A read takes the oldest point.
TakesPoint ==
  /\ wire # << >>
  /\ wire' = Tail(wire)
  /\ mixed' = (mixed \/ (habit = "orderly" /\ Head(wire) # current))
  /\ UNCHANGED timedOut

\* No point within a step time: none was written, or it has not arrived yet.
FindsNone == (wire = << >> \/ ~punctual) /\ UNCHANGED << wire, mixed >>

Reports(t) == reports' = [reports EXCEPT ![t] = @ + 1]

-----------------------------------------------------------------------------
(***************************************************************************)
(* trajectoryThread() and runTrajectoryIteration().                        *)
(***************************************************************************)
ThreadGoto(from, to) == thread = from /\ thread' = to

TrajectoryBegins ==
  /\ ThreadGoto("init", "loop")
  /\ result' = "success" /\ wait' = 0
  /\ UNCHANGED << main, cmd, heard, motion, num, active, silence, host, wire, reported,
                  taken >>

TrajectoryReads == thread = "loop" /\ num > 0 /\ result = "success"

ReadsPoint ==
  /\ TrajectoryReads /\ TakesPoint
  /\ thread' = "got"
  /\ UNCHANGED << main, cmd, heard, motion, num, active, result, wait, silence, host,
                  reported >>

CountsPoint ==
  /\ ThreadGoto("got", "loop")
  /\ wait' = 0 /\ num' = num - 1
  /\ UNCHANGED << main, cmd, heard, motion, active, result, silence, host, wire, reported,
                  taken >>

\* Variant: the silence starts over with every read.
WaitsForever ==
  /\ TrajectoryReads /\ FindsNone
  /\ wait' = IF wait < Timeout THEN wait + 1 ELSE 0
  /\ UNCHANGED << main, cmd, heard, motion, thread, num, active, result, silence, host,
                  reported, timedOut >>

WaitsForPoint ==
  /\ TrajectoryReads /\ FindsNone
  /\ wait' = wait + 1
  /\ IF wait' > Timeout
       THEN result' = "failure" /\ timedOut' = timedOut \cup {current}
       ELSE UNCHANGED << result, timedOut >>
  /\ UNCHANGED << main, cmd, heard, motion, thread, num, active, silence, host, reported >>

TrajectoryLeavesLoop ==
  /\ thread = "loop" /\ (num = 0 \/ result = "failure")
  /\ thread' = IF result = "failure" THEN "stopj" ELSE "inactive"
  /\ UNCHANGED << main, cmd, heard, motion, num, active, result, wait, silence, host, wire,
                  reported, taken >>

\* Variant: the points that are left stay counted.
KeepsPoints ==
  /\ ThreadGoto("stopj", "inactive")
  /\ UNCHANGED << main, cmd, heard, motion, num, active, result, wait, silence, host, wire,
                  reported, taken >>

AbandonsPoints ==
  /\ ThreadGoto("stopj", "inactive")
  /\ num' = 0
  /\ UNCHANGED << main, cmd, heard, motion, active, result, wait, silence, host, wire,
                  reported, taken >>

\* Variant: the flag is not cleared.
StaysActive ==
  /\ ThreadGoto("inactive", "send")
  /\ UNCHANGED << main, cmd, heard, motion, num, active, result, wait, silence, host, wire,
                  reported, taken >>

TrajectoryInactive ==
  /\ ThreadGoto("inactive", "send")
  /\ active' = FALSE
  /\ UNCHANGED << main, cmd, heard, motion, num, result, wait, silence, host, wire,
                  reported, taken >>

TrajectoryReports ==
  /\ ThreadGoto("send", "none")
  /\ Reports(current)
  /\ UNCHANGED << main, cmd, heard, motion, num, active, result, wait, silence, host, wire,
                  current, cut, taken >>

TrajectoryThread ==
  \/ TrajectoryBegins \/ ReadsPoint \/ CountsPoint \/ WaitsForPoint
  \/ TrajectoryLeavesLoop \/ AbandonsPoints
  \/ TrajectoryInactive \/ TrajectoryReports

\* servoThread() and speedjThread() end by themselves when the mode is not theirs.
MoverEnds ==
  /\ mover # "none" /\ control_mode # mover
  /\ mover' = "none"
  /\ UNCHANGED << main, cmd, heard, control_mode, vetting, freedrive, trajectory, silence,
                  host, wire, reported, taken >>

-----------------------------------------------------------------------------
(***************************************************************************)
(* The main thread.                                                        *)
(***************************************************************************)
\* Where a command is done with, it is forgotten.
MainGoto(from, to) ==
  /\ main = from /\ main' = to
  /\ cmd' = IF to \in {"read", "shutdown", "ended"} THEN NoCommand ELSE cmd

ReadReverseCommand ==
  /\ reverse # NoCommand
  /\ main = "read"
  /\ main' = IF control_mode # reverse.mode THEN "switch" ELSE "apply"
  /\ cmd' = reverse /\ reverse' = NoCommand
  /\ heard' = TRUE
  /\ UNCHANGED << motion, trajectory, silence, started, left, habit, wire,
                  reported, taken >>

\* The script exits.  Nothing is cancelled, and the mode does not end its freedrive.
ReverseTimesOut ==
  /\ heard /\ reverse = NoCommand
  /\ MainGoto("read", "shutdown")
  /\ control_mode' = "stopped"
  /\ UNCHANGED << heard, mover, vetting, freedrive, trajectory, silence, host, wire,
                  reported, taken >>

\* Variant: the thread is left to end by itself.
KeepsThread ==
  /\ silence' = 0
  /\ UNCHANGED << thread, cut >>

\* stop_thread() of the trajectory thread, and the beginning of a drain.
StopTrajectoryThread ==
  /\ thread' = "none"
  /\ cut' = IF thread = "send" THEN cut \cup {current} ELSE cut
  /\ silence' = 0

\* Variant: a mode switch leaves the trajectory to end by itself.
SwitchLeavesTrajectory ==
  /\ MainGoto("switch", "enter")
  /\ control_mode = "trajectory"
  /\ UNCHANGED << heard, motion, trajectory, silence, host, wire, reported, taken >>

\* handleControlModeSwitch(): the outgoing mode is stopped first.
SwitchCancelsTrajectory ==
  /\ MainGoto("switch", "drainSwitch")
  /\ control_mode = "trajectory"
  /\ StopTrajectoryThread
  /\ UNCHANGED << heard, motion, num, active, result, wait, host, wire, current,
                  reports, taken >>

SwitchStopsMotion ==
  /\ MainGoto("switch", "enter")
  /\ control_mode # "trajectory"
  /\ IF control_mode = "freedrive"
       THEN freedrive' = FALSE /\ UNCHANGED mover
       ELSE mover' = "none" /\ UNCHANGED freedrive
  /\ UNCHANGED << heard, control_mode, vetting, trajectory, silence, host, wire,
                  reported, taken >>

\* Then the new one is entered, and the first servoj target of a session is vetted.
SwitchEnters ==
  /\ MainGoto("enter", "apply")
  /\ control_mode' = cmd.mode
  /\ mover' = IF cmd.mode \in MotionModes THEN cmd.mode ELSE mover
  /\ vetting' = (vetting \/ cmd.mode = "servoj")
  /\ UNCHANGED << heard, freedrive, trajectory, silence, host, wire, reported, taken >>

\* applyModeCommand(), mode by mode.
ApplyServoTarget ==
  /\ control_mode = "servoj"
  /\ vetting => cmd.action = "near"
  /\ MainGoto("apply", "read")
  /\ vetting' = FALSE
  /\ UNCHANGED << heard, control_mode, mover, freedrive, trajectory, silence, host,
                  wire, reported, taken >>

\* halt() ends every thread.
HaltOnServoTarget ==
  /\ control_mode = "servoj"
  /\ vetting /\ cmd.action = "far"
  /\ MainGoto("apply", "ended")
  /\ mover' = "none" /\ thread' = "none"
  /\ UNCHANGED << heard, control_mode, vetting, freedrive, num, active, result, wait,
                  silence, host, wire, reported, taken >>

ApplyFreedrive ==
  /\ control_mode = "freedrive"
  /\ MainGoto("apply", "read")
  /\ freedrive' = IF cmd.action = "start" THEN TRUE
                  ELSE IF cmd.action = "end" THEN FALSE ELSE freedrive
  /\ UNCHANGED << heard, control_mode, mover, vetting, trajectory, silence, host, wire,
                  reported, taken >>

ApplyTrajectoryAction ==
  /\ control_mode = "trajectory" /\ cmd.action \in {"start", "cancel"}
  /\ MainGoto("apply", IF cmd.action = "start" THEN "drainStart" ELSE "drainCancel")
  /\ StopTrajectoryThread
  /\ UNCHANGED << heard, motion, num, active, result, wait, host, wire, current,
                  reports, taken >>

ApplyNothing ==
  /\ \/ control_mode \in {"idle", "speedj", "speedl", "stopped"}
     \/ control_mode = "trajectory" /\ cmd.action = "noop"
  /\ MainGoto("apply", IF control_mode = "stopped" THEN "shutdown" ELSE "read")
  /\ UNCHANGED << heard, motion, trajectory, silence, host, wire, reported, taken >>

\* trajectoryClearPoints().
DrainsPoint ==
  /\ main \in Drains /\ num > 0
  /\ TakesPoint
  /\ num' = num - 1 /\ silence' = 0
  /\ UNCHANGED << main, cmd, heard, motion, thread, active, result, wait, host, reported >>

\* Variant: the drain waits for every point.
DrainWaitsForever ==
  /\ main \in Drains /\ num > 0
  /\ FindsNone
  /\ silence' = Timeout
  /\ UNCHANGED << main, cmd, heard, motion, trajectory, host, reported, timedOut >>

DrainWaits ==
  /\ main \in Drains /\ num > 0
  /\ FindsNone
  /\ IF silence + 1 > Timeout
       THEN num' = 0 /\ UNCHANGED silence
       ELSE silence' = silence + 1 /\ UNCHANGED num
  /\ UNCHANGED << main, cmd, heard, motion, thread, active, result, wait, host, reported,
                  timedOut >>

\* The end of cancelTrajectory(): a trajectory that still ran is reported.
CancelReports ==
  /\ \/ MainGoto("drainCancel", "read")
     \/ MainGoto("drainSwitch", "enter")
  /\ num = 0
  /\ active' = FALSE
  /\ IF active THEN Reports(current) ELSE UNCHANGED reports
  /\ UNCHANGED << heard, motion, thread, num, result, wait, silence, host, wire,
                  current, cut, taken >>

\* The end of a START: a trajectory that still ran has no result.
StartTrajectory ==
  /\ MainGoto("drainStart", "read")
  /\ num = 0
  /\ num' = cmd.points
  /\ active' = TRUE /\ thread' = "init"
  /\ current' = current + 1
  /\ UNCHANGED << heard, motion, result, wait, silence, host, wire, reports, cut,
                  taken >>

\* shutdownControlThreads().
Shutdown ==
  /\ MainGoto("shutdown", "ended")
  /\ mover' = "none" /\ thread' = "none"
  /\ UNCHANGED << heard, control_mode, vetting, freedrive, num, active, result, wait,
                  silence, host, wire, reported, taken >>

MainLoop ==
  \/ ReadReverseCommand
  \/ SwitchCancelsTrajectory \/ SwitchStopsMotion \/ SwitchEnters
  \/ ApplyServoTarget \/ HaltOnServoTarget \/ ApplyFreedrive
  \/ ApplyTrajectoryAction \/ ApplyNothing
  \/ DrainsPoint \/ DrainWaits \/ CancelReports \/ StartTrajectory \/ Shutdown

-----------------------------------------------------------------------------
(***************************************************************************)
(* The host.                                                               *)
(***************************************************************************)
MayStart ==
  /\ started < MaxTrajectories
  /\ habit = "orderly" /\ started > 0 => reports[started] > 0

\* A host that asks for something else than the trajectory writes no more of its points.
HostCommands ==
  /\ reverse = NoCommand /\ main # "ended"
  /\ \E c \in Commands :
       /\ Starts(c) => MayStart
       /\ reverse' = c
       /\ IF Starts(c)
            THEN started' = started + 1 /\ left' = c.points
            ELSE /\ UNCHANGED started
                 /\ left' = IF c.mode = "trajectory" /\ c.action = "noop" THEN left ELSE 0
  /\ UNCHANGED << main, cmd, heard, motion, trajectory, silence, wire, habit,
                  reported, taken >>

HostWritesPoint ==
  /\ left > 0
  /\ punctual => started \notin timedOut
  /\ wire' = Append(wire, started) /\ left' = left - 1
  /\ UNCHANGED << main, cmd, heard, motion, trajectory, silence, reverse, started, habit,
                  reported, taken >>

Host == HostCommands \/ HostWritesPoint

Next == TrajectoryThread \/ MoverEnds \/ MainLoop \/ ReverseTimesOut \/ Host

\* The two threads are scheduled.  Nothing is assumed of the host.
Fairness == WF_vars(TrajectoryThread) /\ WF_vars(MainLoop)

Safety == Init /\ [][Next]_vars
Spec == Safety /\ Fairness

-----------------------------------------------------------------------------
(***************************************************************************)
(* Properties.                                                             *)
(***************************************************************************)
FlagsOK ==
  /\ heard \in BOOLEAN /\ vetting \in BOOLEAN /\ freedrive \in BOOLEAN
  /\ active \in BOOLEAN
  /\ mixed \in BOOLEAN

TypeOK ==
  /\ main \in {"read", "switch", "enter", "apply", "shutdown", "ended"} \cup Drains
  /\ cmd \in Commands \cup {NoCommand} /\ reverse \in Commands \cup {NoCommand}
  /\ control_mode \in Modes
  /\ mover \in MotionModes \cup {"none"}
  /\ thread \in Running \cup {"none"}
  /\ num \in Nat /\ result \in {"success", "failure"} /\ wait \in Nat /\ silence \in Nat
  /\ wire \in Seq(Trajectories)
  /\ habit \in Habits /\ started \in 0 .. MaxTrajectories /\ left \in Nat
  /\ current \in 0 .. MaxTrajectories
  /\ reports \in [Trajectories -> Nat]
  /\ cut \subseteq Trajectories /\ timedOut \subseteq Trajectories

\* Two things never move the arm at once: a servo or speed thread, the trajectory thread,
\* a freedrive.  And none of the threads does when the script has ended.
OneMotion ==
  /\ ~(mover # "none" /\ thread # "none")
  /\ freedrive => mover = "none" /\ thread = "none"
  /\ main = "ended" => mover = "none" /\ thread = "none"

\* What moves the arm belongs to the mode, and is stopped before another mode is entered.
MotionInv ==
  /\ OneMotion
  /\ mover # "none" => control_mode = mover \/ main = "shutdown"
  /\ thread # "none" => control_mode = "trajectory" \/ main = "shutdown"
  /\ freedrive => control_mode = "freedrive" \/ main \in {"shutdown", "ended"}
  /\ main = "enter" => mover = "none" /\ thread = "none" /\ ~freedrive
  /\ main \in Drains => control_mode = "trajectory" /\ thread = "none"
  /\ main = "apply" => cmd.mode = control_mode

\* The host can count on a result: a trajectory reports at most one, and one that is over
\* and was not replaced by another has reported it, unless it was stopped between the two
\* statements that clear the flag and send the result, or the script ended under it.
OneResult ==
  /\ \A t \in Trajectories : reports[t] <= 1
  /\ current > 0 /\ ~active /\ thread = "none" /\ main # "ended" =>
       reports[current] = 1 \/ current \in cut

\* The flag says that the result is still owed, and every START is answered once.
Pending(c) == IF Starts(c) THEN 1 ELSE 0

ReportInv ==
  /\ OneResult
  /\ active \/ thread # "none" => current > 0 /\ reports[current] = 0
  /\ thread \notin {"none", "send"} => active
  /\ thread = "send" => ~active
  /\ thread = "got" => num > 0
  /\ \A t \in Trajectories : t > current => reports[t] = 0
  /\ current + Pending(cmd) + Pending(reverse) <= started
  /\ left > 0 => started > 0
  /\ main = "drainStart" => Starts(cmd)

\* The inductive invariant of the script.
ScriptInv == FlagsOK /\ TypeOK /\ MotionInv /\ ReportInv

\* With a host that awaits results and writes its points in time, each trajectory runs and
\* drains its own points only, however it ends.
OwnPoints == ~mixed

\* Why: all points in sight are those of the trajectory the host started last, and while the
\* script runs it they are no more than the script still counts.  Once it has reported there
\* are none, unless it timed out, and then they are not written any more.
Unread == Len(wire) + left

\* Commands after which the host writes no point.
Quits(c) == c # NoCommand /\ ~(c.mode = "trajectory" /\ c.action \in {"start", "noop"})

CountInv ==
  /\ current \in timedOut => wire = << >>
  /\ current \notin timedOut => Unread <= (IF thread = "got" THEN num - 1 ELSE num)
  /\ Quits(cmd) => left = 0

AwaitedInv ==
  /\ current > 0 => reports[current] = 1
  /\ main # "ended" => \E c \in {cmd, reverse} : Starts(c) /\ Unread <= c.points

PointsInv ==
  /\ OwnPoints
  /\ \A t \in timedOut : t <= current
  /\ main \in {"read", "shutdown"} => cmd = NoCommand
  /\ main = "switch" => cmd # NoCommand /\ cmd.mode # control_mode
  /\ main \in {"drainSwitch", "drainCancel"} => Quits(cmd)
  /\ Quits(reverse) => left = 0
  /\ thread \in {"inactive", "send"} => num = 0
  /\ thread = "stopj" \/ (thread \in {"loop", "got"} /\ result = "failure") => current \in timedOut
  /\ current > 0 /\ reports[current] = 1 => num = 0
  /\ current = 0 => num = 0
  /\ habit = "orderly" =>
       /\ \A i \in DOMAIN wire : wire[i] = started
       /\ \/ started = current /\ CountInv
          \/ started = current + 1 /\ AwaitedInv

\* The main loop never blocks forever on a missing point.
LoopReturns == main \notin {"read", "ended"} ~> main \in {"read", "ended"}

\* A trajectory whose points do not come is over sooner or later.
TrajectoryEnds == active ~> ~active \/ main = "ended"
=============================================================================
