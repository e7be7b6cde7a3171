--------------------- MODULE ExternalControlScriptProofs ---------------------
(***************************************************************************)
(* ScriptInv is an inductive invariant of ExternalControlScript, for every *)
(* timeout, every set of motion modes and any number of trajectories and   *)
(* points.                                                                 *)
(***************************************************************************)
EXTENDS ExternalControlScript, TLAPS

\* The fields of what arrives on the reverse socket.
LEMMA CommandFields ==
  ASSUME NEW c \in Commands \cup {NoCommand}
  PROVE  /\ c.mode \in Modes /\ c.points \in Nat
         /\ Pending(c) \in {0, 1}
BY BoundsAssumption DEF Commands, NoCommand, Command, Modes, Pending

LEMMA NothingPending == ~Starts(NoCommand) /\ Pending(NoCommand) = 0
BY DEF NoCommand, Command, Starts, Pending

\* The booleans keep their type in every step.
LEMMA FlagsPreserved == FlagsOK /\ [Next]_vars => FlagsOK'
<1> SUFFICES ASSUME FlagsOK, [Next]_vars PROVE FlagsOK'
  OBVIOUS
<1> USE DEF FlagsOK, vars, motion, trajectory, host, reported, taken
<1>1. CASE TrajectoryThread
  <2>1. CASE ReadsPoint
    BY <2>1, Zenon DEF ReadsPoint, TakesPoint
  <2>2. CASE WaitsForPoint
    BY <2>2, Zenon DEF WaitsForPoint, FindsNone
  <2>3. CASE TrajectoryInactive
    BY <2>3, Zenon DEF TrajectoryInactive
  <2>4. CASE \/ TrajectoryBegins \/ CountsPoint \/ TrajectoryLeavesLoop
             \/ AbandonsPoints \/ TrajectoryReports
    BY <2>4, Zenon DEF TrajectoryBegins, CountsPoint, TrajectoryLeavesLoop, AbandonsPoints,
                       TrajectoryReports
  <2> QED
    BY <1>1, <2>1, <2>2, <2>3, <2>4 DEF TrajectoryThread
<1>2. CASE MoverEnds
  BY <1>2, Zenon DEF MoverEnds
<1>3. CASE MainLoop
  <2>1. CASE ReadReverseCommand
    BY <2>1, Zenon DEF ReadReverseCommand
  <2>2. CASE SwitchCancelsTrajectory
    BY <2>2, Zenon DEF SwitchCancelsTrajectory
  <2>3. CASE SwitchStopsMotion
    <3>1. freedrive' \in {FALSE, freedrive}
      BY <2>3, Zenon DEF SwitchStopsMotion
    <3> QED
      BY <2>3, <3>1, Zenon DEF SwitchStopsMotion
  <2>4. CASE SwitchEnters
    BY <2>4, Zenon DEF SwitchEnters
  <2>5. CASE ApplyServoTarget
    BY <2>5, Zenon DEF ApplyServoTarget
  <2>6. CASE HaltOnServoTarget
    BY <2>6, Zenon DEF HaltOnServoTarget
  <2>7. CASE ApplyFreedrive
    <3>1. freedrive' \in {TRUE, FALSE, freedrive}
      BY <2>7, Zenon DEF ApplyFreedrive
    <3> QED
      BY <2>7, <3>1, Zenon DEF ApplyFreedrive
  <2>8. CASE ApplyTrajectoryAction \/ ApplyNothing
    BY <2>8, Zenon DEF ApplyTrajectoryAction, ApplyNothing
  <2>9. CASE DrainsPoint
    BY <2>9, Zenon DEF DrainsPoint, TakesPoint
  <2>10. CASE DrainWaits
    BY <2>10, Zenon DEF DrainWaits, FindsNone
  <2>11. CASE CancelReports
    BY <2>11, Zenon DEF CancelReports
  <2>12. CASE StartTrajectory \/ Shutdown
    BY <2>12, Zenon DEF StartTrajectory, Shutdown
  <2> QED
    BY <1>3, <2>1, <2>2, <2>3, <2>4, <2>5, <2>6, <2>7, <2>8, <2>9, <2>10, <2>11, <2>12
    DEF MainLoop
<1>4. CASE ReverseTimesOut
  BY <1>4, Zenon DEF ReverseTimesOut
<1>5. CASE Host
  BY <1>5, Zenon DEF Host, HostCommands, HostWritesPoint
<1>6. CASE UNCHANGED vars
  BY <1>6, Zenon
<1> QED
  BY <1>1, <1>2, <1>3, <1>4, <1>5, <1>6 DEF Next

\* The types survive every step.
LEMMA TypesPreserved == ScriptInv /\ [Next]_vars => TypeOK'
<1> SUFFICES ASSUME ScriptInv, [Next]_vars PROVE TypeOK'
  OBVIOUS
<1> USE BoundsAssumption, TimeoutAssumption
    DEF ScriptInv, TypeOK, vars, motion, trajectory, host, reported, taken, Trajectories,
        Running, Drains
<1>1. current < MaxTrajectories \/ ~Starts(cmd)
  BY CommandFields DEF ReportInv, Pending
<1>2. active \/ thread # "none" => current \in Trajectories
  BY DEF ReportInv
<1>3. CASE TrajectoryThread
  <2>1. CASE ReadsPoint
    BY <2>1 DEF ReadsPoint, TrajectoryReads, TakesPoint
  <2>2. CASE WaitsForPoint
    <3>1. /\ timedOut' \in {timedOut, timedOut \cup {current}}
          /\ result' \in {result, "failure"}
      BY <2>2 DEF WaitsForPoint
    <3>2. timedOut' \subseteq Trajectories
      BY <1>2, <2>2, <3>1 DEF WaitsForPoint, TrajectoryReads
    <3> QED
      BY <2>2, <3>1, <3>2 DEF WaitsForPoint, FindsNone
  <2>3. CASE CountsPoint
    BY <2>3 DEF CountsPoint, ThreadGoto, ReportInv
  <2>4. CASE TrajectoryReports
    BY <1>2, <2>4 DEF TrajectoryReports, ThreadGoto, Reports
  <2>5. CASE TrajectoryBegins
    BY <2>5 DEF TrajectoryBegins, ThreadGoto
  <2>6. CASE TrajectoryLeavesLoop
    BY <2>6 DEF TrajectoryLeavesLoop
  <2>7. CASE AbandonsPoints
    BY <2>7 DEF AbandonsPoints, ThreadGoto
  <2>8. CASE TrajectoryInactive
    BY <2>8 DEF TrajectoryInactive, ThreadGoto
  <2> QED
    BY <1>3, <2>1, <2>2, <2>3, <2>4, <2>5, <2>6, <2>7, <2>8 DEF TrajectoryThread
<1>4. CASE MoverEnds
  BY <1>4 DEF MoverEnds
<1>5. CASE MainLoop
  <2>1. CASE ReadReverseCommand
    BY <2>1 DEF ReadReverseCommand
  <2>2. CASE SwitchCancelsTrajectory \/ ApplyTrajectoryAction
    <3>1. /\ cut' \subseteq Trajectories /\ thread' = "none" /\ silence' = 0
          /\ main' \in Drains /\ cmd' = cmd
      BY <1>2, <2>2 DEF SwitchCancelsTrajectory, ApplyTrajectoryAction,
                        StopTrajectoryThread, MainGoto
    <3> QED
      BY <2>2, <3>1 DEF SwitchCancelsTrajectory, ApplyTrajectoryAction
  <2>3. CASE SwitchStopsMotion \/ ApplyServoTarget \/ ApplyFreedrive \/ ApplyNothing
    BY <2>3 DEF SwitchStopsMotion, ApplyServoTarget, ApplyFreedrive, ApplyNothing, MainGoto
  <2>4. CASE SwitchEnters
    BY <2>4, CommandFields DEF SwitchEnters, MainGoto
  <2>5. CASE HaltOnServoTarget \/ Shutdown
    BY <2>5 DEF HaltOnServoTarget, Shutdown, MainGoto
  <2>6. CASE DrainsPoint
    BY <2>6 DEF DrainsPoint, TakesPoint
  <2>7. CASE DrainWaits
    BY <2>7 DEF DrainWaits, FindsNone
  <2>8. CASE CancelReports
    <3>1. main' \in {"read", "enter"} /\ cmd' \in {cmd, NoCommand}
      BY <2>8 DEF CancelReports, MainGoto
    <3>2. reports' \in [Trajectories -> Nat]
      <4>1. CASE active
        <5>1. reports' = [reports EXCEPT ![current] = @ + 1]
          BY <2>8, <4>1, Zenon DEF CancelReports, Reports
        <5> QED
          BY <1>2, <4>1, <5>1
      <4>2. CASE ~active
        <5>1. reports' = reports
          BY <2>8, <4>2, Zenon DEF CancelReports
        <5> QED
          BY <5>1
      <4> QED
        BY <4>1, <4>2
    <3> QED
      BY <2>8, <3>1, <3>2 DEF CancelReports
  <2>9. CASE StartTrajectory
    BY <1>1, <2>9, CommandFields DEF StartTrajectory, MainGoto, ReportInv
  <2> QED
    BY <1>5, <2>1, <2>2, <2>3, <2>4, <2>5, <2>6, <2>7, <2>8, <2>9 DEF MainLoop
<1>6. CASE ReverseTimesOut
  BY <1>6 DEF ReverseTimesOut, MainGoto, Modes
<1>7. CASE Host
  <2>1. CASE HostCommands
    <3>1. PICK c \in Commands :
            /\ reverse' = c
            /\ Starts(c) => MayStart
            /\ IF Starts(c) THEN started' = started + 1 /\ left' = c.points
               ELSE started' = started /\ left' \in {0, left}
      BY <2>1 DEF HostCommands
    <3>2. started' \in 0 .. MaxTrajectories /\ left' \in Nat
      BY <3>1, CommandFields DEF MayStart
    <3> QED
      BY <2>1, <3>1, <3>2 DEF HostCommands
  <2>2. CASE HostWritesPoint
    <3>1. started \in Trajectories
      BY <2>2 DEF HostWritesPoint, ReportInv
    <3> QED
      BY <2>2, <3>1 DEF HostWritesPoint
  <2> QED
    BY <1>7, <2>1, <2>2 DEF Host
<1>8. CASE UNCHANGED vars
  BY <1>8
<1> QED
  BY <1>3, <1>4, <1>5, <1>6, <1>7, <1>8 DEF Next

\* Nothing that moves the arm outlives its mode.
LEMMA MotionPreserved == ScriptInv /\ [Next]_vars => MotionInv'
<1> SUFFICES ASSUME ScriptInv, [Next]_vars PROVE MotionInv'
  OBVIOUS
<1> USE DEF ScriptInv, TypeOK, MotionInv, OneMotion, vars, motion, trajectory, host,
            reported, taken, Drains, Running
<1>1. "none" \notin MotionModes /\ "trajectory" \notin MotionModes
      /\ "freedrive" \notin MotionModes /\ "stopped" \notin MotionModes
  BY ModesAssumption
<1>2. CASE TrajectoryThread
  <2>1. thread # "none" /\ UNCHANGED << main, cmd, motion >>
    <3>1. UNCHANGED << main, cmd, motion >>
      BY <1>2, Zenon DEF TrajectoryThread, TrajectoryBegins, ReadsPoint, CountsPoint,
                         WaitsForPoint, TrajectoryLeavesLoop, AbandonsPoints,
                         TrajectoryInactive, TrajectoryReports
    <3>2. thread \in Running
      BY <1>2, Zenon DEF TrajectoryThread, TrajectoryBegins, ReadsPoint, TrajectoryReads,
                         CountsPoint, WaitsForPoint, TrajectoryLeavesLoop, AbandonsPoints,
                         TrajectoryInactive, TrajectoryReports, ThreadGoto
    <3> QED
      BY <3>1, <3>2
  <2> QED
    BY <2>1
<1>3. CASE MoverEnds
  BY <1>3 DEF MoverEnds
<1>4. CASE MainLoop
  <2>1. CASE ReadReverseCommand
    BY <2>1 DEF ReadReverseCommand
  <2>2. CASE SwitchCancelsTrajectory
    BY <2>2 DEF SwitchCancelsTrajectory, StopTrajectoryThread, MainGoto
  <2>3. CASE SwitchStopsMotion
    BY <1>1, <2>3 DEF SwitchStopsMotion, MainGoto
  <2>4. CASE SwitchEnters
    BY <1>1, <2>4 DEF SwitchEnters, MainGoto
  <2>5. CASE ApplyServoTarget
    BY <2>5 DEF ApplyServoTarget, MainGoto
  <2>6. CASE HaltOnServoTarget
    BY <2>6 DEF HaltOnServoTarget, MainGoto
  <2>7. CASE ApplyFreedrive
    BY <1>1, <2>7 DEF ApplyFreedrive, MainGoto
  <2>8. CASE ApplyTrajectoryAction
    BY <2>8 DEF ApplyTrajectoryAction, StopTrajectoryThread, MainGoto
  <2>9. CASE ApplyNothing
    BY <2>9 DEF ApplyNothing, MainGoto
  <2>10. CASE DrainsPoint \/ DrainWaits
    BY <2>10 DEF DrainsPoint, DrainWaits
  <2>11. CASE CancelReports
    BY <1>1, <2>11 DEF CancelReports, MainGoto
  <2>12. CASE StartTrajectory
    BY <1>1, <2>12 DEF StartTrajectory, MainGoto
  <2>13. CASE Shutdown
    BY <2>13 DEF Shutdown, MainGoto
  <2> QED
    BY <1>4, <2>1, <2>2, <2>3, <2>4, <2>5, <2>6, <2>7, <2>8, <2>9, <2>10, <2>11, <2>12,
       <2>13
    DEF MainLoop
<1>5. CASE ReverseTimesOut
  BY <1>5 DEF ReverseTimesOut, MainGoto
<1>6. CASE Host
  BY <1>6 DEF Host, HostCommands, HostWritesPoint
<1>7. CASE UNCHANGED vars
  BY <1>7
<1> QED
  BY <1>2, <1>3, <1>4, <1>5, <1>6, <1>7 DEF Next

\* What a thread that runs, or a drain, does to the results owed.
LEMMA ThreadReports == ScriptInv /\ (TrajectoryThread \/ MoverEnds) => ReportInv'
<1> SUFFICES ASSUME ScriptInv, TrajectoryThread \/ MoverEnds PROVE ReportInv'
  OBVIOUS
<1> USE DEF ScriptInv, TypeOK, ReportInv, OneResult, motion, trajectory, host, reported,
            taken, Trajectories
<1>1. CASE TrajectoryBegins
  BY <1>1 DEF TrajectoryBegins, ThreadGoto
<1>2. CASE ReadsPoint
  BY <1>2 DEF ReadsPoint, TrajectoryReads
<1>3. CASE CountsPoint
  BY <1>3 DEF CountsPoint, ThreadGoto
<1>4. CASE WaitsForPoint
  BY <1>4 DEF WaitsForPoint, TrajectoryReads
<1>5. CASE TrajectoryLeavesLoop
  BY <1>5 DEF TrajectoryLeavesLoop
<1>6. CASE AbandonsPoints
  BY <1>6 DEF AbandonsPoints, ThreadGoto
<1>7. CASE TrajectoryInactive
  BY <1>7 DEF TrajectoryInactive, ThreadGoto
<1>8. CASE TrajectoryReports
  BY <1>8 DEF TrajectoryReports, ThreadGoto, Reports
<1>9. CASE MoverEnds
  BY <1>9 DEF MoverEnds
<1> QED
  BY <1>1, <1>2, <1>3, <1>4, <1>5, <1>6, <1>7, <1>8, <1>9 DEF TrajectoryThread

LEMMA MainReports == ScriptInv /\ (MainLoop \/ ReverseTimesOut) => ReportInv'
<1> SUFFICES ASSUME ScriptInv, MainLoop \/ ReverseTimesOut PROVE ReportInv'
  OBVIOUS
<1> USE NothingPending
    DEF ScriptInv, TypeOK, ReportInv, OneResult, motion, trajectory, host, reported, taken,
        Trajectories
<1>1. /\ Pending(cmd) \in {0, 1} /\ Pending(reverse) \in {0, 1}
      /\ Starts(cmd) => Pending(cmd) = 1
  BY CommandFields DEF Pending
<1>2. CASE ReadReverseCommand
  <2>1. main = "read" /\ cmd' = reverse /\ reverse' = NoCommand
    BY <1>2 DEF ReadReverseCommand
  <2>2. Pending(cmd') = Pending(reverse) /\ Pending(reverse') = 0
    BY <2>1
  <2> QED
    BY <1>1, <1>2, <2>2 DEF ReadReverseCommand
<1>3. CASE \/ SwitchStopsMotion \/ SwitchEnters \/ ApplyServoTarget \/ ApplyFreedrive
           \/ ApplyNothing \/ ReverseTimesOut
  <2>1. /\ cmd' \in {cmd, NoCommand} /\ main' # "drainStart"
        /\ main # "ended" /\ UNCHANGED << reported, trajectory, reverse, started, left >>
    BY <1>3, Zenon DEF SwitchStopsMotion, SwitchEnters, ApplyServoTarget, ApplyFreedrive,
                       ApplyNothing, ReverseTimesOut, MainGoto
  <2>2. Pending(cmd') <= Pending(cmd) /\ Pending(reverse') = Pending(reverse)
    BY <1>1, <2>1
  <2> QED
    BY <1>1, <2>1, <2>2
<1>4. CASE SwitchCancelsTrajectory
  BY <1>4 DEF SwitchCancelsTrajectory, StopTrajectoryThread, MainGoto
<1>5. CASE ApplyTrajectoryAction
  BY <1>5 DEF ApplyTrajectoryAction, StopTrajectoryThread, MainGoto, MotionInv, Starts
<1>6. CASE HaltOnServoTarget \/ Shutdown
  <2>1. /\ cmd' = NoCommand /\ main' = "ended" /\ thread' = "none"
        /\ UNCHANGED << reported, num, active, reverse, started, left >>
    BY <1>6, Zenon DEF HaltOnServoTarget, Shutdown, MainGoto
  <2>2. Pending(cmd') = 0 /\ Pending(reverse') = Pending(reverse)
    BY <2>1
  <2> QED
    BY <1>1, <2>1, <2>2
<1>7. CASE DrainsPoint
  BY <1>7 DEF DrainsPoint, MotionInv
<1>8. CASE DrainWaits
  BY <1>8 DEF DrainWaits, MotionInv
<1>9. CASE CancelReports
  <2>1. /\ cmd' \in {cmd, NoCommand} /\ main' # "drainStart"
        /\ main # "ended" /\ thread = "none" /\ active' = FALSE
        /\ UNCHANGED << current, cut, thread, num, reverse, started, left >>
    BY <1>9 DEF CancelReports, MainGoto, MotionInv, Drains
  <2>2. Pending(cmd') <= Pending(cmd) /\ Pending(reverse') = Pending(reverse)
    BY <1>1, <2>1
  <2>3. CASE active
    <3>1. reports' = [reports EXCEPT ![current] = @ + 1]
      BY <1>9, <2>3, Zenon DEF CancelReports, Reports
    <3> QED
      BY <1>1, <2>1, <2>2, <2>3, <3>1
  <2>4. CASE ~active
    <3>1. reports' = reports
      BY <1>9, <2>4, Zenon DEF CancelReports
    <3> QED
      BY <1>1, <2>1, <2>2, <2>4, <3>1
  <2> QED
    BY <2>3, <2>4
<1>10. CASE StartTrajectory
  <2>1. /\ cmd' = NoCommand /\ main = "drainStart" /\ main' = "read"
        /\ thread' = "init" /\ active' = TRUE /\ current' = current + 1
        /\ UNCHANGED << reports, cut, reverse, started, left >>
    BY <1>10 DEF StartTrajectory, MainGoto
  <2>2. Pending(cmd) = 1 /\ Pending(cmd') = 0 /\ Pending(reverse') = Pending(reverse)
    BY <1>1, <2>1
  <2>3. current + 1 \in Trajectories /\ reports[current + 1] = 0
    <3>1. /\ current \in Nat /\ started \in Nat /\ started <= MaxTrajectories
          /\ MaxTrajectories \in Nat /\ current + Pending(cmd) + Pending(reverse) <= started
      BY BoundsAssumption
    <3>2. current + 1 \in 1 .. MaxTrajectories
      BY <1>1, <2>2, <3>1
    <3> QED
      BY <3>1, <3>2
  <2> QED
    BY <1>1, <2>1, <2>2, <2>3
<1> QED
  BY <1>2, <1>3, <1>4, <1>5, <1>6, <1>7, <1>8, <1>9, <1>10 DEF MainLoop

LEMMA HostReports == ScriptInv /\ Host => ReportInv'
<1> SUFFICES ASSUME ScriptInv, Host PROVE ReportInv'
  OBVIOUS
<1> USE NothingPending
    DEF ScriptInv, TypeOK, ReportInv, OneResult, motion, trajectory, host, reported, taken,
        Trajectories
<1>1. CASE HostCommands
  <2>1. /\ reverse = NoCommand
        /\ UNCHANGED << main, cmd, reported, active, thread, num >>
    BY <1>1 DEF HostCommands
  <2>2. PICK c \in Commands :
          /\ reverse' = c
          /\ IF Starts(c) THEN started' = started + 1
             ELSE started' = started /\ left' \in {0, left}
    BY <1>1 DEF HostCommands
  <2>3. /\ Pending(cmd') = Pending(cmd) /\ Pending(cmd) \in {0, 1}
        /\ Pending(reverse) = 0 /\ Pending(reverse') = Pending(c)
    BY <2>1, <2>2, CommandFields
  <2>4. CASE Starts(c)
    <3>1. Pending(c) = 1 /\ started' = started + 1
      BY <2>2, <2>4 DEF Pending
    <3> QED
      BY <2>1, <2>3, <3>1
  <2>5. CASE ~Starts(c)
    <3>1. Pending(c) = 0 /\ started' = started /\ left' \in {0, left}
      BY <2>2, <2>5 DEF Pending
    <3> QED
      BY <2>1, <2>3, <3>1
  <2> QED
    BY <2>4, <2>5
<1>2. CASE HostWritesPoint
  BY <1>2 DEF HostWritesPoint
<1> QED
  BY <1>1, <1>2 DEF Host

\* The inductive invariant of the script, whatever the host does and in whatever order the
\* threads take their steps.
THEOREM ScriptInvariant == Spec => []ScriptInv
<1>1. Init => ScriptInv
  <2> SUFFICES ASSUME Init PROVE ScriptInv
    OBVIOUS
  <2>1. FlagsOK
    BY Zenon DEF Init, FlagsOK
  <2>2. TypeOK
    BY BoundsAssumption DEF Init, TypeOK, Modes, Running, Trajectories
  <2>3. MotionInv
    BY DEF Init, MotionInv, OneMotion, Drains
  <2>4. ReportInv
    BY NothingPending, BoundsAssumption DEF Init, ReportInv, OneResult, Trajectories
  <2> QED
    BY <2>1, <2>2, <2>3, <2>4 DEF ScriptInv
<1>2. ScriptInv /\ [Next]_vars => ScriptInv'
  <2> SUFFICES ASSUME ScriptInv, [Next]_vars PROVE ScriptInv'
    OBVIOUS
  <2>1. FlagsOK' /\ TypeOK' /\ MotionInv'
    BY FlagsPreserved, TypesPreserved, MotionPreserved DEF ScriptInv
  <2>2. ReportInv'
    <3>1. CASE UNCHANGED vars
      BY <3>1 DEF ScriptInv, ReportInv, OneResult, Pending, vars, trajectory, host, reported
    <3> QED
      BY <3>1, ThreadReports, MainReports, HostReports DEF Next
  <2> QED
    BY <2>1, <2>2 DEF ScriptInv
<1> QED
  BY <1>1, <1>2, PTL DEF Spec, Safety

\* Servo or speed thread, trajectory thread and freedrive never move the arm together, and
\* no thread survives the script.
THEOREM OneMotionAtATime == Spec => []OneMotion
<1>1. ScriptInv => OneMotion
  BY DEF ScriptInv, MotionInv
<1> QED
  BY <1>1, ScriptInvariant, PTL

\* No trajectory reports two results, and none is over without one, but for the two cases
\* that the comment on trajectoryThread() concedes.
THEOREM OneResultEach == Spec => []OneResult
<1>1. ScriptInv => OneResult
  BY DEF ScriptInv, ReportInv
<1> QED
  BY <1>1, ScriptInvariant, PTL

-----------------------------------------------------------------------------
\* Points, with a host that awaits results and writes its points in time.
LEMMA Asked ==
  /\ ~Quits(NoCommand) /\ ~Starts(NoCommand)
  /\ \A c : Starts(c) => ~Quits(c)
BY DEF Quits, Starts, NoCommand, Command

\* Whoever takes a point, the host has written it for the trajectory the script is at.
LEMMA TakenIsOwn ==
  ASSUME ScriptInv, PointsInv, TakesPoint, num > 0
  PROVE  /\ mixed' = FALSE
         /\ Len(wire') = Len(wire) - 1
         /\ habit = "orderly" => /\ started = current
                                 /\ \A i \in DOMAIN wire' : wire'[i] = started
<1> USE DEF ScriptInv, TypeOK
<1>1. /\ wire \in Seq(Trajectories) /\ wire # << >> /\ wire' = Tail(wire)
      /\ Len(wire) \in Nat \ {0} /\ Len(wire') = Len(wire) - 1
  BY DEF TakesPoint
<1>2. ASSUME habit = "orderly" PROVE started = current
  <2>1. current = 0 \/ reports[current] = 1 => num = 0
    BY DEF PointsInv
  <2>2. current \in Nat
    OBVIOUS
  <2> QED
    BY <1>2, <2>1, <2>2 DEF PointsInv, AwaitedInv
<1>3. ASSUME habit = "orderly" PROVE \A i \in DOMAIN wire' : wire'[i] = started
  <2>1. \A i \in 1 .. Len(wire) : wire[i] = started
    BY <1>1, <1>3 DEF PointsInv
  <2>2. \A i \in 1 .. Len(wire') : wire'[i] = wire[i + 1]
    BY <1>1
  <2> QED
    BY <1>1, <2>1, <2>2
<1>4. habit = "orderly" => Head(wire) = current
  BY <1>1, <1>2 DEF PointsInv
<1>5. mixed' = FALSE
  BY <1>4 DEF TakesPoint, PointsInv, OwnPoints
<1> QED
  BY <1>1, <1>2, <1>3, <1>5

LEMMA ThreadPoints == ScriptInv /\ PointsInv /\ (TrajectoryThread \/ MoverEnds) => PointsInv'
<1> SUFFICES ASSUME ScriptInv, PointsInv, TrajectoryThread \/ MoverEnds PROVE PointsInv'
  OBVIOUS
<1> USE DEF ScriptInv, TypeOK, PointsInv, OwnPoints, CountInv, AwaitedInv, Unread, motion,
            trajectory, host, reported, taken
<1>1. current > 0 \/ thread = "none"
  BY DEF ReportInv
<1>2. thread # "none" => current > 0 /\ reports[current] = 0
  BY DEF ReportInv
<1>3. CASE TrajectoryBegins
  BY <1>3 DEF TrajectoryBegins, ThreadGoto
<1>4. CASE ReadsPoint
  <2>1. TakesPoint /\ num > 0 /\ thread = "loop" /\ thread' = "got"
        /\ result = "success"
        /\ UNCHANGED << main, cmd, num, result, host, reported, timedOut, control_mode >>
    BY <1>4 DEF ReadsPoint, TrajectoryReads, TakesPoint
  <2>2. /\ mixed' = FALSE
        /\ Len(wire') = Len(wire) - 1
        /\ habit = "orderly" => /\ started = current
                                /\ \A i \in DOMAIN wire' : wire'[i] = started
    BY <2>1, TakenIsOwn, Zenon
  <2>3. ASSUME habit = "orderly" PROVE CountInv'
    <3>1. CountInv /\ current \notin timedOut
      BY <2>1, <2>2, <2>3 DEF TakesPoint
    <3> QED
      BY <2>1, <2>2, <3>1
  <2> QED
    BY <1>2, <2>1, <2>2, <2>3
<1>5. CASE CountsPoint
  BY <1>2, <1>5 DEF CountsPoint, ThreadGoto
<1>6. CASE WaitsForPoint
  BY <1>2, <1>6 DEF WaitsForPoint, TrajectoryReads, FindsNone, punctual
<1>7. CASE TrajectoryLeavesLoop
  BY <1>7 DEF TrajectoryLeavesLoop
<1>8. CASE AbandonsPoints
  BY <1>2, <1>8 DEF AbandonsPoints, ThreadGoto
<1>9. CASE TrajectoryInactive
  BY <1>9 DEF TrajectoryInactive, ThreadGoto
<1>10. CASE TrajectoryReports
  BY <1>2, <1>10 DEF TrajectoryReports, ThreadGoto, Reports
<1>11. CASE MoverEnds
  BY <1>11 DEF MoverEnds
<1> QED
  BY <1>3, <1>4, <1>5, <1>6, <1>7, <1>8, <1>9, <1>10, <1>11
  DEF TrajectoryThread

LEMMA MainPoints == ScriptInv /\ PointsInv /\ (MainLoop \/ ReverseTimesOut) => PointsInv'
<1> SUFFICES ASSUME ScriptInv, PointsInv, MainLoop \/ ReverseTimesOut PROVE PointsInv'
  OBVIOUS
<1> USE Asked
    DEF ScriptInv, TypeOK, PointsInv, OwnPoints, CountInv, AwaitedInv, Unread, motion,
        trajectory, host, reported, taken
<1>0. /\ Starts(cmd) => started > current
      /\ Starts(cmd) /\ Starts(reverse) => started > current + 1
      /\ main = "drainStart" => Starts(cmd)
      /\ current \in Nat /\ started \in Nat
  BY BoundsAssumption, CommandFields DEF ReportInv, Pending
<1>1. CASE ReadReverseCommand
  BY <1>1 DEF ReadReverseCommand
<1>2. CASE SwitchCancelsTrajectory
  <2>1. Quits(cmd)
    BY <1>2 DEF SwitchCancelsTrajectory, MainGoto, Quits
  <2> QED
    BY <1>2, <2>1 DEF SwitchCancelsTrajectory, StopTrajectoryThread, MainGoto
<1>3. CASE SwitchStopsMotion \/ SwitchEnters
  BY <1>3 DEF SwitchStopsMotion, SwitchEnters, MainGoto
<1>4. CASE ApplyServoTarget \/ ApplyFreedrive
  <2>1. ~Starts(cmd)
    BY <1>4 DEF ApplyServoTarget, ApplyFreedrive, MainGoto, MotionInv, Starts
  <2>2. CASE ApplyServoTarget
    BY <2>1, <2>2 DEF ApplyServoTarget, MainGoto
  <2>3. CASE ApplyFreedrive
    BY <2>1, <2>3 DEF ApplyFreedrive, MainGoto
  <2> QED
    BY <1>4, <2>2, <2>3
<1>5. CASE ApplyNothing
  <2>1. ~Starts(cmd)
    BY <1>5 DEF ApplyNothing, MainGoto, MotionInv, Starts
  <2> QED
    BY <1>5, <2>1 DEF ApplyNothing, MainGoto
<1>6. CASE ApplyTrajectoryAction
  <2>1. cmd' = cmd /\ main' \in {"drainStart", "drainCancel"} /\ thread' = "none"
        /\ UNCHANGED << wire, left, num, started, current, reports, timedOut, mixed, reverse,
                        habit, result >>
    BY <1>6 DEF ApplyTrajectoryAction, StopTrajectoryThread, MainGoto
  <2>2. main' = "drainCancel" => Quits(cmd)
    BY <1>6 DEF ApplyTrajectoryAction, MainGoto, MotionInv, Quits, NoCommand, Command
  <2>3. main = "apply"
    BY <1>6 DEF ApplyTrajectoryAction, MainGoto
  <2> QED
    BY <2>1, <2>2, <2>3
<1>7. CASE HaltOnServoTarget \/ Shutdown
  BY <1>7 DEF HaltOnServoTarget, Shutdown, MainGoto
<1>8. CASE DrainsPoint
  <2>1. TakesPoint /\ num > 0 /\ num' = num - 1 /\ thread = "none"
        /\ UNCHANGED << main, cmd, thread, result, host, reported, timedOut, control_mode >>
    BY <1>8 DEF DrainsPoint, TakesPoint, MotionInv
  <2>2. /\ mixed' = FALSE
        /\ Len(wire') = Len(wire) - 1
        /\ habit = "orderly" => /\ started = current
                                /\ \A i \in DOMAIN wire' : wire'[i] = started
    BY <2>1, TakenIsOwn, Zenon
  <2>3. ASSUME habit = "orderly" PROVE CountInv'
    <3>1. CountInv /\ current \notin timedOut
      BY <2>1, <2>2, <2>3 DEF TakesPoint
    <3> QED
      BY <2>1, <2>2, <3>1
  <2>4. current > 0 \/ current = 0
    OBVIOUS
  <2> QED
    BY <2>1, <2>2, <2>3, <2>4
<1>9. CASE DrainWaits
  <2>1. /\ num' \in {num, 0} /\ mixed' = mixed /\ main \in Drains /\ thread = "none"
        /\ habit = "orderly" => wire = << >>
        /\ UNCHANGED << main, cmd, thread, result, host, wire, reported, timedOut,
                        control_mode >>
    BY <1>9 DEF DrainWaits, FindsNone, punctual, MotionInv
  <2>2. ASSUME habit = "orderly", started = current PROVE CountInv'
    <3>1. Quits(cmd)
      BY <1>0, <2>1, <2>2 DEF ReportInv, Drains
    <3> QED
      BY <2>1, <2>2, <3>1
  <2>3. ASSUME habit = "orderly", started = current + 1 PROVE AwaitedInv'
    BY <2>1, <2>3
  <2> QED
    BY <2>1, <2>2, <2>3
<1>10. CASE CancelReports
  <2>1. /\ cmd' \in {cmd, NoCommand} /\ main' \in {"read", "enter"}
        /\ main' = "read" => cmd' = NoCommand
        /\ main # "ended" /\ thread = "none" /\ num = 0 /\ Quits(cmd)
        /\ UNCHANGED << current, thread, num, result, host, wire, taken >>
    BY <1>10 DEF CancelReports, MainGoto, MotionInv, Drains
  <2>2. current > 0 => reports'[current] = 1 \/ reports' = reports
    <3>1. CASE active
      <4>1. reports' = [reports EXCEPT ![current] = @ + 1]
        BY <1>10, <3>1, Zenon DEF CancelReports, Reports
      <4> QED
        BY <3>1, <4>1 DEF ReportInv, Trajectories
    <3>2. CASE ~active
      BY <1>10, <3>2, Zenon DEF CancelReports
    <3> QED
      BY <3>1, <3>2
  <2> QED
    BY <2>1, <2>2
<1>11. CASE StartTrajectory
  <2>1. /\ cmd' = NoCommand /\ main = "drainStart" /\ main' = "read"
        /\ thread' = "init" /\ num' = cmd.points /\ current' = current + 1
        /\ UNCHANGED << reports, result, host, wire, taken >>
    BY <1>11 DEF StartTrajectory, MainGoto
  <2>2. started > current /\ (Starts(reverse) => started > current + 1)
    BY <1>0, <2>1
  <2>3. reports[current + 1] = 0
    <3>1. current + 1 \in Trajectories
      BY <1>0, <2>2, BoundsAssumption DEF Trajectories
    <3> QED
      BY <1>0, <3>1 DEF ReportInv
  <2>4. \A t \in timedOut : t <= current' /\ t # current'
    BY <1>0, <2>1, BoundsAssumption DEF Trajectories
  <2>5. ASSUME habit = "orderly" PROVE started = current + 1 /\ Unread <= cmd.points
    BY <1>0, <2>1, <2>2, <2>5
  <2>6. ASSUME habit = "orderly" PROVE started' = current' /\ CountInv'
    BY <1>0, <2>1, <2>4, <2>5, <2>6
  <2> QED
    BY <1>0, <2>1, <2>3, <2>4, <2>6
<1>12. CASE ReverseTimesOut
  BY <1>12 DEF ReverseTimesOut, MainGoto
<1> QED
  BY <1>1, <1>2, <1>3, <1>4, <1>5, <1>6, <1>7, <1>8, <1>9, <1>10, <1>11, <1>12 DEF MainLoop

LEMMA HostPoints == ScriptInv /\ PointsInv /\ Host => PointsInv'
<1> SUFFICES ASSUME ScriptInv, PointsInv, Host PROVE PointsInv'
  OBVIOUS
<1> USE Asked
    DEF ScriptInv, TypeOK, PointsInv, OwnPoints, CountInv, AwaitedInv, Unread, motion,
        trajectory, host, reported, taken
<1>1. CASE HostCommands
  <2>1. /\ reverse = NoCommand /\ main # "ended"
        /\ UNCHANGED << main, cmd, control_mode, thread, num, result, wire, habit, reported,
                        taken >>
    BY <1>1 DEF HostCommands
  <2>2. PICK c \in Commands :
          /\ reverse' = c
          /\ Starts(c) => MayStart /\ started' = started + 1 /\ left' = c.points
          /\ ~Starts(c) => started' = started /\ left' \in {0, left}
          /\ Quits(c) => left' = 0
    <3>1. PICK c \in Commands :
            /\ reverse' = c
            /\ Starts(c) => MayStart
            /\ IF Starts(c) THEN started' = started + 1 /\ left' = c.points
               ELSE /\ UNCHANGED started
                    /\ left' = IF c.mode = "trajectory" /\ c.action = "noop" THEN left ELSE 0
      BY <1>1 DEF HostCommands
    <3> QED
      BY <3>1 DEF Quits
  <2>3. CASE Starts(c)
    <3>1. ASSUME habit = "orderly"
          PROVE  started = current /\ wire = << >> /\ (current > 0 => reports[current] = 1)
      <4>1. /\ started > 0 => started \in Trajectories /\ reports[started] > 0
            /\ started \in Nat /\ current \in Nat /\ Len(wire) \in Nat /\ left \in Nat
        BY <2>2, <2>3, <3>1, BoundsAssumption DEF MayStart, Trajectories
      <4>2. started = current /\ CountInv
        BY <3>1, <4>1 DEF ReportInv
      <4>3. current > 0 => reports[current] = 1
        BY <4>1, <4>2 DEF ReportInv, OneResult
      <4>4. num = 0
        BY <4>1, <4>3
      <4>5. current \notin timedOut => Len(wire) = 0
        BY <4>1, <4>2, <4>4
      <4> QED
        BY <4>2, <4>3, <4>5
    <3>2. ASSUME habit = "orderly" PROVE started' = current' + 1 /\ AwaitedInv'
      BY <2>1, <2>2, <2>3, <3>1, <3>2, CommandFields
    <3> QED
      BY <2>1, <2>2, <2>3, <3>1, <3>2
  <2>4. CASE ~Starts(c)
    <3>1. started' = started /\ left' <= left /\ left' \in Nat /\ Len(wire) \in Nat
      BY <2>2, <2>4
    <3>2. ASSUME habit = "orderly", started = current PROVE CountInv'
      BY <2>1, <3>1, <3>2
    <3>3. ASSUME habit = "orderly", started = current + 1 PROVE AwaitedInv'
      BY <2>1, <3>1, <3>3, CommandFields
    <3> QED
      BY <2>1, <2>2, <3>1, <3>2, <3>3
  <2> QED
    BY <2>3, <2>4
<1>2. CASE HostWritesPoint
  BY <1>2 DEF HostWritesPoint, punctual
<1> QED
  BY <1>1, <1>2 DEF Host

\* The invariant about points, with its three kinds of steps.
THEOREM PointsInvariant == Spec => []PointsInv
<1>1. Init => PointsInv
  BY BoundsAssumption, Asked DEF Init, PointsInv, OwnPoints, CountInv, Unread
<1>2. ScriptInv /\ PointsInv /\ [Next]_vars => PointsInv'
  <2> SUFFICES ASSUME ScriptInv, PointsInv, [Next]_vars PROVE PointsInv'
    OBVIOUS
  <2>1. CASE UNCHANGED vars
    BY <2>1 DEF PointsInv, OwnPoints, CountInv, AwaitedInv, Unread, vars, motion, trajectory,
                host, reported, taken
  <2> QED
    BY <2>1, ThreadPoints, MainPoints, HostPoints DEF Next
<1> QED
  BY <1>1, <1>2, ScriptInvariant, PTL DEF Spec, Safety

\* With a host that awaits results and writes its points in time, no trajectory runs or
\* drains a point of another one, however the earlier ones ended.
THEOREM PointsAreOwn == Spec => []OwnPoints
<1>1. PointsInv => OwnPoints
  BY DEF PointsInv
<1> QED
  BY <1>1, PointsInvariant, PTL
=============================================================================
