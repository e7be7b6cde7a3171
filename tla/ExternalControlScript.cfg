CONSTANTS
  Timeout = 1
  MaxTrajectories = 2
  MaxPoints = 2
  MotionModes = {"servoj"}
SPECIFICATION Spec
CHECK_DEADLOCK FALSE
INVARIANTS
  ScriptInv
  OneResult
  OneMotion
  OwnPoints
PROPERTIES
  LoopReturns
  TrajectoryEnds
