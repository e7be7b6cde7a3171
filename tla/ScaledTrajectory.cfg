CONSTANTS
  Goals = {g1, g2}
  Topics = {t1}
  None = none
  Hold = hold
  Lengths = {1}
  GoalTime = 1
  CmdTimeout = 0
  MaxLag = 5
SPECIFICATION FairSpec
INVARIANTS
  GoalsInv
PROPERTIES
  ResultsEarned
  NoStaleMotion
  GoalsEnd
CHECK_DEADLOCK FALSE
