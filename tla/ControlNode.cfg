CONSTANT Components = {arm, reel}
SPECIFICATION FairSpec
INVARIANTS
  NodeInv
  ReleasedAtExit
PROPERTIES
  SignalEndsNode
CHECK_DEADLOCK FALSE
