CONSTANTS
  Grace = 2
  RetryInterval = 1
SPECIFICATION Spec
INVARIANTS
  SessionInv
  PartialInterfaceHidden
PROPERTIES
  CleanStopSticks
  OutageReported
  SessionRestored
  JoinReturns
