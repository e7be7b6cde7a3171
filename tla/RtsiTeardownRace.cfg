CONSTANTS
  Grace = 2
  RetryInterval = 1
SPECIFICATION Safety
INVARIANT
  NoReceiveDuringTeardown
