SPECIFICATION Spec
CONSTANTS
  Controllers = {"scaled", "passthrough", "io"}
  Consistent = {"io"}
  MaxChanges = 3
  MaxSwitches = 1
INVARIANTS StopperInv AsFound
PROPERTIES StartupReturns
CHECK_DEADLOCK FALSE
