CONSTANT
  Holds = FALSE
SPECIFICATION Spec
INVARIANTS
  ResetInv
  NoSnapBack
  ResetInTime
