SPECIFICATION Spec
CONSTANTS
  Channels = {"digital", "analog", "voltage", "slider", "resend", "handback", "payload", "zero"}
  MaxRequests = 2
INVARIANTS BufferInv AnswerIsOwn NothingTwice PayloadWhole ResendConfirmed
PROPERTIES NothingDropped
CHECK_DEADLOCK FALSE
