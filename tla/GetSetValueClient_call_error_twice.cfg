CONSTANTS
  MaxRequests = 2
  SerializeMayFail = FALSE
  CallMayFail = TRUE
SPECIFICATION Spec
INVARIANT AtMostOneCallback
CHECK_DEADLOCK FALSE
