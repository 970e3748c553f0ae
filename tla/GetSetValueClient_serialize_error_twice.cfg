CONSTANTS
  MaxRequests = 2
  SerializeMayFail = TRUE
  CallMayFail = FALSE
SPECIFICATION Spec
INVARIANT AtMostOneCallback
CHECK_DEADLOCK FALSE
