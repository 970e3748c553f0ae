\* Serialization and HAL calls may fail.
CONSTANTS
  MaxRequests = 3
  SerializeMayFail = TRUE
  CallMayFail = TRUE
SPECIFICATION Spec
INVARIANT NoOrphanedCallback
PROPERTY EveryRequestAnswered
\* A bounded run ends once every id is used and answered, or after Destroy.
CHECK_DEADLOCK FALSE
