\* Calls never fail: results, timeouts and destruction race freely.
CONSTANTS
  MaxRequests = 3
  SerializeMayFail = FALSE
  CallMayFail = FALSE
SPECIFICATION Spec
PROPERTY ContractSpec
\* A bounded run ends once every id is used and answered, or after Destroy.
CHECK_DEADLOCK FALSE
