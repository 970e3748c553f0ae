\* Two user threads and two callbacks.
CONSTANTS
  Users = {u1, u2}
  Callbacks = {c1, c2}
  Reentrant = {}
SPECIFICATION Spec
PROPERTIES
  InvokedOnlyWhileRegistered
  EveryCallReturns
\* Once the client is destroyed and any death notification has run,
\* nothing is left to happen: that final state is not a deadlock.
CHECK_DEADLOCK FALSE
