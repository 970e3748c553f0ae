\* The termination callback of a graph that drains quickly races the
\* runner's store of FLUSHING.
CONSTANTS
  InvertedNullCheck = FALSE
  MaxLoads = 2
SPECIFICATION Spec
PROPERTY FlushCompletes
\* Deadlock checking is off: a graph that failed to initialise MaxLoads
\* times has no further step, and the runner's phase calls then all return
\* ILLEGAL_STATE.
CHECK_DEADLOCK FALSE
