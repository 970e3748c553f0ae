\* The runner thread drives every phase in any order against a library
\* whose calls may fail and whose graph may end at any time.  Line 178 is
\* taken as the creation check it is meant to be (== nullptr), since as
\* written the first call crashes and no other step is reachable.  Three
\* loads let a failed dlopen and a failed dlsym be retried before success.
CONSTANTS
  InvertedNullCheck = FALSE
  MaxLoads = 3
SPECIFICATION Spec
INVARIANT LibraryIdleWhenStopped
\* Deadlock checking is off: a graph that failed to initialise MaxLoads
\* times has no further step, and the runner's phase calls then all return
\* ILLEGAL_STATE.
CHECK_DEADLOCK FALSE
