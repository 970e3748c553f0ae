\* The termination callback of a graph that ends as soon as it starts races
\* the runner's store of RUNNING after StartGraphExecution returns.
CONSTANTS
  InvertedNullCheck = FALSE
  MaxLoads = 2
SPECIFICATION Spec
INVARIANT RunningOnlyWhileLibraryRuns
CHECK_DEADLOCK FALSE
