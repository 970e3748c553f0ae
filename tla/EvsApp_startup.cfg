\* Every command line of up to three words over the alphabet of EvsApp,
\* and every outcome of each start-up call.
CONSTANT MaxArgs = 3
SPECIFICATION Spec
INVARIANTS
  TypeOK
  ArgumentsReadAsDocumented
  RunningOnlyWhenReady
\* main has returned or died: the process is gone, nothing follows.
CHECK_DEADLOCK FALSE
