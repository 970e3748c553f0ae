\* Command lines of up to three words; see EvsApp.tla.
CONSTANT MaxArgs = 3
SPECIFICATION Spec
INVARIANT NoAbortOnAnyCommandLine
CHECK_DEADLOCK FALSE
