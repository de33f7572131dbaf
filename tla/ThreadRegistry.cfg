CONSTANTS
  MaxThreads = 3
SPECIFICATION Spec
INVARIANTS TypeOK AllExitedWhenDone
PROPERTIES ShutdownCompletes
CHECK_DEADLOCK FALSE
