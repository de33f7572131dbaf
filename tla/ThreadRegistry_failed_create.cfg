CONSTANTS
  MaxThreads = 3
SPECIFICATION Spec
INVARIANT JoinsOnlyStarted
CHECK_DEADLOCK FALSE
