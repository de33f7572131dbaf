CONSTANTS
  h1 = h1
  h2 = h2
  s1 = s1
  s2 = s2
  Handles <- MCOneHandle
  Slots <- MCSlots
  NULL = NULL
  MaxPending = 1
  Calls <- MCWorkerCalls
SPECIFICATION Spec
INVARIANT NoCrash
CHECK_DEADLOCK FALSE
