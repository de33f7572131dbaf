CONSTANTS
  h1 = h1
  h2 = h2
  s1 = s1
  s2 = s2
  Handles <- MCHandles
  Slots <- MCSlots
  NULL = NULL
  MaxPending = 1
  Calls <- MCWorkerCalls
SPECIFICATION Spec
INVARIANTS TypeOK ResplitInv ResplitAssert
CHECK_DEADLOCK FALSE
SYMMETRY MCSymmetry
