SPECIFICATION Spec
CONSTANTS
  RxFirst = FALSE
  Batch = 2
  FifoMax = 3
  SemMax = 2
INVARIANT DetachAfterExit
