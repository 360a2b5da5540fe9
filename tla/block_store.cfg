SPECIFICATION Spec
CONSTANTS
  MaxClock = 4
  Typed = {1, 2}
  Wrap = 16
  GcOverruns = FALSE
INVARIANTS
  WellFormed
  NothingForgotten
  FindsOwner
  OneRunPerItem
  StateVectorIsPrefix
CHECK_DEADLOCK FALSE
