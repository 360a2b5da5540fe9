SPECIFICATION Spec
CONSTANTS
  MaxClock = 4
  Typed = {1, 2}
  Wrap = 16
  GcOverruns = TRUE
INVARIANT DuplicatesIgnored
CHECK_DEADLOCK FALSE
