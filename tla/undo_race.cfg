SPECIFICATION Spec
CONSTANTS
  Lists = {"text"}
  Keys = {}
  Scope = {"text"}
  MaxUnits = 3
  MaxEdits = 3
  MaxForeign = 0
INVARIANT
  RedoneWasUndone
CHECK_DEADLOCK FALSE
