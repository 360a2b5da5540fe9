SPECIFICATION Spec
CONSTANTS
  Lists = {}
  Keys = {"key"}
  Scope = {"key"}
  MaxUnits = 3
  MaxEdits = 4
  MaxForeign = 0
PROPERTY
  EditsReverted
CHECK_DEADLOCK FALSE
