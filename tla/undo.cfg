SPECIFICATION Spec
CONSTANTS
  Lists = {"text"}
  Keys = {"key"}
  Scope = {"text", "key"}
  MaxUnits = 5
  MaxEdits = 3
  MaxForeign = 1
INVARIANTS
  StacksSound
PROPERTIES
  ListsRestored
  SparesOthers
CHECK_DEADLOCK FALSE
