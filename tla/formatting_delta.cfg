SPECIFICATION Spec
CONSTANTS
  Keys = {bold}
  Values = {on}
  Deltas <- ReplacingDeltas
  MaxItems = 5
  MaxOpen <- MCMaxOpen
  MaxTypes = 0
  MaxRemote = 1
INVARIANT
  LooksAsAsked
