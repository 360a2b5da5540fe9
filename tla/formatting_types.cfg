SPECIFICATION Spec
CONSTANTS
  Keys = {bold}
  Values = {on}
  Deltas <- MCDeltas
  MaxItems = 5
  MaxOpen <- MCMaxOpen
  MaxTypes = 1
  MaxRemote = 1
INVARIANT
  TypesLookAsAsked
