SPECIFICATION Spec
CONSTANTS
  Keys = {bold}
  Values = {on, off}
  Deltas <- MCDeltas
  MaxItems = 5
  MaxOpen <- MCMaxOpen
  MaxTypes = 1
  MaxRemote = 1
SYMMETRY Symmetry
INVARIANTS
  LooksAsAsked
  ObserversFollow
