SPECIFICATION Spec
CONSTANTS
  map1 = map1
  map2 = map2
  attr1 = attr1
  attr2 = attr2
  Maps = {map1, map2}
  MaxClock = 4
  Attrs = {attr1, attr2}
SYMMETRY Symmetry
INVARIANTS
  Canonical
  SameAsSets
  ReadsTell
