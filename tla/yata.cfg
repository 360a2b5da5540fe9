SPECIFICATION Spec
CONSTANTS
  Replicas = {1, 2, 3}
  MaxItems = 2
  MaxTotal = 4
  MaxDeletes = 1
  DeleteFrom = {key}
  MaxSlots = 1
  Lists = {text}
  Keys = {key}
INVARIANTS
  WellPlaced
  OneOrder
  NoCrossing
  LastEntryWins
  NoPhantomDelete
CHECK_DEADLOCK FALSE
