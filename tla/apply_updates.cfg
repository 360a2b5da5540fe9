SPECIFICATION Spec
CONSTANTS
  Clients = {1, 2, 3}
  MaxClock = 2
  Units <- LargeUnits
  Histories <- AllHistories
  Updates <- AllUpdates
  Invalid <- OneInvalid
INVARIANTS
  TypeOK
  DepsIntegrated
  PickerOwned
  NothingLost
  NoStrandedInOrder
  StashedOnce
  DeletesSettled
PROPERTIES
  Terminates
  Implements
