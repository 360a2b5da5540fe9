SPECIFICATION Spec
CONSTANTS
  Clients = {1, 2}
  MaxClock = 1
  Units <- StrandedUnits
  Histories <- StrandedHistories
  Updates <- StrandedUpdates
  Invalid = {}
INVARIANTS
  NoStranded
