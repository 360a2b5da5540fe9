SPECIFICATION Spec
CONSTANTS
  Clients <- MCClients
  Decoders <- MCDecoders
  Updates <- MCUpdates
INVARIANTS
  Writable
  AllMerged
  EncodersTrue
PROPERTIES
  Terminates
CHECK_DEADLOCK FALSE
