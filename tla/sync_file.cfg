SPECIFICATION Spec
CONSTANTS
  author = author
  hub = hub
  reader = reader
  Peers = {author, hub, reader}
  Links = {{author, hub}, {hub, reader}}
  Hub = hub
  Sizes <- MCSizes
  Continues <- MCContinues
  Deletable <- MCDeletable
  MaxMessages = 2
  MaxCrashes = 1
INVARIANT
  FileHasAll
