SPECIFICATION Spec
CONSTANTS
  host = host
  guest = guest
  other = other
  a = a
  b = b
  Peers = {host, guest, other}
  Clients = {host, guest}
  Values = {a, b}
  Null = Null
  ChangeListeners = {host, guest, other}
  HostClock = 3
  GuestClock = 1
  MaxClock <- MCMaxClock
SYMMETRY Symmetry
INVARIANTS
  TypeOK
  OneStatePerClock
  OthersAgree
  OwnerWins
  UpdateHeard
PROPERTIES
  OwnStateIsOwn
