CONSTANTS
  Clients = {c1, c2}
  Aliases = {a, b}
  Devices = {d, x}
  ValidDevices = {d}
  Passwords = {p}
  Position <- InOrder
  Routes = {"devices", "device", "root", "post", "delete", "manage"}
  Empty = Empty
  Nil = Nil
SPECIFICATION ServerSpec
SYMMETRY Symmetry
INVARIANT ServerTypeOK
INVARIANT RepliesTruthful
INVARIANT AuthorisedWrites
INVARIANT DevicesPageTruthful
INVARIANT SinglePagesTruthful
PROPERTY DevicesStand
CHECK_DEADLOCK TRUE
