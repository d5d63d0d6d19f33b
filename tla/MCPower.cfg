CONSTANTS
  Clients = {c1, c2}
  Aliases = {a}
  Devices = {d}
  ValidDevices = {d}
  IPv4 = {d}
  Passwords = {p}
  Position <- InOrder
  Routes = {"power", "ping", "post"}
  Empty = Empty
  Nil = Nil
SPECIFICATION FairPowerSpec
INVARIANT PowerTypeOK
INVARIANT PowerAuthorised
INVARIANT PowerRepliesTruthful
PROPERTY OffNeedsAnswer
PROPERTY PowerServed
CHECK_DEADLOCK TRUE
