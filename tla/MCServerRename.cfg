CONSTANTS
  Clients = {c1}
  Aliases = {a, b}
  Devices = {d, x}
  ValidDevices = {d}
  Passwords = {p}
  Position <- InOrder
  Routes = {"manage", "post"}
  Empty = Empty
  Nil = Nil
SPECIFICATION ServerSpec
INVARIANT RenameCreates
CHECK_DEADLOCK TRUE
