CONSTANTS
  Clients = {c1, c2}
  Aliases = {a, b}
  Devices = {d}
  Passwords = {p}
  Empty = Empty
  Nil = Nil
SPECIFICATION FairStorageSpec
INVARIANT StorageTypeOK
INVARIANT OneInService
PROPERTY ImplementsDeviceStore
PROPERTY CallsAnswered
CHECK_DEADLOCK TRUE
