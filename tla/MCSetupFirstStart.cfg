CONSTANTS
  Clients = {c1}
  Aliases = {}
  Devices = {}
  Passwords = {p1}
  Empty = Empty
  Nil = Nil
SPECIFICATION SetupSpec
INVARIANT InitializedOnFirstStart
CHECK_DEADLOCK TRUE
