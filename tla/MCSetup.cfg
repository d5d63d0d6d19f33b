CONSTANTS
  Clients = {c1, c2, c3}
  Aliases = {}
  Devices = {}
  Passwords = {p1, p2}
  Empty = Empty
  Nil = Nil
SPECIFICATION FairSetupSpec
INVARIANT SetupTypeOK
INVARIANT OneConfigurer
INVARIANT ReadyWhenInitialized
INVARIANT ConfigurationProgress
PROPERTY PasswordStands
PROPERTY ConfigAnswered
CHECK_DEADLOCK TRUE
