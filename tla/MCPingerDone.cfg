CONSTANTS
  h1 = h1
  h2 = h2
  Calls = {c1}
  Hosts = {h1}
  Addressable = {h1}
  IPv6 = {}
  Asked <- AskedAll
  AtOnce = 1
  Nil = Nil
SPECIFICATION FairPingerSpec
PROPERTY DoneCloses
CHECK_DEADLOCK TRUE
