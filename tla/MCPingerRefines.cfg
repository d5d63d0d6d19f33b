CONSTANTS
  h1 = h1
  h2 = h2
  Calls = {c1, c2}
  Hosts = {h1}
  Addressable = {h1}
  IPv6 = {}
  Asked <- AskedPower
  AtOnce = 2
  Nil = Nil
SPECIFICATION PingerSpec
VIEW Present
SYMMETRY Symmetry
PROPERTY ImplementsPing
CHECK_DEADLOCK TRUE
