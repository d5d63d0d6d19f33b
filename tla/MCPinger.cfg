CONSTANTS
  h1 = h1
  h2 = h2
  Calls = {c1, c2}
  Hosts = {h1, h2}
  Addressable = {h1, h2}
  IPv6 = {h2}
  Asked <- AskedBoth
  AtOnce = 1
  Nil = Nil
SPECIFICATION FairPingerSpec
INVARIANT PingerTypeOK
INVARIANT PositiveWasHeard
INVARIANT PanicsNeedRace
INVARIANT NegativeCleansUp
PROPERTY PingsEnd
CHECK_DEADLOCK TRUE
