CONSTANTS
  Clients = {u, w}
  Updates = {u}
  Aliases = {a}
  Devices = {d}
  Passwords = {p}
  WebRequests <- WebWrites
  Commands <- Every
  Empty = Empty
  Nil = Nil
SPECIFICATION FairBotSpec
INVARIANT BotTypeOK
INVARIANT BotRepliesTruthful
INVARIANT WakeTruthful
PROPERTY AwakeWasHeard
PROPERTY BotUsesStorage
PROPERTY BotAnswered
CHECK_DEADLOCK TRUE
