CONSTANTS
  Confs <- AllConfs
  Privileged = FALSE
SPECIFICATION StartSpec
INVARIANT ProxyHonoured
CHECK_DEADLOCK TRUE
