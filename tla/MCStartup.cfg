CONSTANTS
  Confs <- AllConfs
  Privileged = FALSE
SPECIFICATION StartSpec
INVARIANT StartTypeOK
INVARIANT ServesAsConfigured
PROPERTY OffersOnlyWhenNew
PROPERTY StartsOrDies
CHECK_DEADLOCK TRUE
