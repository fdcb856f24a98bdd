CONSTANTS
  Apps = {a1, a2}
  Nobody = Nobody
  enable_auto_reconnect = TRUE
  max_reconnect_attempts = 1
SPECIFICATION FairSpec
INVARIANTS
  OkMeansUp
  LimitNeverReached
  CalmPendingIsUnderWay
PROPERTIES
  CalmPendingEnds
