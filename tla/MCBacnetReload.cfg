CONSTANTS
  Apps = {a1, a2, a3}
  Reloaders = {a3}
  Nobody = Nobody
  hot_config_enabled = TRUE
  MaxEdits = 2
SPECIFICATION FairSpec
INVARIANTS
  RestartIsClean
  ServedWhileConnected
  CalmEditIsKnown
PROPERTIES
  CalmEditIsApplied
  CalmDriverComesBack
CHECK_DEADLOCK FALSE
