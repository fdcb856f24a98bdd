CONSTANTS
  Apps = {a1}
  Reloaders = {}
  Nobody = Nobody
  hot_config_enabled = TRUE
  MaxEdits = 2
SPECIFICATION Spec
INVARIANTS
  NoReloadDeadlock
CHECK_DEADLOCK FALSE
