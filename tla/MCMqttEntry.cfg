CONSTANTS
  Apps = {a1, a2}
  Nobody = Nobody
  MaxEdits = 3
  MaxStops = 1
SPECIFICATION FairSpec
INVARIANTS
  OneContext
  StartedOnce
  CalmEditIsKnown
  StaleOnlyAfterEdit
PROPERTIES
  CalmEditIsApplied
