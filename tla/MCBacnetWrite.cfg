CONSTANTS
  Callers = {c1, c2}
  InvokeIds = {i1}
  NoId = NoId
  NoItem = NoItem
  Nobody = Nobody
  Timeouts = {0, 1}
  MaxTimeout = 1
  MaxInFlight = 2
SPECIFICATION FairSpec
INVARIANTS
  BusyIsTracked
  PendingOwnsId
PROPERTIES
  DroppedOnlyWhenOverdue
  OverdueWriteGoes
  IdComesBack
