SPECIFICATION FairSpec
CONSTANTS
  c1 = c1
  c2 = c2
  c3 = c3
  p1 = p1
  p2 = p2
  Callers = {c1, c2, c3}
  Process <- MCProcess
  Document <- MCDocument
  Values = {0, 1, 2, 3, 256}
  Requests <- MCRequests
  FirstContent <- MCFirstContent
  Files = {f1, f2, f3, f4}
  LockFiles = {l1, l2}
  NoFile = NoFile
  Nobody = Nobody
  Empty = Empty
  Torn = Torn
  Seconds = {0, 1}
  MaxCalls = 3
INVARIANTS SoloUpdateIsExact QuietMeansClean
PROPERTIES ImplementsEditedFile EveryUpdateEnds
CHECK_DEADLOCK FALSE
