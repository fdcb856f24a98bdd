CONSTANTS
  Readers = {r1}
  Keys = {k1, k2}
  InvokeIds = {i1, i2}
  NoKey = NoKey
  NoId = NoId
  Nobody = Nobody
  Worker = Worker
  ReplyKinds = {"ack"}
  CacheStrategy = "Aggressive"
  CacheExpiry = 1
  StaleAge = 0
  MaxVersion = 1
  MaxInFlight = 2
  EarlyReplies = FALSE
  LateReplies = FALSE
  MaxResets = 1
SPECIFICATION ResetSpec
SYMMETRY Symmetry
INVARIANTS
  TablesAgreeAgain
  NoOrphanRequest
  LostOnlyByReset
PROPERTIES
  ImplementsForgetfulCache
