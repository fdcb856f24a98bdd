CONSTANTS
  Readers = {r1, r2}
  Keys = {k1, k2}
  InvokeIds = {i1, i2}
  NoKey = NoKey
  NoId = NoId
  Nobody = Nobody
  Worker = Worker
  ReplyKinds = {"ack", "unstorable", "unallocated", "undecodable", "malformed", "abort"}
  CacheStrategy = "Conservative"
  CacheExpiry = 1
  StaleAge = 0
  MaxVersion = 1
  MaxInFlight = 1
  EarlyReplies = TRUE
  LateReplies = TRUE
SPECIFICATION Spec
SYMMETRY Symmetry
INVARIANTS
  TablesAgree
  StatusTellsPending
PROPERTIES
  SuccessHadValue
  NoDuplicateRequest
