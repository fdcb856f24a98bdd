CONSTANTS
  Readers = {r1}
  Keys = {k1}
  InvokeIds = {i1}
  NoKey = NoKey
  NoId = NoId
  Nobody = Nobody
  Worker = Worker
  ReplyKinds = {"ack", "abort"}
  CacheStrategy = "Conservative"
  CacheExpiry = 1
  StaleAge = 1
  MaxVersion = 0
  MaxInFlight = 1
  EarlyReplies = FALSE
  LateReplies = FALSE
SPECIFICATION Spec
INVARIANTS
  NoLockCycle
