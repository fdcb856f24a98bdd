CONSTANTS
  k1 = k1
  Readers = {b, r1}
  Batcher = b
  Keys = {k1}
  Properties <- MCProperties
  MaxTries = 2
  InvokeIds = {i1}
  NoKey = NoKey
  NoId = NoId
  Nobody = Nobody
  Worker = Worker
  ReplyKinds = {"ack", "unsupported", "reject"}
  CacheStrategy = "Aggressive"
  CacheExpiry = 0
  StaleAge = 0
  MaxVersion = 1
  MaxInFlight = 1
  EarlyReplies = FALSE
  LateReplies = FALSE
SPECIFICATION FairBatchSpec
INVARIANTS
  RefusalIsCurrent
PROPERTIES
  UnknownIsReadFresh
  BatchEnds
  EveryRequestEnds
