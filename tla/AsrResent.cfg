CONSTANTS
  k1 = k1
  k2 = k2
  Jobs = {j1}
  Keys = {k1}
  RetentionKeys = {}
  Owners = {o1}
  Workers = {w1}
  Classes = {c}
  NoKey = NoKey
  NoOwner = NoOwner
  NoWorker = NoWorker
  LeaseTime = 1
  MaxDelay = 0
  MaxLag = 0
  MaxClaims = 1
  Window = 1
  Limit = 1
  MaxRetries = 1
  Failures = {"ASRInvalidResponse", "ASRQuotaExhausted"}
  Fanouts <- NoSuccessor
SPECIFICATION ASpec
INVARIANTS
  RetriedOnlyWhenRefused
