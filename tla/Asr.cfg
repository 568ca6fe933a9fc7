CONSTANTS
  k1 = k1
  k2 = k2
  Jobs = {j1, j2}
  Keys = {k1, k2}
  RetentionKeys = {}
  Owners = {o1}
  Workers = {w1}
  Classes = {c}
  NoKey = NoKey
  NoOwner = NoOwner
  NoWorker = NoWorker
  LeaseTime = 2
  MaxDelay = 0
  MaxLag = 1
  MaxClaims = 2
  Window = 1
  Limit = 1
  MaxRetries = 1
  Failures = {"ASRQuotaExhausted"}
  Fanouts <- NoSuccessor
SPECIFICATION ASpec
SYMMETRY Symmetry
INVARIANTS
  NeverSentAgain
  SpeechKept
  WindowRespected
