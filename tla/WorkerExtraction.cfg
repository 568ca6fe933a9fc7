CONSTANTS
  \* Worker
  k1 = k1
  Jobs = {j1}
  Keys = {k1}
  RetentionKeys = {}
  Owners = {o1}
  Workers = {a1, a2}
  Classes = {transient, unknown}
  Unknown = unknown
  NoKey = NoKey
  NoOwner = NoOwner
  NoWorker = NoWorker
  LeaseTime = 2
  MaxDelay = 1
  MaxLag = 0
  MaxClaims = 4
  MaxFaults = 1
  Fanouts <- OneStage
  Cap <- OneRetry
  \* Extraction
  w1 = w1
  w2 = w2
  W = {w1, w2}
  Rec = Rec
  ClaimsOf <- TwoClaims
  max_requests = 4
  reconciliation_requests = 1
  recovery_attempts = 1
  groq_approved = {w1}
  FromCapture = TRUE
  MaxLosses = 1
SPECIFICATION OneSpec
INVARIANTS
  RetriesSafe
  StoppedHoldsNothing
  ReserveKept
  NeverResent
  ReportsTrue
PROPERTIES
  CancelOnlyOnRequest
  EveryJobSettles
  Settles
