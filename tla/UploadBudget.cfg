CONSTANTS
  \* Upload
  Batches = {0, 1}
  TextBodies = {"words", "blank", "failed"}
  asr_configured = TRUE
  MaxFaults = 2
  \* Budget
  Requesters = {r1, r2}
  Admitters = {a}
  Buckets = {"scholarxiv", "tokens"}
  Shared = "scholarxiv"
  per_hour <- MCPerHour
  per_tick <- MCPerTick
  Costs <- MCCosts
  concurrency = 1
  max_wait = 1
  request_timeout = 1
  SlotGrace = 1
  MaxLag = 0
  NoOne = NoOne
  RetryAfter = {2}
  RATE_LIMIT_ATTEMPTS = 2
SPECIFICATION OneSpec
CHECK_DEADLOCK FALSE
INVARIANTS
  TextTruthful
  LimitsKept
PROPERTIES
  UploadSettles
  RequestsEnd
