CONSTANTS
  Requesters = {r1, r2}
  Admitters = {a}
  Buckets = {"scholarxiv", "tokens"}
  Shared = "scholarxiv"
  per_hour <- MCPerHour
  per_tick <- MCPerTick
  Costs <- MCCosts
  concurrency = 1
  max_wait = 1
  request_timeout = 1
  SlotGrace = 1
  MaxLag = 0
  NoOne = NoOne
  RetryAfter = {2}
  RATE_LIMIT_ATTEMPTS = 2
SPECIFICATION BSpec
CHECK_DEADLOCK FALSE
PROPERTIES
  PausesLast
