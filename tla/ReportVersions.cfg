CONSTANTS
  k1 = k1
  k2 = k2
  Jobs = {j1, j2}
  Keys = {k1, k2}
  RetentionKeys = {}
  Owners = {o1}
  Workers = {w1}
  Classes = {c}
  NoKey = NoKey
  NoOwner = NoOwner
  NoWorker = NoWorker
  LeaseTime = 1
  MaxDelay = 0
  MaxLag = 0
  MaxClaims = 2
  Fanouts <- NextCheck
  Clip = {c1}
  MaxVersions = 4
  MaxSource = 1
  MaxPolls = 1
  MaxPlans = 2
SPECIFICATION RSpec
SYMMETRY Symmetry
INVARIANTS
  AssessedAsShown
  NothingUndone
  OneVersionPerJob
