CONSTANTS
  k1 = k1
  k2 = k2
  kr = kr
  Jobs = {j1, j2}
  Keys = {k1, k2, kr}
  RetentionKeys = {kr}
  Owners = {o1, o2}
  Workers = {w1}
  Classes = {c}
  NoKey = NoKey
  NoOwner = NoOwner
  NoWorker = NoWorker
  LeaseTime = 2
  MaxDelay = 1
  MaxLag = 1
  MaxClaims = 2
  Fanouts <- MCFanouts
SPECIFICATION Spec
SYMMETRY Symmetry
INVARIANTS
  OneHolder
  GenerationFence
  ResultOfLastLease
  SuccessorsCommitted
  ContentErased
PROPERTIES
  Refinement
  NothingTakenBack
