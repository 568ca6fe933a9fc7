CONSTANTS
  k1 = k1
  k2 = k2
  k3 = k3
  u1 = u1
  u2 = u2
  u3 = u3
  Jobs = {j1, j2, j3}
  Keys = {k1, k2, k3, u1, u2, u3}
  RetentionKeys = {}
  Owners = {o1}
  Workers = {w1}
  Classes = {c}
  NoKey = NoKey
  NoOwner = NoOwner
  NoWorker = NoWorker
  NoJob = NoJob
  LeaseTime = 1
  MaxDelay = 0
  MaxLag = 0
  MaxClaims = 4
  EvidenceKeys = {k1, k2, k3}
  UploadKeys = {u1, u2, u3}
  ReanalysisKey = k1
  IntakeKey = u1
  MediaKey = u2
  SpeechKey = u3
  Fanouts <- Chains
SPECIFICATION SSpec
SYMMETRY Symmetry
INVARIANTS
  CancelAnswersTrue
PROPERTIES
  DeletionBlocksSpeechRetry
