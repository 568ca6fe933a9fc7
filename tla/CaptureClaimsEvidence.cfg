CONSTANTS
  \* Capture
  MaxSeq = 1
  ChunkLen = 2
  MaxLen = 4
  Sent <- SmallSent
  NoContent = NoContent
  Puts = {p1, p2}
  MaxBytes = 2
  MaxFaults = 1
  \* Claims
  N = 3
  Inputs <- SomeInputs
  MaxChars = 4
  MaxWindow = 2
  max_requests = 4
  reconciliation_requests = 1
  batch_observations = 1
  overlap_observations = 1
  max_observations = 2
  Times <- SomeTimes
  Answers <- SomeAnswers
  \* Evidence
  Papers <- MCPapers
  Hits <- MCHits
  Labels = {"supports", "challenges", "qualifies", "context"}
  federated = TRUE
  max_queries = 2
  max_candidates = 2
  max_passages = 2
  max_full_text = 1
  max_llm_calls = 3
  MAX_REDIRECTS = 1
  MaxRestarts = 1
SPECIFICATION OneSpec
CHECK_DEADLOCK FALSE
INVARIANTS
  ReceiptsHold
  StagesMeet
  NothingSilentlyLost
  WindowsCover
  ClaimsSound
  VerdictHonest
  OutsideBounded
