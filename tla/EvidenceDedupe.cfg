CONSTANTS
  Papers <- MCPapers
  Hits <- MCHits
  Labels = {"supports", "challenges", "qualifies", "context"}
  federated = TRUE
  max_queries = 2
  max_candidates = 2
  max_passages = 2
  max_full_text = 1
  max_llm_calls = 3
  MAX_REDIRECTS = 1
  MaxRestarts = 1
SPECIFICATION ESpec
CHECK_DEADLOCK FALSE
INVARIANTS
  WorksCollapse
