CONSTANTS
    Principals = {p1, p2}
    Subjects = {s1}
    Requests = {r1, r2}
    Uploads = {u1}
    Keys = {k1, k2}
    VoiceIds = {v1}
    Checks = {c1, c2}
    None = None
    DailyChecks = 1
    DailyUploads = 1
    ActiveChecks = 1
    LastDay = 1
    MaxCalls = 4
SPECIFICATION PSpec
CHECK_DEADLOCK FALSE
SYMMETRY Symmetry
INVARIANTS
  RequestsSerialize
PROPERTIES
  SavedSurvive
