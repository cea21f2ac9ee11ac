CONSTANTS
  Listings <- MCListings
  Workloads <- MCWorkloads
  Outcomes <- MCOutcomes
  Calls = {c1, c2, c3}
  TTL = 2
  Threshold = 2
  CooldownMs = 2
  Uint64Max = 7
  MaxTime = 3
  MaxChanges = 1
  MaxInspects = 2
  None = None
  Wrong = Wrong
SYMMETRY CallSymmetry
SPECIFICATION Spec
CHECK_DEADLOCK FALSE
INVARIANT HealthFromHistory
PROPERTIES AnswersServe SnapshotFresh
