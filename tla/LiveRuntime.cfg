SPECIFICATION FairSpec
CONSTANTS
    Sessions = {s1}
    MaxConcurrent = 1
    MaxFailures = 2
INVARIANTS CapacityExact
PROPERTIES NoRuntimeAfterEnd DeleteReleases DeleteAnswered
