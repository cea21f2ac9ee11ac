SPECIFICATION GateSpec
CONSTANTS
    l1 = l1  l2 = l2  b1 = b1  b2 = b2
    Workloads = {l1, l2, b1, b2}
    Cohort <- MCCohort
    Processes = {"live_runner", "abr_runner", "transcode_runner"}
    ProcessOf <- MCProcessOf
INVARIANTS NothingStranded
PROPERTIES RefusedOnlyByOpposing ImplementsLease
