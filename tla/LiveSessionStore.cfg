SPECIFICATION Spec
SYMMETRY Symmetry
CONSTANTS
    s1 = s1  s2 = s2
    None = None
    CloseReasons = {gateway_close, output_failed}
    RequestIDs = {k1, k2, k3}
    Segments = {s1, s2}
    DurationOf <- MCDurationOf
    Times = {1, 2}
    Delays = {1}
    HeartbeatInterval = 1
    StallAfter = 1
    FailAfter = 2
    FailureWindow = 1
    MaxDeadLetters = 1
    MaxSequence = 2
    MaxMicroseconds = 1900000
    MaxCount = 1
    Finalizers = {handler, failer}
INVARIANTS RecordLoads MeteredOnce TerminalEventAgrees
PROPERTIES FirstReasonWins
CHECK_DEADLOCK FALSE
