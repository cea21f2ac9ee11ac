SPECIFICATION FairSpec
CONSTANTS
    Workloads = {w1}
    Requests = {q1, q2}
    Hashes = {h1, h2}
    Renditions = {r1}
    Pixels = {0, 3}
    UnitPixels = 2
    Limit = 1
    MaxCrashes = 1
INVARIANTS BilledIsStored NoWorkAfterTerminal
PROPERTIES CancelIsNotFailure ClientReleased
