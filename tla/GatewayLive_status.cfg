SPECIFICATION Spec
CONSTANTS
    Conns = {c1}
    MaxPublishes = 2
    MaxEnds = 1
    MaxFaults = 2
    None = None
INVARIANTS StatusAccepted
CHECK_DEADLOCK FALSE
