SPECIFICATION Spec
CONSTANTS
    Conns = {c1}
    MaxPublishes = 1
    MaxEnds = 1
    MaxFaults = 1
    None = None
INVARIANTS NeverForgotten ReadyIsPublishable
PROPERTIES EndingIsFinal Settles OpenRecovers
CHECK_DEADLOCK FALSE
