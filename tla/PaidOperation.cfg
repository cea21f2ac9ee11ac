SPECIFICATION Spec
SYMMETRY Symmetry
CONSTANTS
    Owners = {g1, g2}
    LeaseDuration = 1
    Skew = 1
    MaxTime = 2
    MaxVersion = 4
    None = None
INVARIANTS ClaimsUnique
PROPERTIES StaleNeverWrites TerminalPermanent WinddownSticks
CHECK_DEADLOCK FALSE
