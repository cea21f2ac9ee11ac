SPECIFICATION Spec
CONSTANTS
    baseline = baseline
    standard = standard
    Submits = {baseline, standard}
    Ladder <- MCLadder
    Duration = 1
    FrameRate = 2
    MaxFaults = 2
    Rec = Rec
INVARIANTS OneJob NeverForgotten AllOrNothing SettledWhenFinal
PROPERTIES Converges
CHECK_DEADLOCK FALSE
