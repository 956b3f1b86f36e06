SPECIFICATION Spec
CONSTANTS
    Nodes = {1, 2}
    Step = 2
    MaxIdx = 2
    MaxCalls = 3
INVARIANTS OutsAreVisits NoGap
CHECK_DEADLOCK FALSE
