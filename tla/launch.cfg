SPECIFICATION Spec
CONSTANTS
    Pids = {1, 2, 3, 4}
    Allocations <- Two
    NumGpus = 3
    MaxRuns = 2
    Faults = {"silent", "die", "other"}
INVARIANTS RunGpusDisjoint OnlySparedSurvive
CHECK_DEADLOCK FALSE
