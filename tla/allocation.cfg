SPECIFICATION Spec
CONSTANTS
    Agents = {1, 2}
    Inputs <- AllInputs
    MaxIdx = 3
    MinGroup = 1
    MaxGroup = 3
    GpuStep = 2
    Scale = 12
INVARIANTS PlansMinimal GreedyBest MaxMinOptimal
CHECK_DEADLOCK FALSE
