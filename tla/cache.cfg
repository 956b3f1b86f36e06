SPECIFICATION Spec
CONSTANTS
    Clients = {k1, k2}
    Uses <- AllUses
    None = None
    Chains = {x, y}
    Depth = 3
    Fork = 1
    NumBlocks = 4
    CleanupThreshold = 2
    MaxClock = 2
SYMMETRY Symmetry
INVARIANTS LazyHeapExact HeapCovers PrefixClosed BisectExact
CHECK_DEADLOCK FALSE
