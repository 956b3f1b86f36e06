SPECIFICATION Spec
CONSTANTS
    r1 = r1
    r2 = r2
    r3 = r3
    Seqs = {r1, r2, r3}
    Setups <- OverrunSetups
    None = None
    BlockSize = 2
    TokenBudget = 8
INVARIANTS NoOverrun
CHECK_DEADLOCK FALSE
