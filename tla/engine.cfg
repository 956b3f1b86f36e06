SPECIFICATION FairSpec
CONSTANTS
    r1 = r1
    r2 = r2
    r3 = r3
    Seqs = {r1, r2, r3}
    Setups <- AllSetups
    None = None
    BlockSize = 2
    TokenBudget = 4
INVARIANTS TypeOK OwnersLive RefsExact TablesAddressed ComputedBacked ContextIntact NoOverrun
PROPERTIES AllServed
CHECK_DEADLOCK FALSE
