SPECIFICATION FairSpec
CONSTANTS
    q1 = q1
    q2 = q2
    q3 = q3
    a = a
    b = b
    c = c
    d = d
    None = None
    Submission = {q1, q2}
    Node = {a, b, c, d}
    NodeMapping <- DiamondNodes
    Workflow <- DiamondWorkflow
    Reused <- DiamondReused
    RequestId <- DistinctIds
    Stamp = {}
    PoolSize = 1
    Faults = {}
PROPERTIES
    EventuallyCompleted
