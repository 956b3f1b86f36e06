SPECIFICATION Spec
CONSTANTS
    q1 = q1
    q2 = q2
    q3 = q3
    a = a
    b = b
    c = c
    d = d
    None = None
    Submission = {q1, q2, q3}
    Node = {a, b, c, d}
    NodeMapping <- OddNodes
    Workflow <- OddWorkflow
    Reused <- PairReused
    RequestId <- NoIds
    Stamp = {1}
    PoolSize = 2
    Faults = {"lost", "slow"}
INVARIANTS
    TypeOK
    ReleasedInOrder
PROPERTIES
    GeneratedOnce
