SPECIFICATION Spec
CONSTANTS
    q1 = q1
    q2 = q2
    q3 = q3
    a = a
    b = b
    c = c
    d = d
    None = None
    Submission = {q1, q2}
    Node = {a, b, c}
    NodeMapping <- PairNodes
    Workflow <- PairWorkflow
    Reused <- PairReused
    RequestId <- DistinctIds
    Stamp = {1}
    PoolSize = 2
    Faults = {"unavailable", "engine", "mismatch"}
INVARIANTS
    OwnReport
    CompletionGenuine
    CompletedWithoutError
    Owned
    Tracked
    Coherent
