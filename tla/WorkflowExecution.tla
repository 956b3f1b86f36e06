------------------------- MODULE WorkflowExecution -------------------------
(***************************************************************************)
(* What the controller promises the client of POST /query, without         *)
(* coroutines, requests or timeouts: every node of a workflow is generated *)
(* at most once, only after all its parents have been generated, and the   *)
(* query is reported complete only when all its nodes have been.           *)
(* ControllerFlow is shown to implement this specification.                *)
(***************************************************************************)
EXTENDS WorkflowDag

CONSTANTS Submission, Node, NodeMapping, Workflow

VARIABLES
    work,     \* work[s][n]: idle, started or generated
    reported  \* reported[s]: the query is reported complete

workVars == <<work, reported>>

WorkInit ==
    /\ work = [s \in Submission |-> [n \in Node |-> "idle"]]
    /\ reported = [s \in Submission |-> FALSE]

Start(s, n) ==
    /\ n \in NodeMapping[s]
    /\ work[s][n] = "idle"
    /\ \A p \in Workflow[s][n] : work[s][p] = "generated"
    /\ work' = [work EXCEPT ![s][n] = "started"]
    /\ UNCHANGED reported

Generate(s, n) ==
    /\ work[s][n] = "started"
    /\ work' = [work EXCEPT ![s][n] = "generated"]
    /\ UNCHANGED reported

Report(s) ==
    /\ ~ reported[s]
    /\ \A n \in NodeMapping[s] : work[s][n] = "generated"
    /\ reported' = [reported EXCEPT ![s] = TRUE]
    /\ UNCHANGED work

WorkNext ==
    \E s \in Submission :
       \/ Report(s)
       \/ \E n \in Node : Start(s, n) \/ Generate(s, n)

WorkSpec == WorkInit /\ [][WorkNext]_workVars
=============================================================================
