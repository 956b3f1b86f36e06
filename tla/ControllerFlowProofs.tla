------------------------ MODULE ControllerFlowProofs ------------------------
(* Theorems about ControllerFlow, for every set of submissions, every payload, *)
(* every pool size and every choice of faults.                                 *)
EXTENDS ControllerFlow, FiniteSetTheorems, TLAPS

(* What the marking loop of DAG does. *)

Marks(workflow, nodes, stat, exec, o) ==
    /\ o.raised \in BOOLEAN
    /\ o.raised <=> ~ (DepsMet(workflow, exec) \subseteq nodes)
    /\ \A m \in o.marked :
          /\ m \in nodes
          /\ m \in DOMAIN workflow
          /\ workflow[m] \subseteq exec
          /\ stat[m] = "waiting"
    /\ ~ o.raised => o.marked = Ready(workflow, nodes, stat, exec)

\* The loop marks only waiting nodes whose parents are all executed, and all of
\* them unless it ends in a KeyError.
LEMMA MarkedReady ==
    ASSUME NEW workflow, NEW nodes, NEW stat, NEW exec,
           NEW o \in MarkOutcomes(workflow, nodes, stat, exec)
    PROVE  Marks(workflow, nodes, stat, exec, o)
  <1> DEFINE ready == Ready(workflow, nodes, stat, exec)
  <1>1. \A m \in ready : /\ m \in nodes
                         /\ m \in DOMAIN workflow
                         /\ workflow[m] \subseteq exec
                         /\ stat[m] = "waiting"
    BY DEF Ready, DepsMet
  <1>2. CASE DepsMet(workflow, exec) \subseteq nodes
    <2>1. o = [marked |-> ready, raised |-> FALSE]
      BY <1>2 DEF MarkOutcomes
    <2>2. o.marked = ready /\ o.raised = FALSE
      BY <2>1
    <2> QED BY <1>1, <1>2, <2>2 DEF Marks
  <1>3. CASE ~ (DepsMet(workflow, exec) \subseteq nodes)
    <2>1. PICK m \in SUBSET ready : o = [marked |-> m, raised |-> TRUE]
      BY <1>3 DEF MarkOutcomes
    <2>2. o.marked = m /\ o.raised = TRUE
      BY <2>1
    <2> QED BY <1>1, <1>3, <2>2 DEF Marks
  <1> QED BY <1>2, <1>3

\* A step that applies a report: the nodes it marks, the ones it dispatches and
\* the stage it leaves its handler in.
Applied(s, n, t, marked, spawned, stage, raised) ==
    /\ n \in NodeMapping[t]
    /\ executed' = [executed EXCEPT ![t] = executed[t] \cup {n}]
    /\ status' = [status EXCEPT ![t] =
          [m \in Node |-> IF m \in marked THEN "executing"
                          ELSE IF m = n THEN "finished" ELSE status[t][m]]]
    /\ task' = [task EXCEPT ![t] =
          [m \in Node |-> IF m \in spawned THEN "route" ELSE task[t][m]]]
    /\ handler' = [handler EXCEPT ![s][n] = stage]
    /\ raised <=> ~ (DepsMet(Workflow[t], executed[t] \cup {n}) \subseteq NodeMapping[t])
    /\ \A m \in marked :
          /\ m \in NodeMapping[t] /\ m # n
          /\ m \in DOMAIN Workflow[t]
          /\ Workflow[t][m] \subseteq executed[t] \cup {n}
          /\ status[t][m] = "waiting"
    /\ ~ raised =>
          \A m \in NodeMapping[t] \cap DOMAIN Workflow[t] :
             /\ m # n /\ status[t][m] = "waiting"
             /\ Workflow[t][m] \subseteq executed[t] \cup {n}
             => m \in marked
    /\ \/ /\ stage = "nested" /\ spawned = marked /\ marked # {} /\ ~ raised
          /\ children' = [children EXCEPT ![s][n] = marked]
          /\ completed' = completed
       \/ /\ stage = "done" /\ spawned = {} /\ (raised \/ marked = {})
          /\ children' = children
          /\ completed' = [completed EXCEPT ![t] =
                \/ completed[t]
                \/ ~ raised /\ is_completed(NodeMapping[t], executed[t] \cup {n})]

\* UpdateResult either ignores the report of an unknown key or applies it.
LEMMA UpdateResultCases ==
    ASSUME TypeOK,
           NEW s \in Submission, NEW n \in Node, NEW t \in Submission,
           UpdateResult(s, n, t)
    PROVE  \/ /\ n \notin NodeMapping[t]
              /\ handler' = [handler EXCEPT ![s][n] = "done"]
              /\ UNCHANGED <<status, executed, completed, task, children>>
           \/ \E marked \in SUBSET Node, spawned \in SUBSET Node,
                 stage \in {"nested", "done"}, raised \in BOOLEAN :
                    Applied(s, n, t, marked, spawned, stage, raised)
  <1> DEFINE ex == executed[t] \cup {n}
             st == [status[t] EXCEPT ![n] = "finished"]
  <1>1. CASE n \notin NodeMapping[t]
    BY <1>1 DEF UpdateResult
  <1>2. CASE n \in NodeMapping[t]
    <2>1. PICK o \in MarkOutcomes(Workflow[t], NodeMapping[t], st, ex) :
             /\ executed' = [executed EXCEPT ![t] = ex]
             /\ status' = [status EXCEPT ![t] = Mark(st, o.marked)]
             /\ \/ /\ ~ o.raised /\ o.marked # {}
                   /\ Spawn(t, o.marked)
                   /\ children' = [children EXCEPT ![s][n] = o.marked]
                   /\ handler' = [handler EXCEPT ![s][n] = "nested"]
                   /\ UNCHANGED completed
                \/ /\ o.raised \/ o.marked = {}
                   /\ handler' = [handler EXCEPT ![s][n] = "done"]
                   /\ completed' = [completed EXCEPT ![t] =
                          \/ completed[t]
                          \/ ~ o.raised /\ is_completed(NodeMapping[t], ex)]
                   /\ UNCHANGED <<task, children>>
      BY <1>2 DEF UpdateResult
    <2>2. status[t] \in [Node -> NodeStatus]
      BY DEF TypeOK
    <2>3. \A m \in o.marked :
             /\ m \in NodeMapping[t]
             /\ m \in DOMAIN Workflow[t]
             /\ Workflow[t][m] \subseteq ex
             /\ st[m] = "waiting"
      <3>1. Marks(Workflow[t], NodeMapping[t], st, ex, o)
        BY MarkedReady
      <3> QED BY <3>1 DEF Marks
    <2>4. o.marked \in SUBSET Node
      BY <2>3, PayloadAssumption
    <2>5. \A m \in o.marked : m # n /\ status[t][m] = "waiting"
      BY <2>2, <2>3, <2>4
    <2>9. /\ o.raised <=> ~ (DepsMet(Workflow[t], ex) \subseteq NodeMapping[t])
          /\ o.raised \in BOOLEAN
          /\ ~ o.raised =>
                \A m \in NodeMapping[t] \cap DOMAIN Workflow[t] :
                   /\ m # n /\ status[t][m] = "waiting"
                   /\ Workflow[t][m] \subseteq ex
                   => m \in o.marked
      <3>1. Marks(Workflow[t], NodeMapping[t], st, ex, o)
        BY MarkedReady
      <3>2. \A m \in NodeMapping[t] : m # n => st[m] = status[t][m]
        BY <2>2, PayloadAssumption
      <3>3. /\ o.raised <=> ~ (DepsMet(Workflow[t], ex) \subseteq NodeMapping[t])
            /\ o.raised \in BOOLEAN
        BY <3>1 DEF Marks
      <3>4. ~ o.raised => o.marked = Ready(Workflow[t], NodeMapping[t], st, ex)
        BY <3>1 DEF Marks
      <3> HIDE DEF st, ex
      <3> QED BY <3>2, <3>3, <3>4 DEF Ready, DepsMet
    <2>6. Mark(st, o.marked) =
             [m \in Node |-> IF m \in o.marked THEN "executing"
                             ELSE IF m = n THEN "finished" ELSE status[t][m]]
      BY <2>2 DEF Mark
    <2>7. CASE ~ o.raised /\ o.marked # {} /\ handler' = [handler EXCEPT ![s][n] = "nested"]
               /\ Spawn(t, o.marked) /\ UNCHANGED completed
               /\ children' = [children EXCEPT ![s][n] = o.marked]
      <3>1. Applied(s, n, t, o.marked, o.marked, "nested", o.raised)
        BY <1>2, <2>1, <2>3, <2>5, <2>6, <2>7, <2>9 DEF Applied, Spawn
      <3> QED BY <3>1, <2>4, <2>9
    <2>8. CASE /\ o.raised \/ o.marked = {}
               /\ handler' = [handler EXCEPT ![s][n] = "done"]
               /\ completed' = [completed EXCEPT ![t] =
                          \/ completed[t]
                          \/ ~ o.raised /\ is_completed(NodeMapping[t], ex)]
               /\ UNCHANGED <<task, children>>
      <3>1. task' = [task EXCEPT ![t] =
               [m \in Node |-> IF m \in {} THEN "route" ELSE task[t][m]]]
        BY <2>8 DEF TypeOK
      <3>4. Applied(s, n, t, o.marked, {}, "done", o.raised)
        BY <1>2, <2>1, <2>3, <2>5, <2>6, <2>8, <2>9, <3>1 DEF Applied
      <3> QED BY <3>4, <2>4, <2>9
    <2> QED BY <2>1, <2>7, <2>8
  <1> QED BY <1>1, <1>2
-----------------------------------------------------------------------------
(* Type correctness and the coherence of the coroutines, proved together: a  *)
(* report is applied to a registered submission only because Coherent holds. *)

\* The submission that a handler works on is a registered one.
LEMMA TargetRegistered ==
    ASSUME TypeOK, Coherent, NEW s \in Submission, NEW n \in Node
    PROVE  /\ handler[s][n] # "none" => queries[queryId[s]] \in Registered
           /\ handler[s][n] \in {"migwait", "migrate", "nested"} =>
                 target[s][n] \in Registered
           /\ Registered \subseteq Submission
  <1>1. handler[s][n] # "none" => task[s][n] # "none"
    BY DEF Coherent
  <1>2. Registered \subseteq Submission
    BY DEF Registered
  <1> QED BY <1>1, <1>2 DEF Coherent

\* UpdateResult keeps the types of what it changes.
LEMMA UpdateResultType ==
    ASSUME TypeOK,
           NEW s \in Submission, NEW n \in Node, NEW t \in Submission,
           UpdateResult(s, n, t)
    PROVE  /\ status' \in [Submission -> [Node -> NodeStatus]]
           /\ executed' \in [Submission -> SUBSET Node]
           /\ completed' \in [Submission -> BOOLEAN]
           /\ task' \in [Submission -> [Node -> TaskStage]]
           /\ handler' \in [Submission -> [Node -> HandlerStage]]
           /\ children' \in [Submission -> [Node -> SUBSET Node]]
  <1>1. CASE /\ handler' = [handler EXCEPT ![s][n] = "done"]
             /\ UNCHANGED <<status, executed, completed, task, children>>
    BY <1>1 DEF TypeOK, HandlerStage
  <1>2. ASSUME NEW marked \in SUBSET Node, NEW spawned \in SUBSET Node,
               NEW stage \in {"nested", "done"}, NEW raised \in BOOLEAN,
               Applied(s, n, t, marked, spawned, stage, raised)
        PROVE  /\ status' \in [Submission -> [Node -> NodeStatus]]
               /\ executed' \in [Submission -> SUBSET Node]
               /\ completed' \in [Submission -> BOOLEAN]
               /\ task' \in [Submission -> [Node -> TaskStage]]
               /\ handler' \in [Submission -> [Node -> HandlerStage]]
               /\ children' \in [Submission -> [Node -> SUBSET Node]]
    <2>1. status' \in [Submission -> [Node -> NodeStatus]]
      BY <1>2 DEF Applied, TypeOK, NodeStatus
    <2>2. executed' \in [Submission -> SUBSET Node]
      BY <1>2 DEF Applied, TypeOK
    <2>3. completed' \in [Submission -> BOOLEAN]
      BY <1>2 DEF Applied, TypeOK
    <2>4. task' \in [Submission -> [Node -> TaskStage]]
      BY <1>2 DEF Applied, TypeOK, TaskStage
    <2>5. handler' \in [Submission -> [Node -> HandlerStage]]
      BY <1>2 DEF Applied, TypeOK, HandlerStage
    <2>6. children' \in [Submission -> [Node -> SUBSET Node]]
      <3>1. CASE children' = [children EXCEPT ![s][n] = marked]
        <4>1. [children[s] EXCEPT ![n] = marked] \in [Node -> SUBSET Node]
          BY DEF TypeOK
        <4> QED BY <3>1, <4>1 DEF TypeOK
      <3>2. CASE children' = children
        BY <3>2 DEF TypeOK
      <3> QED BY <1>2, <3>1, <3>2 DEF Applied
    <2> QED BY <2>1, <2>2, <2>3, <2>4, <2>5, <2>6
  <1>3. \/ /\ handler' = [handler EXCEPT ![s][n] = "done"]
           /\ UNCHANGED <<status, executed, completed, task, children>>
        \/ \E marked \in SUBSET Node, spawned \in SUBSET Node,
              stage \in {"nested", "done"}, raised \in BOOLEAN :
                 Applied(s, n, t, marked, spawned, stage, raised)
    BY UpdateResultCases
  <1> QED BY <1>1, <1>2, <1>3

\* Every step of the controller, an instance or the network keeps the types.
LEMMA TypeStep == TypeOK /\ Coherent /\ [Next]_vars => TypeOK'
  <1> SUFFICES ASSUME TypeOK, Coherent, [Next]_vars PROVE TypeOK'
    OBVIOUS
  <1> USE DEF dagVars, hndVars
  <1>1. ASSUME NEW s \in Submission, CreateQuery(s) PROVE TypeOK'
    <2>1. PICK id \in QueryIds :
             /\ queryId' = [queryId EXCEPT ![s] = id]
             /\ queries' = [queries EXCEPT ![id] = s]
      BY <1>1 DEF CreateQuery, QueryIds
    <2> QED BY <1>1, <2>1 DEF CreateQuery, TypeOK
  <1>2. ASSUME NEW s \in Submission, ExecuteQuery(s) PROVE TypeOK'
    <2>1. PICK o \in MarkOutcomes(Workflow[s], NodeMapping[s], status[s], {}) :
             /\ status' = [status EXCEPT ![s] = Mark(status[s], o.marked)]
             /\ Spawn(s, IF o.raised THEN {} ELSE o.marked)
             /\ error' = [error EXCEPT ![s] = error[s] \/ o.raised]
      BY <1>2 DEF ExecuteQuery
    <2>2. status' \in [Submission -> [Node -> NodeStatus]]
      BY <2>1 DEF TypeOK, Mark, NodeStatus
    <2>3. task' \in [Submission -> [Node -> TaskStage]]
      BY <2>1 DEF TypeOK, Spawn, TaskStage
    <2>4. error' \in [Submission -> BOOLEAN]
      <3>1. (error[s] \/ o.raised) \in BOOLEAN
        OBVIOUS
      <3> QED BY <2>1, <3>1 DEF TypeOK
    <2> QED BY <1>2, <2>2, <2>3, <2>4 DEF ExecuteQuery, TypeOK
  <1>3. ASSUME NEW s \in Submission, NEW n \in Node, NodeStep(s, n)
        PROVE  TypeOK'
    <2>1. CASE RouteAcquire(s, n)
      BY <2>1 DEF RouteAcquire, TypeOK, TaskStage
    <2>2. CASE RouteReturn(s, n)
      BY <2>2 DEF RouteReturn, TypeOK, TaskStage
    <2>3. CASE DispatchSend(s, n)
      BY <2>3 DEF DispatchSend, TypeOK, TaskStage, GenStage
    <2>4. CASE DispatchReturn(s, n)
      <3>1. (error[s] \/ gen[s][n] = "failed") \in BOOLEAN
        OBVIOUS
      <3> QED BY <2>4, <3>1 DEF DispatchReturn, TypeOK, TaskStage
    <2>5. CASE GenerateFinish(s, n)
      BY <2>5 DEF GenerateFinish, TypeOK, GenStage, HandlerStage
    <2>6. CASE PostReturn(s, n)
      BY <2>6 DEF PostReturn, EndPost, TypeOK, GenStage
    <2>7. CASE PostTimeout(s, n)
      BY <2>7 DEF PostTimeout, EndPost, TypeOK, GenStage
    <2>8. CASE NodeComplete(s, n)
      <3> DEFINE t == queries[queryId[s]]
      <3>1. t \in Submission
        BY <2>8, TargetRegistered DEF NodeComplete
      <3>2. UpdateResult(s, n, t)
        BY <2>8 DEF NodeComplete
      <3> HIDE DEF t
      <3>3. target' \in [Submission -> [Node -> Submission \cup {None}]]
        BY <2>8, <3>1 DEF NodeComplete, TypeOK, t
      <3> QED BY <2>8, <3>1, <3>2, <3>3, UpdateResultType DEF NodeComplete, TypeOK
    <2>9. CASE NodeCompleteMigrate(s, n)
      BY <2>9, TargetRegistered DEF NodeCompleteMigrate, TypeOK, HandlerStage
    <2>10. CASE NodeCompleteRefused(s, n)
      BY <2>10, TargetRegistered DEF NodeCompleteRefused, TypeOK, HandlerStage
    <2>11. CASE MigrateAcquire(s, n)
      BY <2>11 DEF MigrateAcquire, TypeOK, HandlerStage
    <2>12. CASE MigrateReturn(s, n)
      <3>1. target[s][n] \in Submission
        BY <2>12, TargetRegistered DEF MigrateReturn
      <3> QED BY <2>12, <3>1, UpdateResultType DEF MigrateReturn, TypeOK
    <2>13. CASE ScheduleReturn(s, n)
      <3> DEFINE t == target[s][n]
      <3>1. (completed[t] \/ is_completed(NodeMapping[t], executed[t])) \in BOOLEAN
        OBVIOUS
      <3> HIDE DEF t
      <3>2. completed' \in [Submission -> BOOLEAN]
        BY <2>13, <3>1 DEF ScheduleReturn, TypeOK, t
      <3> QED BY <2>13, <3>2 DEF ScheduleReturn, TypeOK, HandlerStage
    <2> QED BY <1>3, <2>1, <2>2, <2>3, <2>4, <2>5, <2>6, <2>7, <2>8, <2>9,
               <2>10, <2>11, <2>12, <2>13 DEF NodeStep
  <1>4. ASSUME NEW s \in Submission, NEW n \in Node, FaultStep(s, n)
        PROVE  TypeOK'
    <2>1. CASE RouteFail(s, n)
      BY <2>1 DEF RouteFail, TypeOK, TaskStage
    <2>2. CASE DispatchFail(s, n)
      BY <2>2 DEF DispatchFail, TypeOK, TaskStage
    <2>3. CASE DispatchTimeout(s, n)
      BY <2>3 DEF DispatchTimeout, TypeOK, TaskStage
    <2>4. CASE GenerateMismatch(s, n)
      BY <2>4 DEF GenerateMismatch, TypeOK, GenStage, HandlerStage
    <2>5. CASE EngineFail(s, n)
      BY <2>5 DEF EngineFail, TypeOK, GenStage
    <2>6. CASE PostLost(s, n)
      BY <2>6 DEF PostLost, EndPost, TypeOK, GenStage, HandlerStage
    <2> QED BY <1>4, <2>1, <2>2, <2>3, <2>4, <2>5, <2>6 DEF FaultStep
  <1>5. CASE UNCHANGED vars
    BY <1>5 DEF vars, TypeOK
  <1> QED BY <1>1, <1>2, <1>3, <1>4, <1>5 DEF Next, Terminated

\* is_completed compares lengths; on a set of known keys that is equality.
LEMMA CompletedMeansAll ==
    ASSUME NEW nodes, IsFiniteSet(nodes), NEW exec \in SUBSET nodes
    PROVE  is_completed(nodes, exec) <=> exec = nodes
  <1>1. Cardinality(nodes) = Cardinality(exec) => nodes = exec
    BY FS_Subset
  <1> QED BY <1>1 DEF is_completed

(* The parts of Coherent, for one submission and for one of its nodes. *)
CoherentQuery(s) ==
    /\ s \in Registered => queries[queryId[s]] \in Registered
    /\ executed[s] \subseteq NodeMapping[s]
    /\ completed[s] => executed[s] = NodeMapping[s]

CoherentNode(s, n) ==
    /\ task[s][n] # "none" =>
          s \in Registered /\ status[s][n] # "waiting" /\ n \in NodeMapping[s]
    /\ gen[s][n] # "none" => task[s][n] \in {"generate", "done"}
    /\ handler[s][n] # "none" => gen[s][n] \notin {"none", "running"}
    /\ handler[s][n] \in {"migwait", "migrate", "nested"} =>
          target[s][n] \in Registered
    /\ n \in executed[s] => status[s][n] = "finished"

\* Applying a report keeps the coroutines coherent: a released node was waiting,
\* hence it had no task and no generation.
LEMMA UpdateResultCoherent ==
    ASSUME TypeOK, Coherent,
           NEW s \in Submission, NEW n \in Node, NEW t \in Registered,
           UpdateResult(s, n, t),
           handler[s][n] # "none",
           UNCHANGED <<phase, queryId, queries, gen>>,
           target' = [target EXCEPT ![s][n] = t]
    PROVE  Coherent'
  <1>0. t \in Submission /\ Registered' = Registered
    BY DEF Registered
  <1>1. CASE /\ handler' = [handler EXCEPT ![s][n] = "done"]
             /\ UNCHANGED <<status, executed, completed, task, children>>
    BY <1>0, <1>1 DEF TypeOK, Coherent
  <1>2. ASSUME NEW marked \in SUBSET Node, NEW spawned \in SUBSET Node,
               NEW stage \in {"nested", "done"}, NEW raised \in BOOLEAN,
               Applied(s, n, t, marked, spawned, stage, raised)
        PROVE  Coherent'
    <2> SUFFICES ASSUME NEW r \in Submission
                 PROVE  CoherentQuery(r)' /\ \A m \in Node : CoherentNode(r, m)'
      BY DEF Coherent, CoherentQuery, CoherentNode
    <2>1. CoherentQuery(r)'
      <3>1. CoherentQuery(r) /\ IsFiniteSet(NodeMapping[r])
        BY PayloadAssumption DEF Coherent, CoherentQuery
      <3>2. executed'[r] = IF r = t THEN executed[t] \cup {n} ELSE executed[r]
        BY <1>0, <1>2 DEF Applied, TypeOK
      <3>3. executed'[r] \subseteq NodeMapping[r]
        BY <1>2, <3>1, <3>2 DEF Applied, CoherentQuery
      <3>4. completed'[r] =>
               completed[r] \/ (r = t /\ is_completed(NodeMapping[r], executed'[r]))
        BY <1>0, <1>2, <3>2 DEF Applied, TypeOK
      <3>5. completed'[r] => executed'[r] = NodeMapping[r]
        BY <3>1, <3>2, <3>3, <3>4, CompletedMeansAll DEF CoherentQuery
      <3> QED BY <1>0, <3>1, <3>3, <3>5 DEF CoherentQuery
    <2>2. ASSUME NEW m \in Node PROVE CoherentNode(r, m)'
      <3>1. CoherentNode(r, m)
        BY DEF Coherent, CoherentNode
      <3>2. /\ m \in spawned => m \in marked
            /\ m \in marked => m # n /\ m \in NodeMapping[t] /\ status[t][m] = "waiting"
            /\ n \in NodeMapping[t]
        BY <1>2 DEF Applied
      <3>3. /\ task'[r][m] = IF r = t /\ m \in spawned THEN "route" ELSE task[r][m]
            /\ status'[r][m] = IF r = t /\ m \in marked THEN "executing"
                               ELSE IF r = t /\ m = n THEN "finished"
                               ELSE status[r][m]
            /\ m \in executed'[r] <=> m \in executed[r] \/ (r = t /\ m = n)
            /\ gen'[r][m] = gen[r][m]
        BY <1>0, <1>2 DEF Applied, TypeOK
      <3>4. /\ handler'[r][m] = IF r = s /\ m = n THEN stage ELSE handler[r][m]
            /\ target'[r][m] = IF r = s /\ m = n THEN t ELSE target[r][m]
        BY <1>0, <1>2 DEF Applied, TypeOK
      <3> QED BY <1>0, <3>1, <3>2, <3>3, <3>4 DEF CoherentNode
    <2> QED BY <2>1, <2>2
  <1>3. \/ /\ handler' = [handler EXCEPT ![s][n] = "done"]
           /\ UNCHANGED <<status, executed, completed, task, children>>
        \/ \E marked \in SUBSET Node, spawned \in SUBSET Node,
              stage \in {"nested", "done"}, raised \in BOOLEAN :
                 Applied(s, n, t, marked, spawned, stage, raised)
    BY <1>0, UpdateResultCases
  <1> QED BY <1>1, <1>2, <1>3

\* Every step keeps each coroutine where the ones it serves expect it.
LEMMA CoherentStep == TypeOK /\ Coherent /\ [Next]_vars => Coherent'
  <1> SUFFICES ASSUME TypeOK, Coherent, [Next]_vars PROVE Coherent'
    OBVIOUS
  <1> USE DEF dagVars, hndVars
  <1>1. ASSUME NEW s \in Submission, CreateQuery(s) PROVE Coherent'
    <2>1. PICK id \in QueryIds :
             /\ queryId' = [queryId EXCEPT ![s] = id]
             /\ queries' = [queries EXCEPT ![id] = s]
      BY <1>1 DEF CreateQuery, QueryIds
    <2>2. Registered' = Registered \cup {s}
      BY <1>1 DEF CreateQuery, Registered, TypeOK
    <2> QED BY <1>1, <2>1, <2>2 DEF CreateQuery, TypeOK, Coherent
  <1>2. ASSUME NEW s \in Submission, ExecuteQuery(s) PROVE Coherent'
    <2>1. PICK o \in MarkOutcomes(Workflow[s], NodeMapping[s], status[s], {}) :
             /\ status' = [status EXCEPT ![s] = Mark(status[s], o.marked)]
             /\ Spawn(s, IF o.raised THEN {} ELSE o.marked)
             /\ error' = [error EXCEPT ![s] = error[s] \/ o.raised]
      BY <1>2 DEF ExecuteQuery
    <2>2. Registered' = Registered /\ s \in Registered
      BY <1>2 DEF ExecuteQuery, Registered, TypeOK
    <2>3. \A m \in o.marked : m \in NodeMapping[s] /\ status[s][m] = "waiting"
      <3>1. Marks(Workflow[s], NodeMapping[s], status[s], {}, o)
        BY MarkedReady
      <3> QED BY <3>1 DEF Marks
    <2>4. ASSUME NEW r \in Submission
          PROVE  CoherentQuery(r)' /\ \A m \in Node : CoherentNode(r, m)'
      <3>1. CoherentQuery(r)'
        BY <1>2, <2>2 DEF ExecuteQuery, Coherent, CoherentQuery
      <3>2. ASSUME NEW m \in Node PROVE CoherentNode(r, m)'
        <4>1. CoherentNode(r, m)
          BY DEF Coherent, CoherentNode
        <4>2. /\ status'[r][m] = IF r = s /\ m \in o.marked THEN "executing"
                                 ELSE status[r][m]
              /\ task'[r][m] \in IF r = s /\ m \in o.marked
                                 THEN {"route", task[r][m]} ELSE {task[r][m]}
          BY <2>1 DEF TypeOK, Mark, Spawn
        <4> QED BY <1>2, <2>2, <2>3, <4>1, <4>2 DEF ExecuteQuery, CoherentNode
      <3> QED BY <3>1, <3>2
    <2> QED BY <2>4 DEF Coherent, CoherentQuery, CoherentNode
  <1>3. ASSUME NEW s \in Submission, NEW n \in Node, NodeStep(s, n)
        PROVE  Coherent'
    <2>1. CASE RouteAcquire(s, n)
      BY <2>1 DEF RouteAcquire, TypeOK, Coherent, Registered
    <2>2. CASE RouteReturn(s, n)
      BY <2>2 DEF RouteReturn, TypeOK, Coherent, Registered
    <2>3. CASE DispatchSend(s, n)
      BY <2>3 DEF DispatchSend, TypeOK, Coherent, Registered
    <2>4. CASE DispatchReturn(s, n)
      BY <2>4 DEF DispatchReturn, TypeOK, Coherent, Registered
    <2>5. CASE GenerateFinish(s, n)
      <3>1. \A r \in Submission : CoherentQuery(r)'
        BY <2>5 DEF GenerateFinish, Coherent, CoherentQuery, Registered
      <3>2. ASSUME NEW r \in Submission, NEW m \in Node
            PROVE  CoherentNode(r, m)'
        <4>1. CoherentNode(r, m) /\ Registered' = Registered
          BY <2>5 DEF GenerateFinish, Coherent, CoherentNode, Registered
        <4>2. /\ gen'[r][m] = IF r = s /\ m = n THEN "posting" ELSE gen[r][m]
              /\ handler'[r][m] = IF r = s /\ m = n THEN "arrived" ELSE handler[r][m]
          BY <2>5 DEF GenerateFinish, TypeOK
        <4> QED BY <2>5, <4>1, <4>2 DEF GenerateFinish, CoherentNode
      <3> QED BY <3>1, <3>2 DEF Coherent, CoherentQuery, CoherentNode
    <2>6. CASE PostReturn(s, n)
      BY <2>6 DEF PostReturn, EndPost, TypeOK, Coherent, Registered
    <2>7. CASE PostTimeout(s, n)
      BY <2>7 DEF PostTimeout, EndPost, TypeOK, Coherent, Registered
    <2>8. CASE NodeComplete(s, n)
      <3> DEFINE t == queries[queryId[s]]
      <3>1. t \in Registered
        BY <2>8, TargetRegistered DEF NodeComplete
      <3>2. UpdateResult(s, n, t)
        BY <2>8 DEF NodeComplete
      <3>3. target' = [target EXCEPT ![s][n] = t]
        BY <2>8 DEF NodeComplete
      <3> HIDE DEF t
      <3> QED BY <2>8, <3>1, <3>2, <3>3, UpdateResultCoherent DEF NodeComplete
    <2>9. CASE NodeCompleteMigrate(s, n)
      BY <2>9, TargetRegistered DEF NodeCompleteMigrate, TypeOK, Coherent, Registered
    <2>10. CASE NodeCompleteRefused(s, n)
      BY <2>10, TargetRegistered DEF NodeCompleteRefused, TypeOK, Coherent, Registered
    <2>11. CASE MigrateAcquire(s, n)
      BY <2>11 DEF MigrateAcquire, TypeOK, Coherent, Registered
    <2>12. CASE MigrateReturn(s, n)
      <3> DEFINE t == target[s][n]
      <3>1. t \in Registered
        BY <2>12, TargetRegistered DEF MigrateReturn
      <3>2. UpdateResult(s, n, t)
        BY <2>12 DEF MigrateReturn
      <3>3. target' = [target EXCEPT ![s][n] = t]
        BY <2>12 DEF MigrateReturn, TypeOK
      <3> HIDE DEF t
      <3> QED BY <2>12, <3>1, <3>2, <3>3, UpdateResultCoherent DEF MigrateReturn
    <2>13. CASE ScheduleReturn(s, n)
      <3> DEFINE t == target[s][n]
      <3>1. t \in Submission
        BY <2>13, TargetRegistered DEF ScheduleReturn
      <3>2. is_completed(NodeMapping[t], executed[t]) => executed[t] = NodeMapping[t]
        BY <3>1, CompletedMeansAll, PayloadAssumption DEF Coherent
      <3>3. completed' = [completed EXCEPT ![t] =
               completed[t] \/ is_completed(NodeMapping[t], executed[t])]
        BY <2>13 DEF ScheduleReturn
      <3> HIDE DEF t
      <3>4. \A r \in Submission : completed'[r] => executed[r] = NodeMapping[r]
        BY <3>1, <3>2, <3>3 DEF TypeOK, Coherent
      <3> QED BY <2>13, <3>4 DEF ScheduleReturn, TypeOK, Coherent, Registered
    <2> QED BY <1>3, <2>1, <2>2, <2>3, <2>4, <2>5, <2>6, <2>7, <2>8, <2>9,
               <2>10, <2>11, <2>12, <2>13 DEF NodeStep
  <1>4. ASSUME NEW s \in Submission, NEW n \in Node, FaultStep(s, n)
        PROVE  Coherent'
    <2>1. CASE RouteFail(s, n)
      BY <2>1 DEF RouteFail, TypeOK, Coherent, Registered
    <2>2. CASE DispatchFail(s, n)
      BY <2>2 DEF DispatchFail, TypeOK, Coherent, Registered
    <2>3. CASE DispatchTimeout(s, n)
      BY <2>3 DEF DispatchTimeout, TypeOK, Coherent, Registered
    <2>4. CASE GenerateMismatch(s, n)
      BY <2>4 DEF GenerateMismatch, TypeOK, Coherent, Registered
    <2>5. CASE EngineFail(s, n)
      BY <2>5 DEF EngineFail, TypeOK, Coherent, Registered
    <2>6. CASE PostLost(s, n)
      BY <2>6 DEF PostLost, EndPost, TypeOK, Coherent, Registered
    <2> QED BY <1>4, <2>1, <2>2, <2>3, <2>4, <2>5, <2>6 DEF FaultStep
  <1>5. CASE UNCHANGED vars
    BY <1>5 DEF vars, Coherent, Registered
  <1> QED BY <1>1, <1>2, <1>3, <1>4, <1>5 DEF Next, Terminated

\* A controller without queries is well typed and coherent.
LEMMA InitCoherent == Init => TypeOK /\ Coherent
  <1> SUFFICES ASSUME Init PROVE TypeOK /\ Coherent
    OBVIOUS
  <1>1. TypeOK
    BY RequestAssumption
       DEF Init, TypeOK, NodeStatus, TaskStage, GenStage, HandlerStage, QueryIds
  <1>2. Coherent
    BY DEF Init, Coherent, Registered
  <1> QED BY <1>1, <1>2

\* The state of the controller and of the instances keeps its types, and the
\* coroutines stay where the ones they serve expect them: no handler works on
\* an unregistered query, no generation runs without a dispatch.
THEOREM TypeCorrect == Spec => [](TypeOK /\ Coherent)
  <1>1. TypeOK /\ Coherent /\ [Next]_vars => (TypeOK /\ Coherent)'
    BY TypeStep, CoherentStep
  <1> QED BY InitCoherent, <1>1, PTL DEF Spec

\* Every state of the controller is well typed, for every payload, every id and
\* every fault: queries never maps an id to anything but a submission, and a
\* handler never works on None.
THEOREM Typed == Spec => []TypeOK
  BY TypeCorrect, PTL
-----------------------------------------------------------------------------
(* The order in which nodes are released. *)

\* Applying a report releases only nodes whose parents are all recorded.
LEMMA UpdateResultReleases ==
    ASSUME TypeOK, ReleasedInOrder,
           NEW s \in Submission, NEW n \in Node, NEW t \in Submission,
           UpdateResult(s, n, t)
    PROVE  ReleasedInOrder'
  <1>1. CASE /\ handler' = [handler EXCEPT ![s][n] = "done"]
             /\ UNCHANGED <<status, executed, completed, task, children>>
    BY <1>1 DEF ReleasedInOrder
  <1>2. ASSUME NEW marked \in SUBSET Node, NEW spawned \in SUBSET Node,
               NEW stage \in {"nested", "done"}, NEW raised \in BOOLEAN,
               Applied(s, n, t, marked, spawned, stage, raised)
        PROVE  ReleasedInOrder'
    <2> SUFFICES ASSUME NEW r \in Submission, NEW m \in Node, task'[r][m] # "none"
                 PROVE  m \in DOMAIN Workflow[r] /\ Workflow[r][m] \subseteq executed'[r]
      BY DEF ReleasedInOrder
    <2>1. /\ task'[r][m] = IF r = t /\ m \in spawned THEN "route" ELSE task[r][m]
          /\ executed'[r] = IF r = t THEN executed[t] \cup {n} ELSE executed[r]
      BY <1>2 DEF Applied, TypeOK
    <2>2. CASE r = t /\ m \in spawned
      BY <1>2, <2>1, <2>2 DEF Applied
    <2>3. CASE ~ (r = t /\ m \in spawned)
      BY <2>1, <2>3 DEF ReleasedInOrder
    <2> QED BY <2>2, <2>3
  <1>3. \/ /\ handler' = [handler EXCEPT ![s][n] = "done"]
           /\ UNCHANGED <<status, executed, completed, task, children>>
        \/ \E marked \in SUBSET Node, spawned \in SUBSET Node,
              stage \in {"nested", "done"}, raised \in BOOLEAN :
                 Applied(s, n, t, marked, spawned, stage, raised)
    BY UpdateResultCases
  <1> QED BY <1>1, <1>2, <1>3

\* No step dispatches a node before its parents are recorded.
LEMMA ReleaseStep ==
    TypeOK /\ Coherent /\ ReleasedInOrder /\ [Next]_vars => ReleasedInOrder'
  <1> SUFFICES ASSUME TypeOK, Coherent, ReleasedInOrder, [Next]_vars
               PROVE  ReleasedInOrder'
    OBVIOUS
  <1> USE DEF dagVars, hndVars
  <1>1. ASSUME NEW s \in Submission, CreateQuery(s) PROVE ReleasedInOrder'
    BY <1>1 DEF CreateQuery, ReleasedInOrder
  <1>2. ASSUME NEW s \in Submission, ExecuteQuery(s) PROVE ReleasedInOrder'
    <2>1. PICK o \in MarkOutcomes(Workflow[s], NodeMapping[s], status[s], {}) :
             Spawn(s, IF o.raised THEN {} ELSE o.marked)
      BY <1>2 DEF ExecuteQuery
    <2>2. \A m \in o.marked : m \in DOMAIN Workflow[s] /\ Workflow[s][m] = {}
      <3>1. Marks(Workflow[s], NodeMapping[s], status[s], {}, o)
        BY MarkedReady
      <3> QED BY <3>1 DEF Marks
    <2>3. \A r \in Submission, m \in Node :
             task'[r][m] = task[r][m] \/ (r = s /\ m \in o.marked)
      BY <2>1 DEF Spawn, TypeOK
    <2> QED BY <1>2, <2>2, <2>3 DEF ExecuteQuery, ReleasedInOrder
  <1>3. ASSUME NEW s \in Submission, NEW n \in Node, NodeStep(s, n)
        PROVE  ReleasedInOrder'
    <2>1. CASE RouteAcquire(s, n)
      BY <2>1 DEF RouteAcquire, TypeOK, ReleasedInOrder
    <2>2. CASE RouteReturn(s, n)
      BY <2>2 DEF RouteReturn, TypeOK, ReleasedInOrder
    <2>3. CASE DispatchSend(s, n)
      BY <2>3 DEF DispatchSend, TypeOK, ReleasedInOrder
    <2>4. CASE DispatchReturn(s, n)
      BY <2>4 DEF DispatchReturn, TypeOK, ReleasedInOrder
    <2>5. CASE GenerateFinish(s, n)
      BY <2>5 DEF GenerateFinish, TypeOK, ReleasedInOrder
    <2>6. CASE PostReturn(s, n)
      BY <2>6 DEF PostReturn, EndPost, TypeOK, ReleasedInOrder
    <2>7. CASE PostTimeout(s, n)
      BY <2>7 DEF PostTimeout, EndPost, TypeOK, ReleasedInOrder
    <2>8. CASE NodeComplete(s, n)
      <3> DEFINE t == queries[queryId[s]]
      <3>1. t \in Submission
        BY <2>8, TargetRegistered DEF NodeComplete
      <3>2. UpdateResult(s, n, t)
        BY <2>8 DEF NodeComplete
      <3> HIDE DEF t
      <3> QED BY <3>1, <3>2, UpdateResultReleases
    <2>9. CASE NodeCompleteMigrate(s, n)
      BY <2>9 DEF NodeCompleteMigrate, TypeOK, ReleasedInOrder
    <2>10. CASE NodeCompleteRefused(s, n)
      BY <2>10 DEF NodeCompleteRefused, TypeOK, ReleasedInOrder
    <2>11. CASE MigrateAcquire(s, n)
      BY <2>11 DEF MigrateAcquire, TypeOK, ReleasedInOrder
    <2>12. CASE MigrateReturn(s, n)
      <3>1. target[s][n] \in Submission
        BY <2>12, TargetRegistered DEF MigrateReturn
      <3>2. UpdateResult(s, n, target[s][n])
        BY <2>12 DEF MigrateReturn
      <3> QED BY <3>1, <3>2, UpdateResultReleases
    <2>13. CASE ScheduleReturn(s, n)
      BY <2>13 DEF ScheduleReturn, TypeOK, ReleasedInOrder
    <2> QED BY <1>3, <2>1, <2>2, <2>3, <2>4, <2>5, <2>6, <2>7, <2>8, <2>9, <2>10, <2>11, <2>12, <2>13
            DEF NodeStep
  <1>4. ASSUME NEW s \in Submission, NEW n \in Node, FaultStep(s, n)
        PROVE  ReleasedInOrder'
    <2>1. CASE RouteFail(s, n)
      BY <2>1 DEF RouteFail, TypeOK, ReleasedInOrder
    <2>2. CASE DispatchFail(s, n)
      BY <2>2 DEF DispatchFail, TypeOK, ReleasedInOrder
    <2>3. CASE DispatchTimeout(s, n)
      BY <2>3 DEF DispatchTimeout, TypeOK, ReleasedInOrder
    <2>4. CASE GenerateMismatch(s, n)
      BY <2>4 DEF GenerateMismatch, TypeOK, ReleasedInOrder
    <2>5. CASE EngineFail(s, n)
      BY <2>5 DEF EngineFail, TypeOK, ReleasedInOrder
    <2>6. CASE PostLost(s, n)
      BY <2>6 DEF PostLost, EndPost, TypeOK, ReleasedInOrder
    <2> QED BY <1>4, <2>1, <2>2, <2>3, <2>4, <2>5, <2>6 DEF FaultStep
  <1>5. CASE UNCHANGED vars
    BY <1>5 DEF vars, ReleasedInOrder
  <1> QED BY <1>1, <1>2, <1>3, <1>4, <1>5 DEF Next, Terminated

\* A node is handed to _dispatch_node_async only after update_result recorded
\* all its parents, for every payload and even when query ids collide.
THEOREM ReleaseOrder == Spec => []ReleasedInOrder
  <1>1. Init => ReleasedInOrder
    BY DEF Init, ReleasedInOrder
  <1> QED BY <1>1, TypeCorrect, ReleaseStep, PTL DEF Spec
-----------------------------------------------------------------------------
(* No node is generated twice. *)

\* Applying a report never dispatches a node that an instance has seen.
LEMMA UpdateResultNotAgain ==
    ASSUME TypeOK, Coherent,
           NEW s \in Submission, NEW n \in Node, NEW t \in Submission,
           UpdateResult(s, n, t), gen' = gen
    PROVE  \A r \in Submission, m \in Node : NotAgain(r, m)
  <1>1. CASE /\ handler' = [handler EXCEPT ![s][n] = "done"]
             /\ UNCHANGED <<status, executed, completed, task, children>>
    BY <1>1 DEF TypeOK, Coherent, NotAgain
  <1>2. ASSUME NEW marked \in SUBSET Node, NEW spawned \in SUBSET Node,
               NEW stage \in {"nested", "done"}, NEW raised \in BOOLEAN,
               Applied(s, n, t, marked, spawned, stage, raised)
        PROVE  \A r \in Submission, m \in Node : NotAgain(r, m)
    <2> SUFFICES ASSUME NEW r \in Submission, NEW m \in Node
                 PROVE  NotAgain(r, m)
      OBVIOUS
    <2>1. /\ task'[r][m] = IF r = t /\ m \in spawned THEN "route" ELSE task[r][m]
          /\ m \in spawned => status[t][m] = "waiting"
      BY <1>2 DEF Applied, TypeOK
    <2> QED BY <2>1 DEF TypeOK, Coherent, NotAgain
  <1>3. \/ /\ handler' = [handler EXCEPT ![s][n] = "done"]
           /\ UNCHANGED <<status, executed, completed, task, children>>
        \/ \E marked \in SUBSET Node, spawned \in SUBSET Node,
              stage \in {"nested", "done"}, raised \in BOOLEAN :
                 Applied(s, n, t, marked, spawned, stage, raised)
    BY UpdateResultCases
  <1> QED BY <1>1, <1>2, <1>3

\* No step lets an instance generate a node again.
LEMMA NotAgainStep ==
    TypeOK /\ Coherent /\ [Next]_vars =>
       \A r \in Submission, m \in Node : NotAgain(r, m)
  <1> SUFFICES ASSUME TypeOK, Coherent, [Next]_vars,
                      NEW r \in Submission, NEW m \in Node
               PROVE  NotAgain(r, m)
    OBVIOUS
  <1>0. /\ gen[r][m] # "none" => task[r][m] \in {"generate", "done"}
        /\ task[r][m] # "none" => status[r][m] # "waiting"
    BY DEF Coherent
  <1> USE <1>0 DEF dagVars, hndVars
  <1>1. ASSUME NEW s \in Submission, CreateQuery(s) PROVE NotAgain(r, m)
    BY <1>1 DEF CreateQuery, TypeOK, NotAgain
  <1>2. ASSUME NEW s \in Submission, ExecuteQuery(s) PROVE NotAgain(r, m)
    <2>1. PICK o \in MarkOutcomes(Workflow[s], NodeMapping[s], status[s], {}) :
             Spawn(s, IF o.raised THEN {} ELSE o.marked)
      BY <1>2 DEF ExecuteQuery
    <2>2. \A k \in o.marked : status[s][k] = "waiting"
      <3>1. Marks(Workflow[s], NodeMapping[s], status[s], {}, o)
        BY MarkedReady
      <3> QED BY <3>1 DEF Marks
    <2>3. task'[r][m] = task[r][m] \/ (r = s /\ m \in o.marked)
      BY <2>1 DEF Spawn, TypeOK
    <2> QED BY <1>2, <2>2, <2>3 DEF ExecuteQuery, TypeOK, NotAgain
  <1>3. ASSUME NEW s \in Submission, NEW n \in Node, NodeStep(s, n)
        PROVE  NotAgain(r, m)
    <2>1. CASE RouteAcquire(s, n)
      BY <2>1 DEF RouteAcquire, TypeOK, NotAgain
    <2>2. CASE RouteReturn(s, n)
      BY <2>2 DEF RouteReturn, TypeOK, NotAgain
    <2>3. CASE DispatchSend(s, n)
      BY <2>3 DEF DispatchSend, TypeOK, NotAgain
    <2>4. CASE DispatchReturn(s, n)
      BY <2>4 DEF DispatchReturn, TypeOK, NotAgain
    <2>5. CASE GenerateFinish(s, n)
      BY <2>5 DEF GenerateFinish, TypeOK, NotAgain
    <2>6. CASE PostReturn(s, n)
      BY <2>6 DEF PostReturn, EndPost, TypeOK, NotAgain
    <2>7. CASE PostTimeout(s, n)
      BY <2>7 DEF PostTimeout, EndPost, TypeOK, NotAgain
    <2>8. CASE NodeComplete(s, n)
      <3> DEFINE t == queries[queryId[s]]
      <3>1. t \in Submission
        BY <2>8, TargetRegistered DEF NodeComplete
      <3>2. UpdateResult(s, n, t) /\ gen' = gen
        BY <2>8 DEF NodeComplete
      <3> HIDE DEF t
      <3> QED BY <3>1, <3>2, UpdateResultNotAgain
    <2>9. CASE NodeCompleteMigrate(s, n)
      BY <2>9 DEF NodeCompleteMigrate, TypeOK, NotAgain
    <2>10. CASE NodeCompleteRefused(s, n)
      BY <2>10 DEF NodeCompleteRefused, TypeOK, NotAgain
    <2>11. CASE MigrateAcquire(s, n)
      BY <2>11 DEF MigrateAcquire, TypeOK, NotAgain
    <2>12. CASE MigrateReturn(s, n)
      <3>1. target[s][n] \in Submission
        BY <2>12, TargetRegistered DEF MigrateReturn
      <3>2. UpdateResult(s, n, target[s][n]) /\ gen' = gen
        BY <2>12 DEF MigrateReturn
      <3> QED BY <3>1, <3>2, UpdateResultNotAgain
    <2>13. CASE ScheduleReturn(s, n)
      BY <2>13 DEF ScheduleReturn, TypeOK, NotAgain
    <2> QED BY <1>3, <2>1, <2>2, <2>3, <2>4, <2>5, <2>6, <2>7, <2>8, <2>9, <2>10, <2>11, <2>12, <2>13
            DEF NodeStep
  <1>4. ASSUME NEW s \in Submission, NEW n \in Node, FaultStep(s, n)
        PROVE  NotAgain(r, m)
    <2>1. CASE RouteFail(s, n)
      BY <2>1 DEF RouteFail, TypeOK, NotAgain
    <2>2. CASE DispatchFail(s, n)
      BY <2>2 DEF DispatchFail, TypeOK, NotAgain
    <2>3. CASE DispatchTimeout(s, n)
      BY <2>3 DEF DispatchTimeout, TypeOK, NotAgain
    <2>4. CASE GenerateMismatch(s, n)
      BY <2>4 DEF GenerateMismatch, TypeOK, NotAgain
    <2>5. CASE EngineFail(s, n)
      BY <2>5 DEF EngineFail, TypeOK, NotAgain
    <2>6. CASE PostLost(s, n)
      BY <2>6 DEF PostLost, EndPost, TypeOK, NotAgain
    <2> QED BY <1>4, <2>1, <2>2, <2>3, <2>4, <2>5, <2>6 DEF FaultStep
  <1>5. CASE UNCHANGED vars
    BY <1>5 DEF vars, TypeOK, NotAgain
  <1> QED BY <1>1, <1>2, <1>3, <1>4, <1>5 DEF Next, Terminated

\* The instances are never asked to generate a node of a query twice, whatever
\* reports come in twice, late or for another query with the same id.
THEOREM NoRegeneration == Spec => GeneratedOnce
  <1>1. TypeOK /\ Coherent /\ [Next]_vars =>
           [\A s \in Submission, n \in Node : NotAgain(s, n)]_vars
    BY NotAgainStep
  <1> QED BY <1>1, TypeCorrect, PTL DEF Spec, GeneratedOnce
-----------------------------------------------------------------------------
(***************************************************************************)
(* With unique query ids: every report is applied to the query whose node  *)
(* was generated, the controller implements WorkflowExecution, and an      *)
(* error and completion exclude each other.                                *)
(***************************************************************************)
(* The parts of Owned, for one submission and for one of its nodes. *)
OwnedQuery(s) ==
    /\ queryId[s] = RequestId[s]
    /\ phase[s] # "absent" => queries[queryId[s]] = s

OwnedNode(s, n) ==
    /\ handler[s][n] \in {"migwait", "migrate", "nested"} => target[s][n] = s
    /\ handler[s][n] \in {"arrived", "migwait", "migrate", "nested"} =>
          Generated(s, n)
    /\ handler[s][n] = "refused" => gen[s][n] \in {"mismatch", "failed"}
    /\ n \in executed[s] => Generated(s, n)

\* Owned is the conjunction of its parts, in this and in the next state.
LEMMA OwnedParts ==
    /\ Owned <=> \A s \in Submission :
                    OwnedQuery(s) /\ \A n \in Node : OwnedNode(s, n)
    /\ Owned' <=> \A s \in Submission :
                    OwnedQuery(s)' /\ \A n \in Node : OwnedNode(s, n)'
  BY DEF Owned, OwnedQuery, OwnedNode

\* A query applies only reports of nodes that were generated for it.
LEMMA UpdateResultOwned ==
    ASSUME TypeOK,
           NEW s \in Submission, NEW n \in Node, UpdateResult(s, n, s),
           handler[s][n] \in {"arrived", "migwait", "migrate"},
           gen' = gen, target' = [target EXCEPT ![s][n] = s],
           NEW r \in Submission, NEW m \in Node,
           OwnedNode(s, n), OwnedNode(r, m)
    PROVE  OwnedNode(r, m)'
  <1>1. CASE /\ handler' = [handler EXCEPT ![s][n] = "done"]
             /\ UNCHANGED <<status, executed, completed, task, children>>
    BY <1>1 DEF TypeOK, OwnedNode, Generated
  <1>2. ASSUME NEW marked \in SUBSET Node, NEW spawned \in SUBSET Node,
               NEW stage \in {"nested", "done"}, NEW raised \in BOOLEAN,
               Applied(s, n, s, marked, spawned, stage, raised)
        PROVE  OwnedNode(r, m)'
    <2>1. /\ m \in executed'[r] <=> m \in executed[r] \/ (r = s /\ m = n)
          /\ handler'[r][m] = IF r = s /\ m = n THEN stage ELSE handler[r][m]
          /\ target'[r][m] = IF r = s /\ m = n THEN s ELSE target[r][m]
      BY <1>2 DEF Applied, TypeOK
    <2> QED BY <2>1 DEF OwnedNode, Generated
  <1>3. \/ /\ handler' = [handler EXCEPT ![s][n] = "done"]
           /\ UNCHANGED <<status, executed, completed, task, children>>
        \/ \E marked \in SUBSET Node, spawned \in SUBSET Node,
              stage \in {"nested", "done"}, raised \in BOOLEAN :
                 Applied(s, n, s, marked, spawned, stage, raised)
    BY UpdateResultCases
  <1> QED BY <1>1, <1>2, <1>3

\* The registry part: an id is never given to a second submission.
LEMMA OwnedQueryStep ==
    ASSUME UniqueQueryIds, TypeOK, [Next]_vars,
           NEW r \in Submission, OwnedQuery(r)
    PROVE  OwnedQuery(r)'
  <1> USE DEF dagVars
  <1>1. ASSUME NEW s \in Submission, CreateQuery(s) PROVE OwnedQuery(r)'
    <2>1. /\ queryId' = [queryId EXCEPT ![s] = RequestId[s]]
          /\ queries' = [queries EXCEPT ![RequestId[s]] = s]
          /\ phase' = [phase EXCEPT ![s] = "accepted"]
          /\ RequestId[s] \in QueryIds
      BY <1>1 DEF CreateQuery, UniqueQueryIds, QueryIds
    <2> QED BY <2>1 DEF OwnedQuery, UniqueQueryIds, TypeOK
  <1>2. ASSUME NEW s \in Submission, ExecuteQuery(s) PROVE OwnedQuery(r)'
    BY <1>2 DEF ExecuteQuery, TypeOK, OwnedQuery
  <1>3. ASSUME NEW s \in Submission, NEW n \in Node,
               NodeStep(s, n) \/ FaultStep(s, n)
        PROVE  OwnedQuery(r)'
    BY <1>3 DEF OwnedQuery, NodeStep, FaultStep, RouteAcquire, RouteReturn,
       DispatchSend, DispatchReturn, GenerateFinish, PostReturn, PostTimeout,
       NodeComplete, NodeCompleteMigrate, NodeCompleteRefused, MigrateAcquire,
       MigrateReturn, ScheduleReturn, RouteFail, DispatchFail, DispatchTimeout,
       GenerateMismatch, EngineFail, PostLost
  <1>4. CASE UNCHANGED vars
    BY <1>4 DEF vars, OwnedQuery
  <1> QED BY <1>1, <1>2, <1>3, <1>4 DEF Next, Terminated

\* The node part: a handler works on its own query.
LEMMA OwnedNodeStep ==
    ASSUME UniqueQueryIds, TypeOK, Coherent, Owned, [Next]_vars,
           NEW r \in Submission, NEW m \in Node
    PROVE  OwnedNode(r, m)'
  <1>0. \A s \in Submission, n \in Node :
           /\ OwnedQuery(s) /\ OwnedNode(s, n)
           /\ handler[s][n] # "none" => queries[queryId[s]] = s
           /\ handler[s][n] \in {"migwait", "migrate", "nested"} => target[s][n] = s
           /\ handler[s][n] # "none" => gen[s][n] \notin {"none", "running"}
           /\ gen[s][n] # "none" => task[s][n] \in {"generate", "done"}
    <2>1. \A s \in Submission, n \in Node :
             handler[s][n] # "none" => phase[s] # "absent"
      BY DEF Coherent, Registered
    <2> QED BY <2>1, OwnedParts DEF Coherent, OwnedQuery, OwnedNode
  <1>a. OwnedNode(r, m)
    BY <1>0
  <1> USE <1>a DEF dagVars, hndVars
  <1>1. ASSUME NEW s \in Submission, CreateQuery(s) PROVE OwnedNode(r, m)'
    BY <1>1 DEF CreateQuery, OwnedNode, Generated
  <1>2. ASSUME NEW s \in Submission, ExecuteQuery(s) PROVE OwnedNode(r, m)'
    BY <1>2 DEF ExecuteQuery, OwnedNode, Generated
  <1>3. ASSUME NEW s \in Submission, NEW n \in Node, NodeStep(s, n)
        PROVE  OwnedNode(r, m)'
    <2>1. CASE RouteAcquire(s, n)
      BY <2>1 DEF RouteAcquire, TypeOK, OwnedNode, Generated
    <2>2. CASE RouteReturn(s, n)
      BY <2>2 DEF RouteReturn, TypeOK, OwnedNode, Generated
    <2>3. CASE DispatchSend(s, n)
      BY <1>0, <2>3 DEF DispatchSend, TypeOK, OwnedNode, Generated
    <2>4. CASE DispatchReturn(s, n)
      BY <2>4 DEF DispatchReturn, TypeOK, OwnedNode, Generated
    <2>5. CASE GenerateFinish(s, n)
      BY <2>5 DEF GenerateFinish, TypeOK, OwnedNode, Generated
    <2>6. CASE PostReturn(s, n)
      BY <2>6 DEF PostReturn, EndPost, TypeOK, OwnedNode, Generated
    <2>7. CASE PostTimeout(s, n)
      BY <2>7 DEF PostTimeout, EndPost, TypeOK, OwnedNode, Generated
    <2>8. CASE NodeComplete(s, n)
      <3>1. UpdateResult(s, n, s) /\ handler[s][n] = "arrived" /\ gen' = gen
        BY <2>8, <1>0 DEF NodeComplete
      <3>2. target' = [target EXCEPT ![s][n] = s]
        BY <2>8, <1>0 DEF NodeComplete
      <3> QED BY <1>0, <3>1, <3>2, UpdateResultOwned
    <2>9. CASE NodeCompleteMigrate(s, n)
      BY <2>9, <1>0 DEF NodeCompleteMigrate, TypeOK, OwnedNode, Generated
    <2>10. CASE NodeCompleteRefused(s, n)
      BY <2>10 DEF NodeCompleteRefused, TypeOK, OwnedNode, Generated
    <2>11. CASE MigrateAcquire(s, n)
      BY <2>11 DEF MigrateAcquire, TypeOK, OwnedNode, Generated
    <2>12. CASE MigrateReturn(s, n)
      <3>1. /\ UpdateResult(s, n, s) /\ handler[s][n] \in {"migwait", "migrate"}
            /\ gen' = gen
        BY <2>12, <1>0 DEF MigrateReturn
      <3>2. target' = [target EXCEPT ![s][n] = s]
        BY <2>12, <1>0 DEF MigrateReturn, TypeOK
      <3> QED BY <1>0, <3>1, <3>2, UpdateResultOwned
    <2>13. CASE ScheduleReturn(s, n)
      BY <2>13 DEF ScheduleReturn, TypeOK, OwnedNode, Generated
    <2> QED BY <1>3, <2>1, <2>2, <2>3, <2>4, <2>5, <2>6, <2>7, <2>8, <2>9, <2>10, <2>11, <2>12, <2>13
            DEF NodeStep
  <1>4. ASSUME NEW s \in Submission, NEW n \in Node, FaultStep(s, n)
        PROVE  OwnedNode(r, m)'
    <2>1. CASE RouteFail(s, n)
      BY <2>1 DEF RouteFail, TypeOK, OwnedNode, Generated
    <2>2. CASE DispatchFail(s, n)
      BY <2>2 DEF DispatchFail, TypeOK, OwnedNode, Generated
    <2>3. CASE DispatchTimeout(s, n)
      BY <2>3 DEF DispatchTimeout, TypeOK, OwnedNode, Generated
    <2>4. CASE GenerateMismatch(s, n)
      BY <2>4 DEF GenerateMismatch, TypeOK, OwnedNode, Generated
    <2>5. CASE EngineFail(s, n)
      BY <2>5 DEF EngineFail, TypeOK, OwnedNode, Generated
    <2>6. CASE PostLost(s, n)
      BY <2>6 DEF PostLost, EndPost, TypeOK, OwnedNode, Generated
    <2> QED BY <1>4, <2>1, <2>2, <2>3, <2>4, <2>5, <2>6 DEF FaultStep
  <1>5. CASE UNCHANGED vars
    BY <1>5 DEF vars, OwnedNode, Generated
  <1> QED BY <1>1, <1>2, <1>3, <1>4, <1>5 DEF Next, Terminated

\* With unique query ids every step keeps reports with their own query.
LEMMA OwnedStep ==
    ASSUME UniqueQueryIds
    PROVE  TypeOK /\ Coherent /\ Owned /\ [Next]_vars => Owned'
  <1> SUFFICES ASSUME TypeOK, Coherent, Owned, [Next]_vars PROVE Owned'
    OBVIOUS
  <1>1. \A r \in Submission : OwnedQuery(r)'
    BY OwnedQueryStep, OwnedParts
  <1>2. \A r \in Submission, m \in Node : OwnedNode(r, m)'
    BY OwnedNodeStep
  <1> QED BY <1>1, <1>2, OwnedParts
-----------------------------------------------------------------------------
(* What unique ids buy. *)

\* With unique query ids Owned is an invariant.
THEOREM Ownership ==
    ASSUME UniqueQueryIds PROVE Spec => []Owned
  <1>1. Init => Owned
    BY DEF Init, Owned
  <1> QED BY <1>1, TypeCorrect, OwnedStep, PTL DEF Spec

\* A report is applied only to the query whose node was generated.
THEOREM ReportsStayHome ==
    ASSUME UniqueQueryIds PROVE Spec => []OwnReport
  <1>1. Owned => OwnReport
    BY DEF Owned, OwnReport
  <1> QED BY <1>1, Ownership, PTL

\* A completed query had every node of its own generated, with the expected
\* tokens, whatever failed or timed out meanwhile.
THEOREM CompletionIsGenuine ==
    ASSUME UniqueQueryIds PROVE Spec => []CompletionGenuine
  <1>1. Coherent /\ Owned => CompletionGenuine
    BY PayloadAssumption DEF Coherent, Owned, CompletionGenuine
  <1> QED BY <1>1, Ownership, TypeCorrect, PTL
-----------------------------------------------------------------------------
(* The controller implements WorkflowExecution. *)

\* A report changes the completed flag of at most the query it is applied to.
LEMMA UpdateResultReports ==
    ASSUME TypeOK,
           NEW s \in Submission, NEW n \in Node, NEW t \in Submission,
           UpdateResult(s, n, t)
    PROVE  completed' = completed \/ completed' = [completed EXCEPT ![t] = TRUE]
  <1>2. ASSUME NEW raised,
               completed' = [completed EXCEPT ![t] =
                  \/ completed[t]
                  \/ ~ raised /\ is_completed(NodeMapping[t], executed[t] \cup {n})]
        PROVE  completed' = completed \/ completed' = [completed EXCEPT ![t] = TRUE]
    BY <1>2 DEF TypeOK
  <1>3. \/ completed' = completed
        \/ \E marked \in SUBSET Node, spawned \in SUBSET Node,
              stage \in {"nested", "done"}, raised \in BOOLEAN :
                 Applied(s, n, t, marked, spawned, stage, raised)
    BY UpdateResultCases
  <1>4. ASSUME NEW marked \in SUBSET Node, NEW spawned \in SUBSET Node,
               NEW stage \in {"nested", "done"}, NEW raised \in BOOLEAN,
               Applied(s, n, t, marked, spawned, stage, raised)
        PROVE  completed' = completed \/ completed' = [completed EXCEPT ![t] = TRUE]
    BY <1>2, <1>4 DEF Applied
  <1> QED BY <1>3, <1>4

\* A step that only sets a completed flag is a Report of the abstract system,
\* or nothing.
LEMMA CompletionStep ==
    ASSUME TypeOK, Coherent', Owned', NEW t \in Submission, gen' = gen,
           completed' = completed \/ completed' = [completed EXCEPT ![t] = TRUE]
    PROVE  [Work!WorkNext]_(Work!workVars)
  <1>1. WorkOf' = WorkOf
    BY DEF WorkOf, Generated
  <1>2. CASE completed' = completed
    BY <1>1, <1>2 DEF Work!workVars
  <1>3. CASE completed' = [completed EXCEPT ![t] = TRUE] /\ ~ completed[t]
    <2>1. completed'[t]
      BY <1>3 DEF TypeOK
    <2>2. executed'[t] = NodeMapping[t]
      BY <2>1 DEF Coherent
    <2>3. \A n \in NodeMapping[t] : n \in Node /\ Generated(t, n)
      BY <2>2, PayloadAssumption DEF Owned, Generated
    <2>4. \A n \in NodeMapping[t] : WorkOf[t][n] = "generated"
      BY <2>3 DEF WorkOf, Generated
    <2>5. Work!Report(t)
      BY <1>1, <1>3, <2>4 DEF Work!Report
    <2> QED BY <2>5 DEF Work!WorkNext
  <1>4. CASE completed' = [completed EXCEPT ![t] = TRUE] /\ completed[t]
    <2>1. completed' = completed
      BY <1>4 DEF TypeOK
    <2> QED BY <1>1, <2>1 DEF Work!workVars
  <1> QED BY <1>2, <1>3, <1>4

\* Every step of the controller is a step of the abstract system, or nothing.
LEMMA WorkStep ==
    TypeOK /\ Coherent /\ Coherent' /\ ReleasedInOrder /\ Owned /\ Owned'
      /\ [Next]_vars => [Work!WorkNext]_(Work!workVars)
  <1> SUFFICES ASSUME TypeOK, Coherent, Coherent', ReleasedInOrder,
                      Owned, Owned', [Next]_vars
               PROVE  [Work!WorkNext]_(Work!workVars)
    OBVIOUS
  <1> USE DEF dagVars, hndVars
  <1>1. ASSUME NEW s \in Submission, CreateQuery(s) \/ ExecuteQuery(s)
        PROVE  [Work!WorkNext]_(Work!workVars)
    BY <1>1 DEF CreateQuery, ExecuteQuery, WorkOf, Generated, Work!workVars
  <1>2. ASSUME NEW s \in Submission, NEW n \in Node, NodeStep(s, n)
        PROVE  [Work!WorkNext]_(Work!workVars)
    <2>1. CASE RouteAcquire(s, n)
      BY <2>1 DEF RouteAcquire, WorkOf, Generated, Work!workVars
    <2>2. CASE RouteReturn(s, n)
      BY <2>2 DEF RouteReturn, WorkOf, Generated, Work!workVars
    <2>3. CASE DispatchSend(s, n)
      <3>1. task[s][n] # "none" /\ gen[s][n] = "none"
        BY <2>3 DEF DispatchSend, Coherent
      <3>2. n \in NodeMapping[s] /\ \A p \in Workflow[s][n] : p \in Node /\ Generated(s, p)
        BY <3>1, PayloadAssumption DEF Coherent, ReleasedInOrder, Owned
      <3>3. \A p \in Node : Generated(s, p) => WorkOf[s][p] = "generated"
        BY DEF WorkOf, Generated
      <3>4. WorkOf[s][n] = "idle"
        BY <3>1 DEF WorkOf
      <3>5. WorkOf' = [WorkOf EXCEPT ![s][n] = "started"]
        BY <2>3 DEF DispatchSend, WorkOf, Generated, TypeOK
      <3>6. Work!Start(s, n)
        BY <2>3, <3>2, <3>3, <3>4, <3>5 DEF DispatchSend, Work!Start
      <3> QED BY <3>6 DEF Work!WorkNext
    <2>4. CASE DispatchReturn(s, n)
      BY <2>4 DEF DispatchReturn, WorkOf, Generated, Work!workVars
    <2>5. CASE GenerateFinish(s, n)
      <3>1. WorkOf[s][n] = "started"
        BY <2>5 DEF GenerateFinish, WorkOf, Generated
      <3>2. WorkOf' = [WorkOf EXCEPT ![s][n] = "generated"]
        BY <2>5 DEF GenerateFinish, WorkOf, Generated, TypeOK
      <3>3. Work!Generate(s, n)
        BY <2>5, <3>1, <3>2 DEF GenerateFinish, Work!Generate
      <3> QED BY <3>3 DEF Work!WorkNext
    <2>6. CASE PostReturn(s, n)
      BY <2>6 DEF PostReturn, EndPost, TypeOK, WorkOf, Generated, Work!workVars
    <2>7. CASE PostTimeout(s, n)
      BY <2>7 DEF PostTimeout, EndPost, TypeOK, WorkOf, Generated, Work!workVars
    <2>8. CASE NodeComplete(s, n)
      <3>1. queries[queryId[s]] \in Submission
        BY <2>8, TargetRegistered DEF NodeComplete
      <3>2. UpdateResult(s, n, queries[queryId[s]]) /\ gen' = gen
        BY <2>8 DEF NodeComplete
      <3> QED BY <3>1, <3>2, UpdateResultReports, CompletionStep
    <2>9. CASE NodeCompleteMigrate(s, n)
      BY <2>9 DEF NodeCompleteMigrate, WorkOf, Generated, Work!workVars
    <2>10. CASE NodeCompleteRefused(s, n)
      BY <2>10 DEF NodeCompleteRefused, WorkOf, Generated, Work!workVars
    <2>11. CASE MigrateAcquire(s, n)
      BY <2>11 DEF MigrateAcquire, WorkOf, Generated, Work!workVars
    <2>12. CASE MigrateReturn(s, n)
      <3>1. target[s][n] \in Submission
        BY <2>12, TargetRegistered DEF MigrateReturn
      <3>2. UpdateResult(s, n, target[s][n]) /\ gen' = gen
        BY <2>12 DEF MigrateReturn
      <3> QED BY <3>1, <3>2, UpdateResultReports, CompletionStep
    <2>13. CASE ScheduleReturn(s, n)
      <3> DEFINE t == target[s][n]
      <3>1. t \in Submission
        BY <2>13, TargetRegistered DEF ScheduleReturn
      <3>2. /\ gen' = gen
            /\ completed' = [completed EXCEPT ![t] =
                  completed[t] \/ is_completed(NodeMapping[t], executed[t])]
        BY <2>13 DEF ScheduleReturn
      <3> HIDE DEF t
      <3>3. completed' = completed \/ completed' = [completed EXCEPT ![t] = TRUE]
        BY <3>1, <3>2 DEF TypeOK
      <3> QED BY <3>1, <3>2, <3>3, CompletionStep
    <2> QED BY <1>2, <2>1, <2>2, <2>3, <2>4, <2>5, <2>6, <2>7, <2>8, <2>9, <2>10, <2>11, <2>12, <2>13
            DEF NodeStep
  <1>3. ASSUME NEW s \in Submission, NEW n \in Node, FaultStep(s, n)
        PROVE  [Work!WorkNext]_(Work!workVars)
    <2>1. CASE RouteFail(s, n)
      BY <2>1 DEF RouteFail, WorkOf, Generated, Work!workVars
    <2>2. CASE DispatchFail(s, n)
      BY <2>2 DEF DispatchFail, WorkOf, Generated, Work!workVars
    <2>3. CASE DispatchTimeout(s, n)
      BY <2>3 DEF DispatchTimeout, WorkOf, Generated, Work!workVars
    <2>4. CASE GenerateMismatch(s, n)
      BY <2>4 DEF GenerateMismatch, TypeOK, WorkOf, Generated, Work!workVars
    <2>5. CASE EngineFail(s, n)
      BY <2>5 DEF EngineFail, TypeOK, WorkOf, Generated, Work!workVars
    <2>6. CASE PostLost(s, n)
      BY <2>6 DEF PostLost, EndPost, TypeOK, WorkOf, Generated, Work!workVars
    <2> QED BY <1>3, <2>1, <2>2, <2>3, <2>4, <2>5, <2>6 DEF FaultStep
  <1>4. CASE UNCHANGED vars
    BY <1>4 DEF vars, WorkOf, Generated, Work!workVars
  <1> QED BY <1>1, <1>2, <1>3, <1>4 DEF Next, Terminated

\* Under unique query ids the controller, its instances and all their faults
\* implement WorkflowExecution: generated at most once, after the parents, and
\* reported complete only when all is generated.
THEOREM Implementation ==
    ASSUME UniqueQueryIds PROVE Spec => ImplementsWorkflow
  <1>1. Init => Work!WorkInit
    BY DEF Init, Work!WorkInit, WorkOf
  <1>2. TypeOK /\ Coherent /\ Coherent' /\ ReleasedInOrder /\ Owned /\ Owned'
          /\ [Next]_vars => [Work!WorkNext]_(Work!workVars)
    BY WorkStep
  <1>3. Spec => [](TypeOK /\ Coherent) /\ []ReleasedInOrder /\ []Owned
    BY TypeCorrect, ReleaseOrder, Ownership
  <1> QED BY <1>1, <1>2, <1>3, PTL DEF Spec, ImplementsWorkflow, Work!WorkSpec
-----------------------------------------------------------------------------
(* An error is never found on a query that completed. *)

\* No dispatch of s was ever started, and s has not completed.
Unborn(s) == ~ completed[s] /\ \A n \in Node : task[s][n] = "none"

\* The generation of n failed, or its dispatch ended without one.
Doomed(s, n) ==
    \/ gen[s][n] \in {"mismatch", "failed"}
    \/ task[s][n] = "done" /\ gen[s][n] = "none"

\* A query without a dispatch is unborn, and an error has a cause that keeps
\* the query from completing.
BlamedQuery(s) ==
    /\ phase[s] # "started" => Unborn(s)
    /\ error[s] => \/ phase[s] = "started" /\ Unborn(s)
                   \/ \E n \in NodeMapping[s] : Doomed(s, n)

Blamed == \A s \in Submission : BlamedQuery(s)

\* What applying a report does to the nodes and the flag of a query: it spawns
\* waiting nodes of its target only, and completes its target only.
LEMMA UpdateResultSpawns ==
    ASSUME TypeOK, Coherent,
           NEW s \in Submission, NEW n \in Node, UpdateResult(s, n, s),
           NEW r \in Submission
    PROVE  /\ r # s => completed'[r] = completed[r]
           /\ \A m \in Node :
                 \/ task'[r][m] = task[r][m]
                 \/ r = s /\ task[r][m] = "none" /\ task'[r][m] = "route"
  <1>1. CASE UNCHANGED <<completed, task>>
    BY <1>1
  <1>2. ASSUME NEW marked \in SUBSET Node, NEW spawned \in SUBSET Node,
               NEW stage \in {"nested", "done"}, NEW raised \in BOOLEAN,
               Applied(s, n, s, marked, spawned, stage, raised)
        PROVE  /\ r # s => completed'[r] = completed[r]
               /\ \A m \in Node :
                     \/ task'[r][m] = task[r][m]
                     \/ r = s /\ task[r][m] = "none" /\ task'[r][m] = "route"
    <2>1. r # s => completed'[r] = completed[r]
      BY <1>2 DEF Applied, TypeOK
    <2>2. \A m \in spawned : task[s][m] = "none"
      <3>1. \A m \in spawned : m \in Node /\ status[s][m] = "waiting"
        BY <1>2 DEF Applied
      <3> QED BY <3>1 DEF Coherent
    <2>3. \A m \in Node : task'[r][m] =
             IF r = s /\ m \in spawned THEN "route" ELSE task[r][m]
      BY <1>2 DEF Applied, TypeOK
    <2> QED BY <2>1, <2>2, <2>3
  <1>3. \/ UNCHANGED <<completed, task>>
        \/ \E marked \in SUBSET Node, spawned \in SUBSET Node,
              stage \in {"nested", "done"}, raised \in BOOLEAN :
                 Applied(s, n, s, marked, spawned, stage, raised)
    BY UpdateResultCases
  <1> QED BY <1>1, <1>2, <1>3

\* What a step of a coroutine, an instance or the network may do to a query r:
\* everything it does to other queries is irrelevant.
Local(s, n, r) ==
    /\ phase' = phase
    /\ Unborn(r) => Unborn(r)'
    /\ \A m \in Node : Doomed(r, m) => Doomed(r, m)'
    /\ error'[r] => error[r] \/ \E m \in NodeMapping[r] : Doomed(r, m)'

\* Every such step keeps the unborn unborn and the doomed doomed, and gives an
\* error only to a query with a doomed node, unless a dispatch times out.
LEMMA LocalStep ==
    ASSUME "slow" \notin Faults, TypeOK, Coherent, Owned,
           NEW s \in Submission, NEW n \in Node,
           NodeStep(s, n) \/ FaultStep(s, n),
           NEW r \in Submission
    PROVE  Local(s, n, r)
  <1>0. /\ handler[s][n] # "none" => /\ queries[queryId[s]] = s
                                     /\ task[s][n] # "none"
        /\ handler[s][n] \in {"migwait", "migrate", "nested"} => target[s][n] = s
        /\ handler[s][n] = "refused" => gen[s][n] \in {"mismatch", "failed"}
        /\ gen[s][n] # "none" => task[s][n] \in {"generate", "done"}
        /\ handler[s][n] # "none" => gen[s][n] \notin {"none", "running"}
        /\ task[s][n] # "none" => n \in NodeMapping[s]
    BY DEF Coherent, Owned, Registered
  <1>a. \A m \in Node : gen[r][m] # "none" => task[r][m] \in {"generate", "done"}
    BY DEF Coherent
  <1> USE <1>0, <1>a DEF dagVars, hndVars, Local, Unborn, Doomed
  <1>b. ASSUME UpdateResult(s, n, s), handler[s][n] # "none",
               UNCHANGED <<phase, error, gen>>
        PROVE  Local(s, n, r)
    <2>1. /\ r # s => completed'[r] = completed[r]
          /\ \A m \in Node :
                \/ task'[r][m] = task[r][m]
                \/ r = s /\ task[r][m] = "none" /\ task'[r][m] = "route"
      BY <1>b, UpdateResultSpawns
    <2>2. Unborn(r) => r # s
      BY <1>b
    <2>3. Unborn(r) => Unborn(r)'
      BY <2>1, <2>2
    <2>4. \A m \in Node : Doomed(r, m) => Doomed(r, m)'
      BY <1>b, <2>1
    <2> QED BY <1>b, <2>3, <2>4
  <1>1. CASE RouteAcquire(s, n)
    BY <1>1 DEF RouteAcquire, TypeOK
  <1>2. CASE RouteReturn(s, n)
    BY <1>2 DEF RouteReturn, TypeOK
  <1>3. CASE DispatchSend(s, n)
    BY <1>3 DEF DispatchSend, TypeOK
  <1>4. CASE DispatchReturn(s, n)
    BY <1>4 DEF DispatchReturn, TypeOK
  <1>5. CASE GenerateFinish(s, n)
    BY <1>5 DEF GenerateFinish, TypeOK
  <1>6. CASE PostReturn(s, n)
    BY <1>6 DEF PostReturn, EndPost, TypeOK
  <1>7. CASE PostTimeout(s, n)
    BY <1>7 DEF PostTimeout, EndPost, TypeOK
  <1>8. CASE NodeComplete(s, n)
    BY <1>8, <1>b DEF NodeComplete
  <1>9. CASE NodeCompleteMigrate(s, n)
    BY <1>9 DEF NodeCompleteMigrate, TypeOK
  <1>10. CASE NodeCompleteRefused(s, n)
    BY <1>10 DEF NodeCompleteRefused, TypeOK
  <1>11. CASE MigrateAcquire(s, n)
    BY <1>11 DEF MigrateAcquire, TypeOK
  <1>12. CASE MigrateReturn(s, n)
    BY <1>12, <1>b DEF MigrateReturn
  <1>13. CASE ScheduleReturn(s, n)
    BY <1>13 DEF ScheduleReturn, TypeOK
  <1>14. CASE RouteFail(s, n)
    BY <1>14 DEF RouteFail, TypeOK
  <1>15. CASE DispatchFail(s, n)
    BY <1>15 DEF DispatchFail, TypeOK
  <1>16. CASE DispatchTimeout(s, n)
    BY <1>16 DEF DispatchTimeout
  <1>17. CASE GenerateMismatch(s, n)
    BY <1>17 DEF GenerateMismatch, TypeOK
  <1>18. CASE EngineFail(s, n)
    BY <1>18 DEF EngineFail, TypeOK
  <1>19. CASE PostLost(s, n)
    BY <1>19 DEF PostLost, EndPost, TypeOK
  <1> QED BY <1>1, <1>2, <1>3, <1>4, <1>5, <1>6, <1>7, <1>8, <1>9, <1>10, <1>11,
             <1>12, <1>13, <1>14, <1>15, <1>16, <1>17, <1>18, <1>19
          DEF NodeStep, FaultStep

\* Without dispatch timeouts every step keeps the cause of every error.
LEMMA BlamedStep ==
    ASSUME "slow" \notin Faults, TypeOK, Coherent, Owned, [Next]_vars,
           NEW r \in Submission, BlamedQuery(r)
    PROVE  BlamedQuery(r)'
  <1>1. ASSUME NEW s \in Submission, CreateQuery(s) PROVE BlamedQuery(r)'
    BY <1>1 DEF CreateQuery, TypeOK, BlamedQuery, Unborn, Doomed
  <1>2. ASSUME NEW s \in Submission, ExecuteQuery(s) PROVE BlamedQuery(r)'
    <2>1. PICK o \in MarkOutcomes(Workflow[s], NodeMapping[s], status[s], {}) :
             /\ Spawn(s, IF o.raised THEN {} ELSE o.marked)
             /\ error' = [error EXCEPT ![s] = error[s] \/ o.raised]
      BY <1>2 DEF ExecuteQuery
    <2>2. phase[s] = "accepted" /\ phase' = [phase EXCEPT ![s] = "started"]
          /\ completed' = completed /\ gen' = gen
      BY <1>2 DEF ExecuteQuery
    <2>3. CASE r # s
      <3>1. task'[r] = task[r] /\ error'[r] = error[r] /\ phase'[r] = phase[r]
        BY <2>1, <2>2, <2>3 DEF Spawn, TypeOK
      <3> QED BY <2>2, <3>1 DEF BlamedQuery, Unborn, Doomed
    <2>4. CASE r = s
      <3>1. Unborn(s) /\ phase'[s] = "started"
        BY <2>2, <2>4 DEF BlamedQuery, TypeOK
      <3>2. CASE o.raised
        <4>1. task'[s] = [m \in Node |-> task[s][m]]
          BY <2>1, <3>2 DEF Spawn, TypeOK
        <4>2. Unborn(s)'
          BY <2>2, <3>1, <4>1 DEF Unborn
        <4> QED BY <2>4, <3>1, <4>2 DEF BlamedQuery
      <3>3. CASE ~ o.raised
        <4>1. error'[s] => error[s]
          BY <2>1, <3>3 DEF TypeOK
        <4>2. \A m \in Node : ~ Doomed(s, m)
          BY <3>1 DEF Unborn, Doomed, Coherent
        <4>3. ~ error[s]
          BY <2>2, <2>4, <4>2, PayloadAssumption DEF BlamedQuery
        <4> QED BY <2>4, <3>1, <4>1, <4>3 DEF BlamedQuery
      <3> QED BY <3>2, <3>3
    <2> QED BY <2>3, <2>4
  <1>3. ASSUME NEW s \in Submission, NEW n \in Node,
               NodeStep(s, n) \/ FaultStep(s, n)
        PROVE  BlamedQuery(r)'
    <2>1. Local(s, n, r)
      BY <1>3, LocalStep
    <2>2. \A m \in NodeMapping[r] : m \in Node
      BY PayloadAssumption
    <2> QED BY <2>1, <2>2 DEF Local, BlamedQuery
  <1>4. CASE UNCHANGED vars
    BY <1>4 DEF vars, BlamedQuery, Unborn, Doomed
  <1> QED BY <1>1, <1>2, <1>3, <1>4 DEF Next, Terminated

\* A completed query carries no error, whatever instances, engines and reports
\* did: only a dispatch that outlasts the client's timeout can break this.
THEOREM CompletionIsClean ==
    ASSUME UniqueQueryIds, "slow" \notin Faults
    PROVE  Spec => []CompletedWithoutError
  <1>1. Init => Blamed
    BY DEF Init, Blamed, BlamedQuery, Unborn
  <1>2. TypeOK /\ Coherent /\ Owned /\ Blamed /\ [Next]_vars => Blamed'
    BY BlamedStep DEF Blamed
  <1>3. Blamed /\ CompletionGenuine => CompletedWithoutError
    BY DEF Blamed, BlamedQuery, Unborn, Doomed, CompletionGenuine, Generated,
           CompletedWithoutError
  <1>4. Spec => [](TypeOK /\ Coherent) /\ []Owned /\ []CompletionGenuine
    BY TypeCorrect, Ownership, CompletionIsGenuine
  <1> QED BY <1>1, <1>2, <1>3, <1>4, PTL DEF Spec
-----------------------------------------------------------------------------
(***************************************************************************)
(* With well formed payloads and no report lost, as well: no node of a     *)
(* query is ever forgotten.                                                *)
(***************************************************************************)
Reliable == UniqueQueryIds /\ WellFormedPayloads /\ "lost" \notin Faults

(* The parts of Tracked, for one submission and for one of its nodes. *)
TrackedQuery(s) ==
    /\ completed[s] <=> executed[s] = NodeMapping[s]
    /\ phase[s] # "started" =>
          executed[s] = {} /\ \A n \in Node : task[s][n] = "none"

TrackedNode(s, n) ==
    /\ status[s][n] = "waiting" /\ phase[s] = "started" =>
          ~ (Workflow[s][n] \subseteq executed[s])
    /\ status[s][n] = "executing" => task[s][n] # "none"
    /\ status[s][n] = "finished" => n \in executed[s]
    /\ task[s][n] = "generate" => gen[s][n] # "none"
    /\ task[s][n] = "done" => error[s] \/ Generated(s, n)
    /\ Generated(s, n) =>
          \/ n \in executed[s]
          \/ handler[s][n] \in {"arrived", "migwait", "migrate"}

\* Tracked is the conjunction of its parts, in this and in the next state.
LEMMA TrackedParts ==
    /\ Tracked <=> \A s \in Submission :
          TrackedQuery(s) /\ \A n \in NodeMapping[s] : TrackedNode(s, n)
    /\ Tracked' <=> \A s \in Submission :
          TrackedQuery(s)' /\ \A n \in NodeMapping[s] : TrackedNode(s, n)'
  BY DEF Tracked, TrackedQuery, TrackedNode

\* On a well formed payload the marking loop never raises, so a report is
\* applied in full.
LEMMA WellFormedApplied ==
    ASSUME WellFormedPayloads, TypeOK,
           NEW s \in Submission, NEW n \in NodeMapping[s], UpdateResult(s, n, s)
    PROVE  \E marked \in SUBSET Node, stage \in {"nested", "done"} :
              Applied(s, n, s, marked, marked, stage, FALSE)
  <1>0. n \in Node
    BY PayloadAssumption
  <1>1. \E marked \in SUBSET Node, spawned \in SUBSET Node,
           stage \in {"nested", "done"}, raised \in BOOLEAN :
              Applied(s, n, s, marked, spawned, stage, raised)
    BY <1>0, UpdateResultCases
  <1>2. PICK marked \in SUBSET Node, spawned \in SUBSET Node,
             stage \in {"nested", "done"}, raised \in BOOLEAN :
                Applied(s, n, s, marked, spawned, stage, raised)
    BY <1>1
  <1>3. raised = FALSE
    BY <1>2 DEF Applied, DepsMet, WellFormedPayloads, WellFormed
  <1>4. spawned = marked
    BY <1>2, <1>3 DEF Applied
  <1> QED BY <1>2, <1>3, <1>4

\* Applying a report keeps every node of every query tracked.
LEMMA UpdateResultTracked ==
    ASSUME WellFormedPayloads, TypeOK, Coherent,
           NEW s \in Submission, NEW n \in NodeMapping[s], UpdateResult(s, n, s),
           UNCHANGED <<phase, error, gen>>,
           NEW r \in Submission, NEW m \in NodeMapping[r],
           TrackedNode(r, m), handler[s][n] # "none"
    PROVE  TrackedNode(r, m)'
  <1>1. PICK marked \in SUBSET Node, stage \in {"nested", "done"} :
           Applied(s, n, s, marked, marked, stage, FALSE)
    BY WellFormedApplied
  <1>2. n \in Node /\ m \in Node
    BY PayloadAssumption
  <1>3. /\ task'[r][m] = IF r = s /\ m \in marked THEN "route" ELSE task[r][m]
        /\ status'[r][m] = IF r = s /\ m \in marked THEN "executing"
                           ELSE IF r = s /\ m = n THEN "finished"
                           ELSE status[r][m]
        /\ executed'[r] = IF r = s THEN executed[r] \cup {n} ELSE executed[r]
        /\ handler'[r][m] = IF r = s /\ m = n THEN stage ELSE handler[r][m]
    BY <1>1, <1>2 DEF Applied, TypeOK
  <1>4. /\ m \in marked /\ r = s => m # n /\ task[r][m] = "none"
        /\ r = s /\ m # n /\ m \notin marked /\ status[r][m] = "waiting" =>
              ~ (Workflow[r][m] \subseteq executed[r] \cup {n})
    <2>1. m \in marked => status[s][m] = "waiting" /\ m # n
      BY <1>1 DEF Applied
    <2>2. r = s => m \in DOMAIN Workflow[r]
      BY DEF WellFormedPayloads, WellFormed
    <2>3. r = s /\ m # n /\ m \notin marked /\ status[r][m] = "waiting" =>
              ~ (Workflow[r][m] \subseteq executed[r] \cup {n})
      BY <1>1, <2>2 DEF Applied
    <2> QED BY <1>2, <2>1, <2>3 DEF Coherent
  <1> QED BY <1>3, <1>4 DEF TrackedNode, Generated

\* Applying a report sets completed exactly with the last node.
LEMMA UpdateResultCompletes ==
    ASSUME WellFormedPayloads, TypeOK, Coherent,
           NEW s \in Submission, NEW n \in NodeMapping[s], UpdateResult(s, n, s),
           UNCHANGED phase, phase[s] = "started",
           NEW r \in Submission, TrackedQuery(r)
    PROVE  TrackedQuery(r)'
  <1>1. PICK marked \in SUBSET Node, stage \in {"nested", "done"} :
           Applied(s, n, s, marked, marked, stage, FALSE)
    BY WellFormedApplied
  <1>2. n \in Node /\ IsFiniteSet(NodeMapping[s])
    BY PayloadAssumption
  <1>3. CASE r # s
    BY <1>1, <1>2, <1>3 DEF Applied, TypeOK, TrackedQuery
  <1>4. CASE r = s
    <2>1. executed'[s] = executed[s] \cup {n} /\ executed'[s] \in SUBSET NodeMapping[s]
      BY <1>1, <1>2 DEF Applied, TypeOK, Coherent
    <2>2. CASE marked # {}
      <3>1. PICK m \in marked : TRUE
        BY <2>2
      <3>2. m \in NodeMapping[s] /\ m # n /\ status[s][m] = "waiting"
        BY <1>1 DEF Applied
      <3>3. m \notin executed[s]
        BY <3>2, PayloadAssumption DEF Coherent
      <3>4. executed'[s] # NodeMapping[s] /\ executed[s] # NodeMapping[s]
        BY <2>1, <3>2, <3>3
      <3>5. completed' = completed
        BY <1>1, <2>2 DEF Applied
      <3> QED BY <1>4, <3>4, <3>5 DEF TrackedQuery
    <2>3. CASE marked = {}
      <3>1. completed' = [completed EXCEPT ![s] =
               completed[s] \/ is_completed(NodeMapping[s], executed'[s])]
        BY <1>1, <2>1, <2>3 DEF Applied
      <3>2. is_completed(NodeMapping[s], executed'[s]) <=> executed'[s] = NodeMapping[s]
        BY <1>2, <2>1, CompletedMeansAll
      <3>3. completed'[s] <=> completed[s] \/ executed'[s] = NodeMapping[s]
        BY <3>1, <3>2 DEF TypeOK
      <3>4. completed[s] => executed'[s] = NodeMapping[s]
        BY <1>4, <2>1 DEF TrackedQuery
      <3> QED BY <1>4, <3>3, <3>4 DEF TrackedQuery
    <2> QED BY <2>2, <2>3
  <1> QED BY <1>3, <1>4

\* The node part: no step loses a node that was released.
LEMMA TrackedNodeStep ==
    ASSUME Reliable, TypeOK, Coherent, Owned, Tracked, [Next]_vars,
           NEW r \in Submission, NEW m \in NodeMapping[r]
    PROVE  TrackedNode(r, m)'
  <1>0. \A s \in Submission, n \in Node :
           /\ handler[s][n] # "none" => queries[queryId[s]] = s /\ n \in NodeMapping[s]
           /\ handler[s][n] \in {"migwait", "migrate", "nested"} => target[s][n] = s
    <2>1. \A s \in Submission, n \in Node :
             handler[s][n] # "none" => phase[s] # "absent" /\ n \in NodeMapping[s]
      BY DEF Coherent, Registered
    <2> QED BY <2>1 DEF Owned
  <1>a. /\ m \in Node /\ TrackedNode(r, m)
        /\ gen[r][m] # "none" => task[r][m] \in {"generate", "done"}
        /\ handler[r][m] # "none" => gen[r][m] \notin {"none", "running"}
        /\ handler[r][m] = "refused" => gen[r][m] \in {"mismatch", "failed"}
        /\ handler[r][m] = "nested" => m \in executed[r] \/ ~ Generated(r, m)
    BY TrackedParts, PayloadAssumption DEF Coherent, Owned, TrackedNode
  <1>b. WellFormedPayloads
    BY DEF Reliable
  <1> USE <1>a, <1>b DEF dagVars, hndVars
  <1>1. ASSUME NEW s \in Submission, CreateQuery(s) PROVE TrackedNode(r, m)'
    BY <1>1 DEF CreateQuery, TypeOK, TrackedNode, Generated
  <1>2. ASSUME NEW s \in Submission, ExecuteQuery(s) PROVE TrackedNode(r, m)'
    <2>1. PICK o \in MarkOutcomes(Workflow[s], NodeMapping[s], status[s], {}) :
             /\ status' = [status EXCEPT ![s] = Mark(status[s], o.marked)]
             /\ Spawn(s, IF o.raised THEN {} ELSE o.marked)
             /\ error' = [error EXCEPT ![s] = error[s] \/ o.raised]
      BY <1>2 DEF ExecuteQuery
    <2>2. Marks(Workflow[s], NodeMapping[s], status[s], {}, o)
      BY MarkedReady
    <2>3. ~ o.raised /\ o.marked = Ready(Workflow[s], NodeMapping[s], status[s], {})
      BY <2>2 DEF Marks, DepsMet, WellFormedPayloads, WellFormed
    <2>4. r = s /\ m \notin o.marked /\ status[r][m] = "waiting" => Workflow[r][m] # {}
      BY <2>3 DEF Ready, DepsMet, WellFormedPayloads, WellFormed
    <2>5. r = s => executed[r] = {} /\ task[r][m] = "none"
      BY <1>2 DEF ExecuteQuery, Tracked
    <2>6. /\ status'[r][m] = IF r = s /\ m \in o.marked THEN "executing"
                             ELSE status[r][m]
          /\ task'[r][m] = IF r = s /\ m \in o.marked THEN "route" ELSE task[r][m]
          /\ phase'[r] = IF r = s THEN "started" ELSE phase[r]
          /\ error[r] => error'[r]
      BY <1>2, <2>1, <2>3 DEF ExecuteQuery, TypeOK, Mark, Spawn
    <2> QED BY <1>2, <2>4, <2>5, <2>6 DEF ExecuteQuery, TrackedNode, Generated
  <1>3. ASSUME NEW s \in Submission, NEW n \in Node, NodeStep(s, n)
        PROVE  TrackedNode(r, m)'
    <2>1. CASE RouteAcquire(s, n)
      BY <2>1 DEF RouteAcquire, TypeOK, TrackedNode, Generated
    <2>2. CASE RouteReturn(s, n)
      BY <2>2 DEF RouteReturn, TypeOK, TrackedNode, Generated
    <2>3. CASE DispatchSend(s, n)
      BY <2>3 DEF DispatchSend, TypeOK, TrackedNode, Generated
    <2>4. CASE DispatchReturn(s, n)
      BY <2>4 DEF DispatchReturn, TypeOK, TrackedNode, Generated
    <2>5. CASE GenerateFinish(s, n)
      BY <2>5 DEF GenerateFinish, TypeOK, TrackedNode, Generated
    <2>6. CASE PostReturn(s, n)
      BY <2>6 DEF PostReturn, EndPost, TypeOK, TrackedNode, Generated
    <2>7. CASE PostTimeout(s, n)
      BY <2>7 DEF PostTimeout, EndPost, TypeOK, TrackedNode, Generated
    <2>8. CASE NodeComplete(s, n)
      <3>1. UpdateResult(s, n, s)
        BY <2>8, <1>0 DEF NodeComplete
      <3>2. UNCHANGED <<phase, error, gen>> /\ handler[s][n] # "none"
        BY <2>8 DEF NodeComplete
      <3> QED BY <1>0, <3>1, <3>2, UpdateResultTracked
    <2>9. CASE NodeCompleteMigrate(s, n)
      BY <2>9 DEF NodeCompleteMigrate, TypeOK, TrackedNode, Generated
    <2>10. CASE NodeCompleteRefused(s, n)
      BY <2>10 DEF NodeCompleteRefused, TypeOK, TrackedNode, Generated
    <2>11. CASE MigrateAcquire(s, n)
      BY <2>11 DEF MigrateAcquire, TypeOK, TrackedNode, Generated
    <2>12. CASE MigrateReturn(s, n)
      <3>1. UpdateResult(s, n, s)
        BY <2>12, <1>0 DEF MigrateReturn
      <3>2. UNCHANGED <<phase, error, gen>> /\ handler[s][n] # "none"
        BY <2>12 DEF MigrateReturn
      <3> QED BY <1>0, <3>1, <3>2, UpdateResultTracked
    <2>13. CASE ScheduleReturn(s, n)
      BY <2>13 DEF ScheduleReturn, TypeOK, TrackedNode, Generated
    <2> QED BY <1>3, <2>1, <2>2, <2>3, <2>4, <2>5, <2>6, <2>7, <2>8, <2>9, <2>10, <2>11, <2>12, <2>13
            DEF NodeStep
  <1>4. ASSUME NEW s \in Submission, NEW n \in Node, FaultStep(s, n)
        PROVE  TrackedNode(r, m)'
    <2>1. CASE RouteFail(s, n)
      BY <2>1 DEF RouteFail, TypeOK, TrackedNode, Generated
    <2>2. CASE DispatchFail(s, n)
      BY <2>2 DEF DispatchFail, TypeOK, TrackedNode, Generated
    <2>3. CASE DispatchTimeout(s, n)
      BY <2>3 DEF DispatchTimeout, TypeOK, TrackedNode, Generated
    <2>4. CASE GenerateMismatch(s, n)
      BY <2>4 DEF GenerateMismatch, TypeOK, TrackedNode, Generated
    <2>5. CASE EngineFail(s, n)
      BY <2>5 DEF EngineFail, TypeOK, TrackedNode, Generated
    <2>6. CASE PostLost(s, n)
      BY <2>6 DEF PostLost, Reliable
    <2> QED BY <1>4, <2>1, <2>2, <2>3, <2>4, <2>5, <2>6 DEF FaultStep
  <1>5. CASE UNCHANGED vars
    BY <1>5 DEF vars, TrackedNode, Generated
  <1> QED BY <1>1, <1>2, <1>3, <1>4, <1>5 DEF Next, Terminated

\* The query part: completed follows the records, and nothing runs before the
\* query has started.
LEMMA TrackedQueryStep ==
    ASSUME Reliable, TypeOK, Coherent, Owned, Tracked, [Next]_vars,
           NEW r \in Submission
    PROVE  TrackedQuery(r)'
  <1>0. \A s \in Submission, n \in Node :
           /\ task[s][n] # "none" => phase[s] = "started"
           /\ handler[s][n] # "none" =>
                 /\ queries[queryId[s]] = s /\ n \in NodeMapping[s]
                 /\ phase[s] = "started"
           /\ handler[s][n] \in {"migwait", "migrate", "nested"} => target[s][n] = s
    <2>1. \A s \in Submission, n \in Node :
             handler[s][n] # "none" => task[s][n] # "none"
      BY DEF Coherent
    <2>2. \A s \in Submission, n \in Node :
             task[s][n] # "none" => phase[s] = "started" /\ n \in NodeMapping[s]
      BY DEF Tracked, Coherent
    <2> QED BY <2>1, <2>2 DEF Owned
  <1>a. TrackedQuery(r) /\ WellFormedPayloads
    BY TrackedParts DEF Reliable
  <1> USE <1>0, <1>a DEF dagVars, hndVars
  <1>1. ASSUME NEW s \in Submission, CreateQuery(s) PROVE TrackedQuery(r)'
    BY <1>1 DEF CreateQuery, TypeOK, TrackedQuery
  <1>2. ASSUME NEW s \in Submission, ExecuteQuery(s) PROVE TrackedQuery(r)'
    <2>1. PICK nodes : Spawn(s, nodes)
      BY <1>2 DEF ExecuteQuery
    <2> QED BY <1>2, <2>1 DEF ExecuteQuery, Spawn, TypeOK, TrackedQuery
  <1>3. ASSUME NEW s \in Submission, NEW n \in Node, NodeStep(s, n)
        PROVE  TrackedQuery(r)'
    <2>1. CASE RouteAcquire(s, n)
      BY <2>1 DEF RouteAcquire, TypeOK, TrackedQuery
    <2>2. CASE RouteReturn(s, n)
      BY <2>2 DEF RouteReturn, TypeOK, TrackedQuery
    <2>3. CASE DispatchSend(s, n)
      BY <2>3 DEF DispatchSend, TypeOK, TrackedQuery
    <2>4. CASE DispatchReturn(s, n)
      BY <2>4 DEF DispatchReturn, TypeOK, TrackedQuery
    <2>5. CASE GenerateFinish(s, n)
      BY <2>5 DEF GenerateFinish, TypeOK, TrackedQuery
    <2>6. CASE PostReturn(s, n)
      BY <2>6 DEF PostReturn, EndPost, TypeOK, TrackedQuery
    <2>7. CASE PostTimeout(s, n)
      BY <2>7 DEF PostTimeout, EndPost, TypeOK, TrackedQuery
    <2>8. CASE NodeComplete(s, n)
      <3>1. UpdateResult(s, n, s) /\ UNCHANGED phase
        BY <2>8, <1>0 DEF NodeComplete
      <3>2. n \in NodeMapping[s] /\ phase[s] = "started"
        BY <2>8, <1>0 DEF NodeComplete
      <3> QED BY <3>1, <3>2, UpdateResultCompletes
    <2>9. CASE NodeCompleteMigrate(s, n)
      BY <2>9 DEF NodeCompleteMigrate, TypeOK, TrackedQuery
    <2>10. CASE NodeCompleteRefused(s, n)
      BY <2>10 DEF NodeCompleteRefused, TypeOK, TrackedQuery
    <2>11. CASE MigrateAcquire(s, n)
      BY <2>11 DEF MigrateAcquire, TypeOK, TrackedQuery
    <2>12. CASE MigrateReturn(s, n)
      <3>1. UpdateResult(s, n, s) /\ UNCHANGED phase
        BY <2>12, <1>0 DEF MigrateReturn
      <3>2. n \in NodeMapping[s] /\ phase[s] = "started"
        BY <2>12, <1>0 DEF MigrateReturn
      <3> QED BY <3>1, <3>2, UpdateResultCompletes
    <2>13. CASE ScheduleReturn(s, n)
      <3>1. target[s][n] = s
        BY <2>13, <1>0 DEF ScheduleReturn
      <3>2. is_completed(NodeMapping[s], executed[s]) => executed[s] = NodeMapping[s]
        BY CompletedMeansAll, PayloadAssumption DEF Coherent
      <3>3. completed' = [completed EXCEPT ![s] =
               completed[s] \/ is_completed(NodeMapping[s], executed[s])]
        BY <2>13, <3>1 DEF ScheduleReturn
      <3>4. completed'[r] <=> completed[r]
        <4>1. CASE r = s
          BY <3>2, <3>3, <4>1 DEF TypeOK, TrackedQuery
        <4>2. CASE r # s
          BY <3>3, <4>2 DEF TypeOK
        <4> QED BY <4>1, <4>2
      <3> QED BY <2>13, <3>4 DEF ScheduleReturn, TrackedQuery
    <2> QED BY <1>3, <2>1, <2>2, <2>3, <2>4, <2>5, <2>6, <2>7, <2>8, <2>9, <2>10, <2>11, <2>12, <2>13
            DEF NodeStep
  <1>4. ASSUME NEW s \in Submission, NEW n \in Node, FaultStep(s, n)
        PROVE  TrackedQuery(r)'
    <2>1. CASE RouteFail(s, n)
      BY <2>1 DEF RouteFail, TypeOK, TrackedQuery
    <2>2. CASE DispatchFail(s, n)
      BY <2>2 DEF DispatchFail, TypeOK, TrackedQuery
    <2>3. CASE DispatchTimeout(s, n)
      BY <2>3 DEF DispatchTimeout, TypeOK, TrackedQuery
    <2>4. CASE GenerateMismatch(s, n)
      BY <2>4 DEF GenerateMismatch, TypeOK, TrackedQuery
    <2>5. CASE EngineFail(s, n)
      BY <2>5 DEF EngineFail, TypeOK, TrackedQuery
    <2>6. CASE PostLost(s, n)
      BY <2>6 DEF PostLost, EndPost, TypeOK, TrackedQuery
    <2> QED BY <1>4, <2>1, <2>2, <2>3, <2>4, <2>5, <2>6 DEF FaultStep
  <1>5. CASE UNCHANGED vars
    BY <1>5 DEF vars, TrackedQuery
  <1> QED BY <1>1, <1>2, <1>3, <1>4, <1>5 DEF Next, Terminated

\* Tracked is an invariant of a controller with well formed payloads, unique
\* ids and reports that arrive.
THEOREM Tracking ==
    ASSUME Reliable PROVE Spec => []Tracked
  <1>1. UniqueQueryIds /\ WellFormedPayloads
    BY DEF Reliable
  <1>2. Init => Tracked
    <2> SUFFICES ASSUME Init, NEW s \in Submission
                 PROVE  TrackedQuery(s) /\ \A n \in NodeMapping[s] : TrackedNode(s, n)
      BY TrackedParts
    <2>1. NodeMapping[s] # {} /\ NodeMapping[s] \subseteq Node
      BY <1>1, PayloadAssumption DEF WellFormedPayloads, WellFormed
    <2>2. TrackedQuery(s)
      BY <2>1 DEF Init, TrackedQuery
    <2>3. \A n \in NodeMapping[s] : TrackedNode(s, n)
      BY <2>1 DEF Init, TrackedNode, Generated
    <2> QED BY <2>2, <2>3
  <1>3. TypeOK /\ Coherent /\ Owned /\ Tracked /\ [Next]_vars => Tracked'
    BY TrackedQueryStep, TrackedNodeStep, TrackedParts
  <1>4. Spec => [](TypeOK /\ Coherent) /\ []Owned
    BY <1>1, TypeCorrect, Ownership
  <1> QED BY <1>2, <1>3, <1>4, PTL DEF Spec

\* completed is set in the very step that records the last node.
THEOREM CompletionIsExact ==
    ASSUME Reliable PROVE Spec => []CompletionExact
  <1>1. Tracked => CompletionExact
    BY DEF Tracked, CompletionExact
  <1> QED BY <1>1, Tracking, PTL

\* A query with nothing under way is complete or carries an error, whatever
\* instances, engines and timeouts did.
THEOREM NothingForgotten ==
    ASSUME Reliable PROVE Spec => []NoSilentStall
  <1>1. TypeOK /\ Coherent /\ Tracked => NoSilentStall
    <2> SUFFICES ASSUME TypeOK, Coherent, Tracked,
                        NEW s \in Submission, Idle(s), ~ error[s]
                 PROVE  completed[s]
      BY DEF NoSilentStall
    <2> DEFINE U == NodeMapping[s] \ executed[s]
    <2>1. ASSUME NEW n \in U PROVE ~ (Workflow[s][n] \subseteq executed[s])
      <3>1. n \in Node /\ n \in NodeMapping[s] /\ n \notin executed[s]
        BY PayloadAssumption
      <3>2. status[s][n] \in {"waiting", "executing", "finished"}
        BY <3>1 DEF TypeOK, NodeStatus
      <3>3. /\ phase[s] = "started"
            /\ task[s][n] \in {"none", "done"}
            /\ handler[s][n] \in {"none", "done"}
        BY <3>1 DEF Idle
      <3>4. task[s][n] # "done"
        BY <3>1, <3>3 DEF Tracked
      <3>5. status[s][n] = "waiting"
        BY <3>1, <3>2, <3>3, <3>4 DEF Tracked
      <3> QED BY <3>1, <3>3, <3>5 DEF Tracked
    <2>2. WellFormed(Workflow[s], NodeMapping[s])
      BY DEF Reliable, WellFormedPayloads
    <2>3. U = {}
      <3>1. SUFFICES ASSUME U # {} PROVE FALSE
        OBVIOUS
      <3>2. PICK n \in U : Workflow[s][n] \cap U = {}
        BY <2>2, <3>1 DEF WellFormed
      <3>3. Workflow[s][n] \subseteq executed[s]
        BY <2>2, <3>2 DEF WellFormed
      <3> QED BY <2>1, <3>2, <3>3
    <2>4. executed[s] = NodeMapping[s]
      <3>1. executed[s] \subseteq NodeMapping[s]
        BY DEF Coherent
      <3> QED BY <2>3, <3>1
    <2> QED BY <2>4 DEF Tracked
  <1> QED BY <1>1, Tracking, TypeCorrect, PTL
=============================================================================
