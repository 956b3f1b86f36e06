--------------------------- MODULE ControllerFlow ---------------------------
(***************************************************************************)
(* How the controller drives the nodes of its queries through the LLM      *)
(* instances: coreflow/controller.py, the dispatching half of              *)
(* coreflow/scheduler.py and the /generate endpoint of                     *)
(* vllm/instance_api.py.                                                   *)
(*                                                                         *)
(* Actors.  The controller is one event loop; every coroutine below runs   *)
(* from one await to the next without interruption, so a step of this      *)
(* specification is the code between two awaits:                           *)
(*   - execute_query_async, one per accepted query (phase);                *)
(*   - _dispatch_node_async, one per dispatched node (task);               *)
(*   - handle_node_complete, one per /node_complete request (handler).     *)
(* An instance runs one /generate coroutine per dispatched node (gen).     *)
(*                                                                         *)
(* The three are nested: the controller's POST /generate returns only when *)
(* the instance's POST /node_complete has returned or timed out, and the   *)
(* handler of that request awaits the dispatch of the nodes it released.   *)
(* All requests of the controller share the connections of one             *)
(* httpx.AsyncClient (PoolSize); requests of the instances do not.         *)
(*                                                                         *)
(* A submission is one POST /query.  A node of a submission is dispatched  *)
(* at most once, so its task, its generation and the /node_complete that   *)
(* reports it are named by the pair (submission, node); which query a      *)
(* report is applied to is looked up by query id when it arrives (target). *)
(***************************************************************************)
EXTENDS WorkflowDag, Naturals

CONSTANTS
    Submission,   \* the POST /query requests
    Node,         \* the node keys (invocation_id, repeat)
    NodeMapping,  \* NodeMapping[s]: the keys of the node_list of s
    Workflow,     \* Workflow[s]: the node_dependency of s
    Reused,       \* Reused[s]: the nodes of s with free_cache = False
    RequestId,    \* RequestId[s]: the query_id in the request, 0 when absent
    Stamp,        \* the values int(time.time() * 1000) can take
    PoolSize,     \* connections of the controller's http client
    Faults,       \* the failures the run admits
    None

ASSUME PayloadAssumption ==
    \A s \in Submission :
       /\ NodeMapping[s] \subseteq Node
       /\ IsFiniteSet(NodeMapping[s])
       /\ DOMAIN Workflow[s] \subseteq Node
       /\ \A r \in DOMAIN Workflow[s] : Workflow[s][r] \subseteq Node

ASSUME RequestAssumption ==
    /\ RequestId \in [Submission -> Nat]
    /\ Stamp \subseteq Nat
    /\ None \notin Submission

ASSUME PoolAssumption == PoolSize \in Nat \ {0}

VARIABLES
    phase,      \* phase[s]: absent, accepted (task created), started
    queryId,    \* queryId[s]: the id create_query gave to s
    queries,    \* controller._queries: query id -> the submission registered
    status,     \* status[s][n]: Node.status
    executed,   \* executed[s]: DAG.excuted_node
    completed,  \* completed[s]: QueryState.completed
    error,      \* error[s]: QueryState.error is not None
    task,       \* task[s][n]: the _dispatch_node_async coroutine
    gen,        \* gen[s][n]: the /generate coroutine at the instance
    handler,    \* handler[s][n]: the /node_complete request that reports n
    target,     \* target[s][n]: the submission that handler works on
    children    \* children[s][n]: the nodes whose dispatch it awaits

vars == <<phase, queryId, queries, status, executed, completed, error,
          task, gen, handler, target, children>>
dagVars == <<phase, queryId, queries, status, executed, completed>>
hndVars == <<handler, target, children>>

(***************************************************************************)
(* Stages.                                                                 *)
(*   task    route     waiting for a connection for /cache_state           *)
(*           fetch     holding it                                          *)
(*           dispatch  routed, waiting for a connection for /generate      *)
(*           generate  holding it until the response or a timeout          *)
(*   gen     running   the engine produces the tokens                      *)
(*           posting   awaiting POST /node_complete with success = True    *)
(*           mismatch  awaiting POST /node_complete with success = False   *)
(*           ok/failed the response to /generate is on its way             *)
(*   handler arrived   the request, success = True, not yet handled        *)
(*           refused   the request, success = False, not yet handled       *)
(*           migwait   in maybe_migrate_request, waiting for a connection  *)
(*           migrate   holding it                                          *)
(*           nested    awaiting _schedule_nodes_async                      *)
(***************************************************************************)
TaskStage == {"none", "route", "fetch", "dispatch", "generate", "done"}
GenStage == {"none", "running", "posting", "mismatch", "ok", "failed"}
HandlerStage == {"none", "arrived", "refused", "migwait", "migrate",
                 "nested", "done"}
QueryIds == Stamp \cup {RequestId[s] : s \in Submission}

TypeOK ==
    /\ phase \in [Submission -> {"absent", "accepted", "started"}]
    /\ queryId \in [Submission -> QueryIds]
    /\ queries \in [QueryIds -> Submission \cup {None}]
    /\ status \in [Submission -> [Node -> NodeStatus]]
    /\ executed \in [Submission -> SUBSET Node]
    /\ completed \in [Submission -> BOOLEAN]
    /\ error \in [Submission -> BOOLEAN]
    /\ task \in [Submission -> [Node -> TaskStage]]
    /\ gen \in [Submission -> [Node -> GenStage]]
    /\ handler \in [Submission -> [Node -> HandlerStage]]
    /\ target \in [Submission -> [Node -> Submission \cup {None}]]
    /\ children \in [Submission -> [Node -> SUBSET Node]]

Init ==
    /\ phase = [s \in Submission |-> "absent"]
    /\ queryId = [s \in Submission |-> RequestId[s]]
    /\ queries = [q \in QueryIds |-> None]
    /\ status = [s \in Submission |-> [n \in Node |-> "waiting"]]
    /\ executed = [s \in Submission |-> {}]
    /\ completed = [s \in Submission |-> FALSE]
    /\ error = [s \in Submission |-> FALSE]
    /\ task = [s \in Submission |-> [n \in Node |-> "none"]]
    /\ gen = [s \in Submission |-> [n \in Node |-> "none"]]
    /\ handler = [s \in Submission |-> [n \in Node |-> "none"]]
    /\ target = [s \in Submission |-> [n \in Node |-> None]]
    /\ children = [s \in Submission |-> [n \in Node |-> {}]]
-----------------------------------------------------------------------------
(* The connection pool of AsyncController.http_client. *)

Held ==
    Cardinality({p \in Submission \X Node :
                    task[p[1]][p[2]] \in {"fetch", "generate"}})
  + Cardinality({p \in Submission \X Node : handler[p[1]][p[2]] = "migrate"})

ConnectionFree == Held < PoolSize

(* POST /query: create_query, then the task it creates. *)

\* Mutant: the query_id of the request is not looked at.
CreateQueryStamped(s) ==
    /\ phase[s] = "absent"
    /\ \E id \in Stamp : /\ queryId' = [queryId EXCEPT ![s] = id]
                         /\ queries' = [queries EXCEPT ![id] = s]
    /\ phase' = [phase EXCEPT ![s] = "accepted"]
    /\ UNCHANGED <<status, executed, completed, error, task, gen, hndVars>>

\* query_id = req.query_id or int(time.time() * 1000); an entry with the same
\* id is overwritten.
CreateQuery(s) ==
    /\ phase[s] = "absent"
    /\ \E id \in IF RequestId[s] = 0 THEN Stamp ELSE {RequestId[s]} :
          /\ queryId' = [queryId EXCEPT ![s] = id]
          /\ queries' = [queries EXCEPT ![id] = s]
    /\ phase' = [phase EXCEPT ![s] = "accepted"]
    /\ UNCHANGED <<status, executed, completed, error, task, gen, hndVars>>

\* The create_task calls of _schedule_nodes_async.
Spawn(s, nodes) ==
    task' = [task EXCEPT ![s] =
                [n \in Node |-> IF n \in nodes THEN "route" ELSE task[s][n]]]

\* An exception of get_entry_nodes is caught and becomes state.error.
ExecuteQuery(s) ==
    /\ phase[s] = "accepted"
    /\ phase' = [phase EXCEPT ![s] = "started"]
    /\ \E o \in MarkOutcomes(Workflow[s], NodeMapping[s], status[s], {}) :
          /\ status' = [status EXCEPT ![s] = Mark(status[s], o.marked)]
          /\ Spawn(s, IF o.raised THEN {} ELSE o.marked)
          /\ error' = [error EXCEPT ![s] = error[s] \/ o.raised]
    /\ UNCHANGED <<queryId, queries, executed, completed, gen, hndVars>>
-----------------------------------------------------------------------------
(* _dispatch_node_async: route, then dispatch. *)

RouteAcquire(s, n) ==
    /\ task[s][n] = "route"
    /\ ConnectionFree
    /\ task' = [task EXCEPT ![s][n] = "fetch"]
    /\ UNCHANGED <<dagVars, error, gen, hndVars>>

\* The cache states are back and route chose an instance.
RouteReturn(s, n) ==
    /\ task[s][n] = "fetch"
    /\ task' = [task EXCEPT ![s][n] = "dispatch"]
    /\ UNCHANGED <<dagVars, error, gen, hndVars>>

\* Mutant: the coroutine returns without an error.
RouteFailSilently(s, n) ==
    /\ "unavailable" \in Faults
    /\ task[s][n] \in {"route", "fetch"}
    /\ task' = [task EXCEPT ![s][n] = "done"]
    /\ UNCHANGED <<dagVars, error, gen, hndVars>>

\* route returned None: no ready instance, or no cache state could be fetched
\* (a refused or timed out request, the wait for a connection included).
RouteFail(s, n) ==
    /\ "unavailable" \in Faults
    /\ task[s][n] \in {"route", "fetch"}
    /\ task' = [task EXCEPT ![s][n] = "done"]
    /\ error' = [error EXCEPT ![s] = TRUE]
    /\ UNCHANGED <<dagVars, gen, hndVars>>

\* Mutant: the coroutine may send the request again.
DispatchSendUnmarked(s, n) ==
    /\ task[s][n] = "dispatch"
    /\ ConnectionFree
    /\ gen' = [gen EXCEPT ![s][n] = "running"]
    /\ UNCHANGED <<dagVars, error, task, hndVars>>

DispatchSend(s, n) ==
    /\ task[s][n] = "dispatch"
    /\ ConnectionFree
    /\ task' = [task EXCEPT ![s][n] = "generate"]
    /\ gen' = [gen EXCEPT ![s][n] = "running"]
    /\ UNCHANGED <<dagVars, error, hndVars>>

\* dispatch returned None before the instance saw the request: the instance is
\* not ready any more, or the request could not be sent.
DispatchFail(s, n) ==
    /\ "unavailable" \in Faults
    /\ task[s][n] = "dispatch"
    /\ task' = [task EXCEPT ![s][n] = "done"]
    /\ error' = [error EXCEPT ![s] = TRUE]
    /\ UNCHANGED <<dagVars, gen, hndVars>>

\* The 300 s of the client run out; the instance is not told and goes on.
DispatchTimeout(s, n) ==
    /\ "slow" \in Faults
    /\ task[s][n] = "generate"
    /\ task' = [task EXCEPT ![s][n] = "done"]
    /\ error' = [error EXCEPT ![s] = TRUE]
    /\ UNCHANGED <<dagVars, gen, hndVars>>

\* Mutant: success in the response is not looked at.
DispatchReturnUnchecked(s, n) ==
    /\ task[s][n] = "generate"
    /\ gen[s][n] \in {"ok", "failed"}
    /\ task' = [task EXCEPT ![s][n] = "done"]
    /\ UNCHANGED <<dagVars, error, gen, hndVars>>

\* Mutant: a response before the completion of the query counts as a failure.
DispatchReturnStrict(s, n) ==
    /\ task[s][n] = "generate"
    /\ gen[s][n] \in {"ok", "failed"}
    /\ task' = [task EXCEPT ![s][n] = "done"]
    /\ error' = [error EXCEPT ![s] = error[s] \/ ~ completed[s]]
    /\ UNCHANGED <<dagVars, gen, hndVars>>

DispatchReturn(s, n) ==
    /\ task[s][n] = "generate"
    /\ gen[s][n] \in {"ok", "failed"}
    /\ task' = [task EXCEPT ![s][n] = "done"]
    /\ error' = [error EXCEPT ![s] = error[s] \/ gen[s][n] = "failed"]
    /\ UNCHANGED <<dagVars, gen, hndVars>>
-----------------------------------------------------------------------------
(* The /generate endpoint of an instance. *)

GenerateFinish(s, n) ==
    /\ gen[s][n] = "running"
    /\ gen' = [gen EXCEPT ![s][n] = "posting"]
    /\ handler' = [handler EXCEPT ![s][n] = "arrived"]
    /\ UNCHANGED <<dagVars, error, task, target, children>>

\* The forced tokens were not produced: the report says success = False.
GenerateMismatch(s, n) ==
    /\ "mismatch" \in Faults
    /\ gen[s][n] = "running"
    /\ gen' = [gen EXCEPT ![s][n] = "mismatch"]
    /\ handler' = [handler EXCEPT ![s][n] = "refused"]
    /\ UNCHANGED <<dagVars, error, task, target, children>>

\* The engine raised (or is not there): the response says so, nothing is
\* posted to the controller.
EngineFail(s, n) ==
    /\ "engine" \in Faults
    /\ gen[s][n] = "running"
    /\ gen' = [gen EXCEPT ![s][n] = "failed"]
    /\ UNCHANGED <<dagVars, error, task, hndVars>>

\* After the POST, however it ended, generate returns success = token_match.
EndPost(s, n) ==
    /\ gen[s][n] \in {"posting", "mismatch"}
    /\ gen' = [gen EXCEPT ![s][n] =
                  IF gen[s][n] = "posting" THEN "ok" ELSE "failed"]

PostReturn(s, n) ==
    /\ handler[s][n] = "done"
    /\ EndPost(s, n)
    /\ UNCHANGED <<dagVars, error, task, hndVars>>

\* Mutant: a report that timed out is waited for again.
PostWaitAgain(s, n) ==
    /\ handler[s][n] # "done"
    /\ gen[s][n] \in {"posting", "mismatch"}
    /\ UNCHANGED vars

\* The 30 s of the instance's client run out.  The exception is swallowed; the
\* controller's handler is not cancelled.
PostTimeout(s, n) ==
    /\ handler[s][n] # "done"
    /\ EndPost(s, n)
    /\ UNCHANGED <<dagVars, error, task, hndVars>>

\* The request never reaches the controller; the exception is swallowed.
PostLost(s, n) ==
    /\ "lost" \in Faults
    /\ handler[s][n] \in {"arrived", "refused"}
    /\ EndPost(s, n)
    /\ handler' = [handler EXCEPT ![s][n] = "none"]
    /\ UNCHANGED <<dagVars, error, task, target, children>>
-----------------------------------------------------------------------------
(* POST /node_complete: handle_node_complete. *)

\* From get_next_execute_agents to the next await or the return, for a report
\* of (s, n) applied to submission t.  An unknown key or a KeyError of the
\* marking loop ends the handler with a 500 that the instance ignores.
UpdateResult(s, n, t) ==
    LET ex == executed[t] \cup {n}
        st == [status[t] EXCEPT ![n] = "finished"]
    IN  \/ /\ n \notin NodeMapping[t]
           /\ handler' = [handler EXCEPT ![s][n] = "done"]
           /\ UNCHANGED <<status, executed, completed, task, children>>
        \/ /\ n \in NodeMapping[t]
           /\ executed' = [executed EXCEPT ![t] = ex]
           /\ \E o \in MarkOutcomes(Workflow[t], NodeMapping[t], st, ex) :
                 /\ status' = [status EXCEPT ![t] = Mark(st, o.marked)]
                 /\ \/ /\ ~ o.raised /\ o.marked # {}
                       /\ Spawn(t, o.marked)
                       /\ children' = [children EXCEPT ![s][n] = o.marked]
                       /\ handler' = [handler EXCEPT ![s][n] = "nested"]
                       /\ UNCHANGED completed
                    \/ /\ o.raised \/ o.marked = {}
                       /\ handler' = [handler EXCEPT ![s][n] = "done"]
                       /\ completed' = [completed EXCEPT ![t] =
                              \/ completed[t]
                              \/ ~ o.raised /\ is_completed(NodeMapping[t], ex)]
                       /\ UNCHANGED <<task, children>>

\* Mutant: the report goes to any registered query.
NodeCompleteAnywhere(s, n) ==
    /\ handler[s][n] = "arrived"
    /\ \E t \in {r \in Submission : phase[r] # "absent"} :
          /\ target' = [target EXCEPT ![s][n] = t]
          /\ UpdateResult(s, n, t)
    /\ UNCHANGED <<phase, queryId, queries, error, gen>>

\* get_query finds the submission registered under the id now.
NodeComplete(s, n) ==
    /\ handler[s][n] = "arrived"
    /\ LET t == queries[queryId[s]]
       IN  /\ target' = [target EXCEPT ![s][n] = t]
           /\ UpdateResult(s, n, t)
    /\ UNCHANGED <<phase, queryId, queries, error, gen>>

\* The cache may be reused and its length outgrew the range of the instance:
\* maybe_migrate_request talks to other instances before update_result.
NodeCompleteMigrate(s, n) ==
    /\ handler[s][n] = "arrived"
    /\ n \in Reused[s]
    /\ target' = [target EXCEPT ![s][n] = queries[queryId[s]]]
    /\ handler' = [handler EXCEPT ![s][n] = "migwait"]
    /\ UNCHANGED <<dagVars, error, task, gen, children>>

NodeCompleteRefused(s, n) ==
    /\ handler[s][n] = "refused"
    /\ LET t == queries[queryId[s]]
       IN  /\ target' = [target EXCEPT ![s][n] = t]
           /\ error' = [error EXCEPT ![t] = TRUE]
    /\ handler' = [handler EXCEPT ![s][n] = "done"]
    /\ UNCHANGED <<dagVars, task, gen, children>>

MigrateAcquire(s, n) ==
    /\ handler[s][n] = "migwait"
    /\ ConnectionFree
    /\ handler' = [handler EXCEPT ![s][n] = "migrate"]
    /\ UNCHANGED <<dagVars, error, task, gen, target, children>>

\* Whatever came of the migration, the handler goes on with the state object
\* it looked up before.
MigrateReturn(s, n) ==
    /\ \/ handler[s][n] = "migrate"
       \/ handler[s][n] = "migwait" /\ "unavailable" \in Faults
    /\ UpdateResult(s, n, target[s][n])
    /\ UNCHANGED <<phase, queryId, queries, error, gen, target>>

\* Mutant: a query whose nested dispatches have ended is taken to be complete.
ScheduleReturnUnchecked(s, n) ==
    LET t == target[s][n]
    IN  /\ handler[s][n] = "nested"
        /\ \A c \in children[s][n] : task[t][c] = "done"
        /\ handler' = [handler EXCEPT ![s][n] = "done"]
        /\ completed' = [completed EXCEPT ![t] = TRUE]
        /\ UNCHANGED <<phase, queryId, queries, status, executed, error,
                       task, gen, target, children>>

\* gather has seen all the dispatches end, in whatever way.
ScheduleReturn(s, n) ==
    LET t == target[s][n]
    IN  /\ handler[s][n] = "nested"
        /\ \A c \in children[s][n] : task[t][c] = "done"
        /\ handler' = [handler EXCEPT ![s][n] = "done"]
        /\ completed' = [completed EXCEPT ![t] =
               completed[t] \/ is_completed(NodeMapping[t], executed[t])]
        /\ UNCHANGED <<phase, queryId, queries, status, executed, error,
                       task, gen, target, children>>
-----------------------------------------------------------------------------
\* The steps of the coroutines themselves; the 30 s timer is one of them.
NodeStep(s, n) ==
    \/ RouteAcquire(s, n) \/ RouteReturn(s, n)
    \/ DispatchSend(s, n) \/ DispatchReturn(s, n)
    \/ GenerateFinish(s, n) \/ PostReturn(s, n) \/ PostTimeout(s, n)
    \/ NodeComplete(s, n) \/ NodeCompleteMigrate(s, n)
    \/ NodeCompleteRefused(s, n)
    \/ MigrateAcquire(s, n) \/ MigrateReturn(s, n) \/ ScheduleReturn(s, n)

FaultStep(s, n) ==
    \/ RouteFail(s, n) \/ DispatchFail(s, n) \/ DispatchTimeout(s, n)
    \/ GenerateMismatch(s, n) \/ EngineFail(s, n) \/ PostLost(s, n)

\* Nothing of submission s is under way.
Idle(s) ==
    /\ phase[s] = "started"
    /\ \A n \in Node : /\ task[s][n] \in {"none", "done"}
                       /\ gen[s][n] \in {"none", "ok", "failed"}
                       /\ handler[s][n] \in {"none", "done"}

\* All requests have been served: the controller only waits for new ones.
Terminated == (\A s \in Submission : Idle(s)) /\ UNCHANGED vars

Next ==
    \/ \E s \in Submission : CreateQuery(s) \/ ExecuteQuery(s)
    \/ \E s \in Submission, n \in Node : NodeStep(s, n) \/ FaultStep(s, n)
    \/ Terminated

Spec == Init /\ [][Next]_vars

\* Coroutines that can run do run, an engine finishes its generations and the
\* 30 s timer expires.  Nothing obliges a client to submit, or a fault to occur.
Fairness ==
    /\ \A s \in Submission : WF_vars(ExecuteQuery(s))
    /\ \A s \in Submission, n \in Node : WF_vars(NodeStep(s, n))

FairSpec == Spec /\ Fairness
-----------------------------------------------------------------------------
(* What the environment has to respect for the promises to hold: client *)
(* chosen, distinct query ids, and payloads that describe a workflow.   *)

UniqueQueryIds ==
    /\ \A s \in Submission : RequestId[s] # 0
    /\ \A s, r \in Submission : RequestId[s] = RequestId[r] => s = r

WellFormedPayloads ==
    \A s \in Submission : WellFormed(Workflow[s], NodeMapping[s])

Generated(s, n) == gen[s][n] \in {"posting", "ok"}

(* Properties. *)

\* _dispatch_node_async runs for a node only after update_result has recorded
\* every parent, whatever the payload and the ids: a handler of another query
\* with the same id included.
ReleasedInOrder ==
    \A s \in Submission, n \in Node :
       task[s][n] # "none" =>
          n \in DOMAIN Workflow[s] /\ Workflow[s][n] \subseteq executed[s]

\* completed is set exactly when the last node has been recorded, in the same
\* step of handle_node_complete: no handler has to come back for it, and no
\* handler that resumes late sets it early.
CompletionExact ==
    \A s \in Submission : completed[s] <=> executed[s] = NodeMapping[s]

\* completed implies that every node of this very query was generated with the
\* expected tokens at an instance, not only that reports with its id came in.
CompletionGenuine ==
    \A s \in Submission :
       completed[s] => \A n \in NodeMapping[s] : Generated(s, n)

\* A report is applied to the query whose node was generated: the reading of
\* "Nodes are identified by the triple (query_id, invocation_id, repeat)" in
\* the documentation of class Node.
OwnReport ==
    \A s \in Submission, n \in Node : n \in executed[s] => Generated(s, n)

\* When nothing of a query is under way any more, the query is complete or its
\* state carries an error: no node is forgotten between update_result, the
\* nested dispatch and the return of /generate.
NoSilentStall ==
    \A s \in Submission : Idle(s) => completed[s] \/ error[s]

\* A query that completed carries no error: what failed was never completed.
\* (Not so when a dispatch outlasts the client's timeout.)
CompletedWithoutError ==
    \A s \in Submission : ~ (completed[s] /\ error[s])

\* The instance never generates a node twice: neither a second report nor a
\* late handler dispatches it again.
NotAgain(s, n) ==
    gen[s][n] # "none" =>
       /\ gen'[s][n] = "running" => gen[s][n] = "running"
       /\ task'[s][n] \notin {"route", "fetch", "dispatch"}

GeneratedOnce == [][\A s \in Submission, n \in Node : NotAgain(s, n)]_vars

\* The promise to the client, under the refinement mapping that forgets all
\* but the generations and the completed flag.
WorkOf ==
    [s \in Submission |-> [n \in Node |->
        IF gen[s][n] = "none" THEN "idle"
        ELSE IF Generated(s, n) THEN "generated" ELSE "started"]]

Work == INSTANCE WorkflowExecution WITH work <- WorkOf, reported <- completed

ImplementsWorkflow == Work!WorkSpec

\* Without faults every accepted query completes, even with one connection for
\* all the nested requests: the 30 s timeout of the instance's report breaks
\* the circle of handlers that wait for a connection held by their callers.
EventuallyCompleted ==
    \A s \in Submission : phase[s] = "accepted" ~> completed[s]

\* With failing instances, engines, generations and dispatch timeouts, every
\* accepted query is completed or carries an error eventually.
EventuallySettled ==
    \A s \in Submission : phase[s] = "accepted" ~> completed[s] \/ error[s]
-----------------------------------------------------------------------------
(* The inductive invariants behind the properties.  Coherent holds for every *)
(* payload and every choice of ids; Owned needs unique query ids; Tracked    *)
(* needs also well formed payloads and reports that are not lost.            *)

Registered == {s \in Submission : phase[s] # "absent"}

\* Where each coroutine is, relative to the one it serves.
Coherent ==
    \A s \in Submission :
       /\ s \in Registered => queries[queryId[s]] \in Registered
       /\ executed[s] \subseteq NodeMapping[s]
       /\ completed[s] => executed[s] = NodeMapping[s]
       /\ \A n \in Node :
             /\ task[s][n] # "none" =>
                   /\ s \in Registered
                   /\ status[s][n] # "waiting"
                   /\ n \in NodeMapping[s]
             /\ gen[s][n] # "none" => task[s][n] \in {"generate", "done"}
             /\ handler[s][n] # "none" => gen[s][n] \notin {"none", "running"}
             /\ handler[s][n] \in {"migwait", "migrate", "nested"} =>
                   target[s][n] \in Registered
             /\ n \in executed[s] => status[s][n] = "finished"

\* A report stays with the query whose node was generated.
Owned ==
    \A s \in Submission :
       /\ queryId[s] = RequestId[s]
       /\ phase[s] # "absent" => queries[queryId[s]] = s
       /\ \A n \in Node :
             /\ handler[s][n] \in {"migwait", "migrate", "nested"} =>
                   target[s][n] = s
             /\ handler[s][n] \in {"arrived", "migwait", "migrate", "nested"} =>
                   Generated(s, n)
             /\ handler[s][n] = "refused" => gen[s][n] \in {"mismatch", "failed"}
             /\ n \in executed[s] => Generated(s, n)

\* Every node that was released is accounted for by a coroutine, by
\* excuted_node or by an error, and every other one waits for a parent.
Tracked ==
    \A s \in Submission :
       /\ completed[s] <=> executed[s] = NodeMapping[s]
       /\ phase[s] # "started" =>
             executed[s] = {} /\ \A n \in Node : task[s][n] = "none"
       /\ \A n \in NodeMapping[s] :
             /\ status[s][n] = "waiting" /\ phase[s] = "started" =>
                   ~ (Workflow[s][n] \subseteq executed[s])
             /\ status[s][n] = "executing" => task[s][n] # "none"
             /\ status[s][n] = "finished" => n \in executed[s]
             /\ task[s][n] = "generate" => gen[s][n] # "none"
             /\ task[s][n] = "done" => error[s] \/ Generated(s, n)
             /\ Generated(s, n) =>
                   \/ n \in executed[s]
                   \/ handler[s][n] \in {"arrived", "migwait", "migrate"}
=============================================================================
