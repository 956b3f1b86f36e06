---------------------------- MODULE WorkflowDag ----------------------------
(***************************************************************************)
(* The dependency graph of one query: class DAG of coreflow/dag/dag.py.    *)
(*                                                                         *)
(* A DAG object keeps, for the keys (invocation_id, repeat) of its nodes:  *)
(*   nodes     the keys of node_mapping, built from the payload's node_list*)
(*   workflow  the dictionary built from node_dependency: a function from  *)
(*             its keys to the sets of their parents (the order and        *)
(*             multiplicity of a parent list are never looked at)          *)
(*   status    the NodeStatus of every node                                *)
(*   executed  excuted_node, the keys reported complete so far             *)
(*                                                                         *)
(* Nothing in init_from_payload relates node_dependency to node_list: the  *)
(* keys of workflow may be missing from node_mapping, and the other way    *)
(* round.  A lookup of a missing key raises KeyError in the middle of the  *)
(* loop that marks nodes, after some of them have been marked.             *)
(***************************************************************************)
EXTENDS FiniteSets

NodeStatus == {"waiting", "executing", "finished"}

\* Mutant: a node may start with one parent still missing.
DepsMetOneShort(workflow, executed) ==
    {r \in DOMAIN workflow :
        \E p \in workflow[r] \cup {r} : workflow[r] \ {p} \subseteq executed}

\* The records whose whole parent list is in excuted_node.  For the entry nodes
\* the list itself is empty, which is the case executed = {}.
DepsMet(workflow, executed) ==
    {r \in DOMAIN workflow : workflow[r] \subseteq executed}

\* Mutant: the status of a node is not looked at.
ReadyAgain(workflow, nodes, status, executed) ==
    DepsMet(workflow, executed) \cap nodes

\* The records among them that are still to be dispatched.
Ready(workflow, nodes, status, executed) ==
    {r \in DepsMet(workflow, executed) \cap nodes : status[r] = "waiting"}

\* What one pass of the marking loop can do: the nodes it turns EXECUTING and
\* whether it ends in a KeyError.  The loop runs in the order of the payload's
\* dictionary, so a KeyError leaves any part of the ready nodes marked.
MarkOutcomes(workflow, nodes, status, executed) ==
    LET ready == Ready(workflow, nodes, status, executed)
    IN  IF DepsMet(workflow, executed) \subseteq nodes
        THEN {[marked |-> ready, raised |-> FALSE]}
        ELSE {[marked |-> m, raised |-> TRUE] : m \in SUBSET ready}

\* Mutant: the marked nodes replace the others.
MarkedOnly(status, marked) == [n \in marked |-> "executing"]

Mark(status, marked) ==
    [n \in DOMAIN status |-> IF n \in marked THEN "executing" ELSE status[n]]

\* Mutant: one node may still be missing.
is_completed_early(nodes, executed) == \E n \in nodes : nodes \ {n} \subseteq executed

is_completed(nodes, executed) == Cardinality(executed) = Cardinality(nodes)

\* A payload in which every listed node has a dependency entry and vice versa,
\* and no cycle: every set of nodes has one without a parent in the set.
WellFormed(workflow, nodes) ==
    /\ nodes # {}
    /\ DOMAIN workflow = nodes
    /\ \A n \in nodes : workflow[n] \subseteq nodes
    /\ \A U \in SUBSET nodes :
          U # {} => \E n \in U : workflow[n] \cap U = {}
=============================================================================
