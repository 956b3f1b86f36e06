-------------------------- MODULE InstanceRegistry --------------------------
(***************************************************************************)
(* The controller's registry of LLM instances: coreflow/instance_manager.py*)
(* with the two callers that change it, load_allocation and the /register  *)
(* endpoint of coreflow/controller.py.                                     *)
(*                                                                         *)
(* The registry keeps one record per instance id and three indexes that    *)
(* every lookup goes through: by agent, by (agent, slot), and the two maps *)
(* between the context ranges of an agent and its slots.  All methods run  *)
(* without an await, so each is one step.  Hosts, ports and GPU counts are *)
(* left out: no decision depends on them.  A list of ids in an index is a  *)
(* set here; where the code takes the first element, any may be it.        *)
(***************************************************************************)
EXTENDS Integers, FiniteSetsExt

CONSTANTS
    Instance,   \* instance ids
    Agent,      \* agent ids
    ContextRange,      \* context ranges [lo |-> , hi |-> ]
    Length,     \* input lengths a lookup may ask for
    Offer,      \* the (instance, agent, range) triples that may register
    None

ASSUME OfferAssumption ==
    /\ Offer \subseteq Instance \X Agent \X (ContextRange \cup {None})
    /\ IsFiniteSet(ContextRange)
    /\ None \notin ContextRange

\* Instance ids as the launcher builds them, "<agent>-<lower>-<upper>-<index>":
\* an id determines the agent and the range.
IdsDetermine ==
    \A o, p \in Offer : o[1] = p[1] => o = p

VARIABLES
    instances,         \* _instances: id -> record, None when absent
    agentInstances,    \* _agent_instances: agent -> set of ids
    contextInstances,  \* _context_instances: agent -> slot -> set of ids
    rangeSlots,        \* _range_slots: agent -> range -> slot
    slotRanges,        \* _slot_ranges: agent -> slot -> range
    serving            \* the HTTP server runs (after load_allocation)

vars == <<instances, agentInstances, contextInstances, rangeSlots, slotRanges,
          serving>>
indexes == <<agentInstances, contextInstances, rangeSlots, slotRanges>>

Status == {"starting", "ready", "unavailable"}
Info == [agent : Agent, range : ContextRange \cup {None}, status : Status]
Empty == [x \in {} |-> x]

\* Python's None is not a record, a slot or an id.
ASSUME NoneAssumption == None \notin Info /\ None \notin Nat /\ None \notin Instance

\* The functions of a dictionary with keys in K and values in V.
Dict(K, V) == UNION {[D -> V] : D \in SUBSET K}
Slot == 0 .. Cardinality(ContextRange) - 1

TypeOK ==
    /\ instances \in [Instance -> Info \cup {None}]
    /\ agentInstances \in [Agent -> SUBSET Instance]
    /\ contextInstances \in [Agent -> Dict(Slot, SUBSET Instance)]
    /\ rangeSlots \in [Agent -> Dict(ContextRange, Slot)]
    /\ slotRanges \in [Agent -> Dict(Slot, ContextRange)]
    /\ serving \in BOOLEAN

Init ==
    /\ instances = [i \in Instance |-> None]
    /\ agentInstances = [a \in Agent |-> {}]
    /\ contextInstances = [a \in Agent |-> Empty]
    /\ rangeSlots = [a \in Agent |-> Empty]
    /\ slotRanges = [a \in Agent |-> Empty]
    /\ serving = FALSE

\* d[k] = v for a dictionary d.
Put(d, k, v) ==
    [x \in DOMAIN d \cup {k} |-> IF x = k THEN v ELSE d[x]]

\* d.get(k, {}) for a dictionary of sets.
GetSet(d, k) == IF k \in DOMAIN d THEN d[k] ELSE {}
-----------------------------------------------------------------------------
(* Registration *)

\* Mutant: a gap between slots.
SlotForGap(a, r) ==
    IF r \in DOMAIN rangeSlots[a] THEN rangeSlots[a][r]
    ELSE Max(DOMAIN slotRanges[a] \cup {-1}) + 2

\* Mutant: the largest slot is given away again.
SlotForLast(a, r) ==
    IF r \in DOMAIN rangeSlots[a] THEN rangeSlots[a][r]
    ELSE Max(DOMAIN slotRanges[a] \cup {0})

\* The slot of a range: the one it has, or one past the largest of the agent.
SlotFor(a, r) ==
    IF r \in DOMAIN rangeSlots[a] THEN rangeSlots[a][r]
    ELSE Max(DOMAIN slotRanges[a] \cup {-1}) + 1

\* register: the record is overwritten, the indexes only grow.
Register(i, a, r, status) ==
    /\ instances' = [instances EXCEPT ![i] =
                        [agent |-> a, range |-> r, status |-> status]]
    /\ agentInstances' = [agentInstances EXCEPT ![a] = @ \cup {i}]
    /\ IF r = None THEN UNCHANGED <<contextInstances, rangeSlots, slotRanges>>
       ELSE LET k == SlotFor(a, r)
            IN  /\ rangeSlots' = [rangeSlots EXCEPT ![a] = Put(@, r, k)]
                /\ slotRanges' = [slotRanges EXCEPT ![a] = Put(@, k, r)]
                /\ contextInstances' = [contextInstances EXCEPT ![a] =
                                          Put(@, k, GetSet(@, k) \cup {i})]

\* load_allocation: a stub for an instance of the allocation file, which always
\* has a range.  It runs before the server is started.
LoadStub(i, a, r) ==
    /\ ~ serving
    /\ <<i, a, r>> \in Offer /\ r # None
    /\ Register(i, a, r, "starting")
    /\ UNCHANGED serving

StartServer ==
    /\ ~ serving
    /\ serving' = TRUE
    /\ UNCHANGED <<instances, indexes>>

\* POST /register: register, then set_ready.
RegisterRequest(i, a, r) ==
    /\ serving
    /\ <<i, a, r>> \in Offer
    /\ Register(i, a, r, "ready")
    /\ UNCHANGED serving
-----------------------------------------------------------------------------
(* Failover *)

\* mark_unavailable
MarkUnavailable(i) ==
    /\ serving
    /\ instances[i] # None
    /\ instances' = [instances EXCEPT ![i].status = "unavailable"]
    /\ UNCHANGED <<indexes, serving>>

\* Mutant: the context index is forgotten.
RemoveFromAgent(i) ==
    /\ serving
    /\ instances[i] # None
    /\ agentInstances' = [agentInstances EXCEPT ![instances[i].agent] = @ \ {i}]
    /\ instances' = [instances EXCEPT ![i] = None]
    /\ UNCHANGED <<contextInstances, rangeSlots, slotRanges, serving>>

\* remove: the id leaves the indexes of the agent and range it has now.
RemoveInstance(i) ==
    /\ serving
    /\ instances[i] # None
    /\ LET a == instances[i].agent
           r == instances[i].range
       IN  /\ agentInstances' = [agentInstances EXCEPT ![a] = @ \ {i}]
           /\ contextInstances' =
                IF r = None \/ r \notin DOMAIN rangeSlots[a]
                THEN contextInstances
                ELSE IF rangeSlots[a][r] \notin DOMAIN contextInstances[a]
                THEN contextInstances
                ELSE [contextInstances EXCEPT ![a][rangeSlots[a][r]] = @ \ {i}]
    /\ instances' = [instances EXCEPT ![i] = None]
    /\ UNCHANGED <<rangeSlots, slotRanges, serving>>

Next ==
    \/ \E i \in Instance, a \in Agent, r \in ContextRange : LoadStub(i, a, r)
    \/ StartServer
    \/ \E i \in Instance, a \in Agent, r \in ContextRange \cup {None} :
          RegisterRequest(i, a, r)
    \/ \E i \in Instance : MarkUnavailable(i) \/ RemoveInstance(i)

Spec == Init /\ [][Next]_vars
-----------------------------------------------------------------------------
(* Lookup *)

Ready(i) == instances[i] # None /\ instances[i].status = "ready"

get_instances_for_agent(a) == {i \in agentInstances[a] : Ready(i)}

get_instances_for_context(a, k) ==
    {i \in GetSet(contextInstances[a], k) : Ready(i)}

Covers(r, len) == r.lo <= len /\ len < r.hi

\* Mutant: the upper bound of a range belongs to it.
find_slot_closed(a, len) ==
    LET covering == {k \in DOMAIN slotRanges[a] :
                        slotRanges[a][k].lo <= len /\ len <= slotRanges[a][k].hi}
    IN  IF covering # {} THEN Min(covering) ELSE None

\* Mutant: the lower bound of a range does not belong to it.
find_slot_open(a, len) ==
    LET covering == {k \in DOMAIN slotRanges[a] :
                        slotRanges[a][k].lo < len /\ len < slotRanges[a][k].hi}
    IN  IF covering # {} THEN Min(covering) ELSE None

\* The lowest slot whose range covers the length, or else the lowest that
\* indexes an instance whose own range does (slots enter _context_instances in
\* ascending order).
find_context_slot(a, len) ==
    LET covering == {k \in DOMAIN slotRanges[a] : Covers(slotRanges[a][k], len)}
        fallback == {k \in DOMAIN contextInstances[a] :
                        \E i \in contextInstances[a][k] :
                           /\ instances[i] # None
                           /\ instances[i].range # None
                           /\ Covers(instances[i].range, len)}
    IN  IF covering # {} THEN Min(covering)
        ELSE IF fallback # {} THEN Min(fallback) ELSE None

\* The instances find_alternative can return.
find_alternative(a, k, exclude) ==
    LET same == get_instances_for_context(a, k) \ {exclude}
    IN  IF same # {} THEN same ELSE get_instances_for_agent(a) \ {exclude}
-----------------------------------------------------------------------------
(* Properties *)

\* The two maps between ranges and slots of _get_or_create_slot are inverse to
\* each other and the slots of an agent are 0, 1, 2, ... without a gap.
SlotsInverse ==
    \A a \in Agent :
       /\ DOMAIN slotRanges[a] = 0 .. Cardinality(DOMAIN rangeSlots[a]) - 1
       /\ \A r \in DOMAIN rangeSlots[a] :
             /\ rangeSlots[a][r] \in DOMAIN slotRanges[a]
             /\ slotRanges[a][rangeSlots[a][r]] = r

\* The indexes say of every instance exactly what its record says, so a lookup
\* never meets an id without a record (a KeyError in route) and never misses
\* an instance.
IndexesExact ==
    \A i \in Instance, a \in Agent :
       /\ i \in agentInstances[a] <=>
             instances[i] # None /\ instances[i].agent = a
       /\ \A k \in DOMAIN contextInstances[a] :
             i \in contextInstances[a][k] <=>
                /\ instances[i] # None
                /\ instances[i].agent = a
                /\ instances[i].range # None
                /\ rangeSlots[a][instances[i].range] = k

\* Lookups agree with the records.  The slot that find_context_slot answers leads
\* to instances whose own range covers the length, and no ready instance of the
\* agent covers it when there is no slot: what route and maybe_migrate_request
\* rely on.  find_alternative answers another ready instance of the same agent
\* whenever there is one.
LookupSound ==
    \A a \in Agent :
       /\ \A len \in Length : LET k == find_context_slot(a, len) IN
             /\ \A i \in get_instances_for_context(a, k) :
                   instances[i].range # None /\ Covers(instances[i].range, len)
             /\ k = None =>
                   \A i \in get_instances_for_agent(a) :
                      instances[i].range # None => ~ Covers(instances[i].range, len)
       /\ \A i \in Instance : \A k \in DOMAIN contextInstances[a] :
             LET found == find_alternative(a, k, i)
                 others == {j \in Instance \ {i} : Ready(j) /\ instances[j].agent = a}
             IN  found \subseteq others /\ (found = {} <=> others = {})
=============================================================================
