---------------------------- MODULE AgentRouting ----------------------------
(***************************************************************************)
(* The scheduler of one agent: route and maybe_migrate_request of          *)
(* coreflow/scheduler.py, over the live registry of InstanceRegistry and   *)
(* the caches of the instances (GET /cache_state and POST /migrate_cache   *)
(* of vllm/instance_api.py).                                               *)
(*                                                                         *)
(* Both coroutines ask the instances one by one over HTTP.  The answers of *)
(* one call are snapshots of different moments, other coroutines of the    *)
(* same scheduler and new registrations run in between, and all of them    *)
(* share the memo _instance_cache_states.                                  *)
(*                                                                         *)
(* A block hash is a SHA-256 over the chain of all blocks up to it; it is  *)
(* modelled by that prefix of the token sequence itself.                   *)
(***************************************************************************)
EXTENDS InstanceRegistry, Sequences

CONSTANTS
    AgentId,       \* the agent of this scheduler
    RouteCall,     \* calls of route
    MigrateCall,   \* calls of maybe_migrate_request
    Key,           \* request keys (query_id, invocation_id)
    KeyOf,         \* the key of every call
    Tokens,        \* Tokens[c]: the token ids of the call
    InputLength,   \* InputLength[q]: num_input_tokens of a route
    TotalLength,   \* TotalLength[m]: input and output tokens of a migration
    Source,        \* Source[m]: the instance the migrated request ran on
    BlockSize,
    CacheStates,   \* the cache states other traffic can leave an instance in
    Worlds         \* the surroundings: which instances are launched, which of
                   \* the calls are made, whether a GET /cache_state may fail
                   \* and whether retained entries may go away

ASSUME RoutingAssumption ==
    /\ AgentId \in Agent
    /\ RouteCall \cap MigrateCall = {}
    /\ BlockSize \in Nat \ {0}
    /\ Worlds \subseteq [launched : SUBSET Instance,
                          calls : SUBSET (RouteCall \cup MigrateCall),
                          failures : BOOLEAN, evictions : BOOLEAN]
    /\ ContextRange \subseteq [lo : Int, hi : Int]
    /\ KeyOf \in [RouteCall \cup MigrateCall -> Key]
    /\ Tokens \in [RouteCall \cup MigrateCall -> Seq(Nat)]
    /\ TotalLength \in [MigrateCall -> Nat]
    /\ Source \in [MigrateCall -> Instance]

VARIABLES
    world,      \* the surroundings of this behaviour
    cache,      \* cache[i]: what GET /cache_state of instance i answers
    memo,       \* _instance_cache_states, None for a missing entry
    routing,    \* routing[q]: a call of route
    migrating   \* migrating[m]: a call of maybe_migrate_request

routingVars == <<cache, memo, routing, migrating>>
allVars == <<vars, world, routingVars>>

\* A cache state: the retained GPU entries, the hashes of the computed blocks
\* (GPU and CPU), the unfinished requests, and whether none_hash is set.
CacheState ==
    [entries : SUBSET Key, hashes : SUBSET Seq(Nat), active : Nat,
     hashed : BOOLEAN]

\* No answer is told apart from every answer.
ASSUME CacheAssumption == CacheStates \subseteq CacheState /\ None \notin CacheState

\* The answer of an instance whose engine is not initialized.
NoEngine == [entries |-> {}, hashes |-> {}, active |-> 0, hashed |-> FALSE]

\* hot is a history variable: the instances that held the request's entry when
\* the call began.
IdleRoute ==
    [stage |-> "idle", infos |-> {}, results |-> Empty, choice |-> None, hot |-> {}]
IdleMigration ==
    [stage |-> "idle", candidates |-> {}, missing |-> {}, results |-> Empty,
     target |-> None]

RoutingInit ==
    /\ Init
    /\ world \in Worlds
    /\ cache = [i \in Instance |-> NoEngine]
    /\ memo = [i \in Instance |-> None]
    /\ routing = [q \in RouteCall |-> IdleRoute]
    /\ migrating = [m \in MigrateCall |-> IdleMigration]
-----------------------------------------------------------------------------
(* The routing decision *)

\* Whole blocks only; the last partial one has no hash.
BlockHashes(tokens) ==
    [k \in 1 .. Len(tokens) \div BlockSize |-> SubSeq(tokens, 1, k * BlockSize)]

\* The hashes found, up to the first one missing.
HashHits(tokens, state) ==
    LET hashes == BlockHashes(tokens)
    IN  Cardinality({k \in DOMAIN hashes :
                        \A j \in 1 .. k : hashes[j] \in state.hashes})

Score(state) == state.active + Cardinality(state.entries)

\* The candidates min may return: those of the smallest score.
Best(candidates, states) ==
    {i \in candidates : \A j \in candidates : Score(states[i]) <= Score(states[j])}

Answered(results) == {i \in DOMAIN results : results[i] # None}
Exact(q, results) == {i \in Answered(results) : KeyOf[q] \in results[i].entries}
Scored(results) == {i \in Answered(results) : results[i].hashed}
Tied(q, results) ==
    {i \in Scored(results) : \A j \in Scored(results) :
        HashHits(Tokens[q], results[j]) <= HashHits(Tokens[q], results[i])}

\* The answers that serve the slot of the input length.  They are taken from
\* all the answers, not from the tied ones.
InContext(q, results) ==
    Answered(results) \cap
       get_instances_for_context(AgentId, find_context_slot(AgentId, InputLength[q]))

\* Mutant: the exact entries are not looked for.
RouteByHits(q, results) ==
    IF Tied(q, results) = {} THEN {None} ELSE Best(Tied(q, results), results)

\* What route may return for the answers it got.
RouteChoices(q, results) ==
    LET tied == Tied(q, results)
        near == InContext(q, results)
    IN  IF Exact(q, results) # {} THEN Best(Exact(q, results), results)
        ELSE IF tied = {} THEN {None}
        ELSE IF Cardinality(tied) = 1 THEN tied
        ELSE IF near # {} THEN Best(near, results)
        ELSE Best(tied, results)
-----------------------------------------------------------------------------
(* route *)

RouteBegin(q) ==
    /\ q \in world.calls /\ routing[q].stage = "idle"
    /\ LET infos == get_instances_for_agent(AgentId)
       IN  routing' = [routing EXCEPT ![q] =
              [@ EXCEPT !.stage = IF infos = {} THEN "done" ELSE "fetch",
                        !.infos = infos,
                        !.hot = {i \in infos : KeyOf[q] \in cache[i].entries}]]
    /\ UNCHANGED <<vars, cache, memo, migrating>>

\* _fetch_cache_state of one instance; None when the request failed.
Answers(i) == {cache[i]} \cup (IF world.failures THEN {None} ELSE {})

RouteFetch(q, i) ==
    /\ routing[q].stage = "fetch"
    /\ i \in routing[q].infos \ DOMAIN routing[q].results
    /\ \E answer \in Answers(i) :
          routing' = [routing EXCEPT ![q].results = Put(@, i, answer)]
    /\ UNCHANGED <<vars, cache, memo, migrating>>

\* The memo keeps what a gather has brought in.
Remember(results) ==
    [i \in Instance |-> IF i \in Answered(results) THEN results[i] ELSE memo[i]]

RouteEnd(q) ==
    /\ routing[q].stage = "fetch"
    /\ DOMAIN routing[q].results = routing[q].infos
    /\ memo' = Remember(routing[q].results)
    /\ \E choice \in RouteChoices(q, routing[q].results) :
          routing' = [routing EXCEPT ![q] =
             [IdleRoute EXCEPT !.stage = "done", !.choice = choice,
                               !.hot = routing[q].hot]]
    /\ UNCHANGED <<vars, cache, migrating>>
-----------------------------------------------------------------------------
(* maybe_migrate_request *)

\* The request outgrew the range of its source.
Outgrown(m) ==
    LET info == instances[Source[m]]
    IN  info # None /\ info.range # None /\ TotalLength[m] >= info.range.hi

\* Mutant: any other instance of the agent will do.
AnyOther(m) == get_instances_for_agent(AgentId) \ {Source[m]}

MigrationCandidates(m) ==
    get_instances_for_context(AgentId, find_context_slot(AgentId, TotalLength[m]))
       \ {Source[m]}

\* The least loaded candidate, by the memo, is sent POST /migrate_cache.
Post(m, candidates, results) ==
    /\ memo' = Remember(results)
    /\ LET available == {i \in candidates : memo'[i] # None}
       IN  \/ /\ available = {}
              /\ migrating' = [migrating EXCEPT ![m] =
                                 [IdleMigration EXCEPT !.stage = "none"]]
           \/ \E i \in Best(available, memo') :
                 migrating' = [migrating EXCEPT ![m] =
                    [IdleMigration EXCEPT !.stage = "post", !.target = i]]

\* Up to the first await: the fetch of the states that are not in the memo, or
\* else the POST itself.
MigrateBegin(m) ==
    /\ m \in world.calls /\ migrating[m].stage = "idle"
    /\ LET candidates == IF Outgrown(m) THEN MigrationCandidates(m) ELSE {}
           missing == {i \in candidates : memo[i] = None}
       IN  \/ /\ candidates = {}
              /\ migrating' = [migrating EXCEPT ![m].stage = "none"]
              /\ UNCHANGED memo
           \/ /\ candidates # {} /\ missing = {}
              /\ Post(m, candidates, Empty)
           \/ /\ missing # {}
              /\ migrating' = [migrating EXCEPT ![m] =
                    [@ EXCEPT !.stage = "fetch", !.candidates = candidates,
                              !.missing = missing]]
              /\ UNCHANGED memo
    /\ UNCHANGED <<vars, cache, routing>>

MigrateFetch(m, i) ==
    /\ migrating[m].stage = "fetch"
    /\ i \in migrating[m].missing \ DOMAIN migrating[m].results
    /\ \E answer \in Answers(i) :
          migrating' = [migrating EXCEPT ![m].results = Put(@, i, answer)]
    /\ UNCHANGED <<vars, cache, memo, routing>>

MigratePost(m) ==
    /\ migrating[m].stage = "fetch"
    /\ DOMAIN migrating[m].results = migrating[m].missing
    /\ Post(m, migrating[m].candidates, migrating[m].results)
    /\ UNCHANGED <<vars, cache, routing>>

\* The target registers the cache: a retained GPU entry, or hashed CPU blocks.
MigrateApply(m) ==
    /\ migrating[m].stage = "post"
    /\ LET hashes == BlockHashes(Tokens[m])
       IN  \/ cache' = [cache EXCEPT ![migrating[m].target].entries = @ \cup {KeyOf[m]}]
           \/ cache' = [cache EXCEPT ![migrating[m].target].hashes =
                           @ \cup {hashes[k] : k \in DOMAIN hashes}]
    /\ migrating' = [migrating EXCEPT ![m].stage = "applied"]
    /\ UNCHANGED <<vars, memo, routing>>

\* The target refused, or its answer was lost.
MigrateFail(m) ==
    /\ migrating[m].stage \in {"post", "applied"}
    /\ migrating' = [migrating EXCEPT ![m].stage = "none", ![m].target = None]
    /\ UNCHANGED <<vars, cache, memo, routing>>

\* A success drops the target's memo.
MigrateEnd(m) ==
    /\ migrating[m].stage = "applied"
    /\ migrating' = [migrating EXCEPT ![m].stage = "migrated"]
    /\ memo' = [memo EXCEPT ![migrating[m].target] = None]
    /\ UNCHANGED <<vars, cache, routing>>
-----------------------------------------------------------------------------
\* Other requests come and go at an instance.
Traffic(i) ==
    /\ i \in world.launched
    /\ \E state \in CacheStates :
          /\ world.evictions \/ cache[i].entries \subseteq state.entries
          /\ cache' = [cache EXCEPT ![i] = state]
    /\ UNCHANGED <<vars, memo, routing, migrating>>

\* The registry changes; instances that were not launched never register.
Registry ==
    /\ Next
    /\ \A i \in Instance \ world.launched : instances'[i] = None
    /\ UNCHANGED routingVars

RoutingNext ==
    /\ \/ Registry
       \/ \E q \in RouteCall :
             \/ RouteBegin(q) \/ RouteEnd(q)
             \/ \E i \in Instance : RouteFetch(q, i)
       \/ \E m \in MigrateCall :
             \/ MigrateBegin(m) \/ MigratePost(m) \/ MigrateApply(m)
             \/ MigrateFail(m) \/ MigrateEnd(m)
             \/ \E i \in Instance : MigrateFetch(m, i)
       \/ \E i \in Instance : Traffic(i)
    /\ UNCHANGED world

RoutingSpec == RoutingInit /\ [][RoutingNext]_allVars
-----------------------------------------------------------------------------
(* Properties *)

\* The ranges of an agent's instances are disjoint, as the partitions that
\* load_allocation reads are.
DisjointRanges ==
    \A o, p \in Offer :
       \/ o[2] # p[2] \/ o[3] = p[3] \/ o[3] = None \/ p[3] = None
       \/ o[3].hi <= p[3].lo \/ p[3].hi <= o[3].lo

\* The cache of a completed request never moves to the instance it is on or to
\* one whose range it does not fit in, nor while it still fits its source:
\* whatever registers, fails or leaves between the choice and the POST.
MigrationGrows ==
    \A m \in MigrateCall : migrating[m].stage \in {"post", "applied", "migrated"} =>
       LET to == instances[migrating[m].target]
           from == instances[Source[m]]
       IN  /\ migrating[m].target # Source[m]
           /\ to # None => Covers(to.range, TotalLength[m])
           /\ from # None => ~ Covers(from.range, TotalLength[m])

\* maybe_migrate_request gives up at once on an outgrown request only if no
\* other ready instance of the agent covers its length: with disjoint ranges
\* the single slot it looks at misses nothing.
NoMissedMigration ==
    [][\A m \in MigrateCall :
          /\ migrating[m].stage = "idle" /\ migrating'[m].stage = "none"
          /\ Outgrown(m)
          => \A i \in get_instances_for_agent(AgentId) \ {Source[m]} :
                instances[i].range # None => ~ Covers(instances[i].range, TotalLength[m])
      ]_allVars

\* "Exact retained GPU entry for the request key" comes first: if an instance
\* holds the entry of the request when route begins, answers and entries stay, then
\* route answers an instance that holds it, although the states it compares
\* are fetched one after the other and migrations add entries meanwhile.
RouteReuses ==
    \A q \in RouteCall :
       /\ ~world.failures /\ ~world.evictions
       /\ routing[q].stage = "done" /\ routing[q].hot # {}
       => /\ routing[q].choice # None
          /\ KeyOf[q] \in cache[routing[q].choice].entries
=============================================================================
