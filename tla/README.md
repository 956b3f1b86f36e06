# CoreFlow: a TLA+ verification project

CoreFlow serves agentic workflows. A client posts a *query*, a DAG of LLM
invocations, to a controller. The controller dispatches every node whose parents
have finished to an LLM instance, chosen by what the instances have in their KV
caches; the instance generates the tokens and reports back, which releases
the next nodes. This directory models that machinery in TLA+, checks it with
TLC on small instances, and proves the main results with TLAPS.

## 1. Inventory

| Component | State | Operations | Interacts with |
|---|---|---|---|
| Workflow DAG (`coreflow/dag/`) | `node_mapping` with a `NodeStatus` per node, `workflow`, `excuted_node` | `get_entry_nodes`, `update_result`, `is_completed` | called by the controller's coroutines |
| Controller (`coreflow/controller.py`) | `_queries`, `QueryState.completed/error`, one `httpx.AsyncClient` | `POST /query`, `POST /node_complete`, `POST /register`, `execute_query_async`, `_dispatch_node_async`, `handle_node_complete` | HTTP to and from the instances |
| Agent scheduler (`coreflow/scheduler.py`) | `_instance_cache_states` | `route`, `maybe_migrate_request`, `dispatch` | registry; HTTP `/cache_state`, `/migrate_cache`, `/generate` |
| Instance registry (`coreflow/instance_manager.py`) | records, index by agent, index by slot, range/slot maps | `register`, `set_ready`, `mark_unavailable`, `remove`, lookups | controller, schedulers |
| Instance API (`vllm/instance_api.py`) | engine, retained entries, hashed blocks | `/generate`, `/cache_state`, `/migrate_cache` | engine, controller |
| Engine KV retention (`vllm/core/block_manager.py`, `core/scheduler.py`) | queues, block tables, retained entries, pending swap-outs | the schedule: running, preemption by swap, prefills with cached prefixes; `retain_blocks`, `swap_out_finished`, `register_migrated_cpu_cache` | engine loop, worker, `/migrate_cache` |
| Prefix caching (`vllm/core/block/`, `core/evictor.py`) | reference counts, hashes, access stamps, a lazy heap per device | allocate, promote, free, evict, bisection over hashes | block manager |
| Engine and worker (`async_llm_engine.py`, `worker.py`, `model_runner.py`) | the KV tensors, the step under way | schedule, execute, process outputs | block manager |
| Allocator (`coreflow/allocator/`) | none kept | context statistics, partition DP, greedy GPU assignment, throughput search | predictor, files |
| Launcher (`scripts/start_instances_from_allocation.py`, `t3_e2e.sh`) | processes, GPUs, `instances.json` | start, wait for health, stop, exit trap | operating system, files |
| Workload generator (`scripts/generate.py`) | none | builds query payloads with the keep/free flags | controller |
| Predictor, profiler | tables in files | interpolation, GPU measurements | files |

What is hard:

* **Nested awaits.** `POST /generate` (controller to instance) stays open until
  the instance's `POST /node_complete` (instance to controller) has returned, and
  the handler of that request awaits the `POST /generate` of the nodes it
  released. A workflow of depth *k* keeps *k* requests open, all over the
  connections of one client.
* **Timeouts that do not cancel.** The report gives up after 30 s and the
  dispatch after 300 s, but neither stops what runs at the other end. Late handlers
  and late reports are normal.
* **Look up, await, use.** The handler looks up the query, awaits a migration,
  then applies the report. A route compares cache states fetched at different
  moments. A migration reuses states remembered by earlier calls.
* **Ids chosen by clock.** A query without id gets the current millisecond, and an
  equal id overwrites the registered query.
* **Payloads taken as they come.** Nothing relates `node_dependency` to
  `node_list`: a missing key raises in the middle of the marking loop.
* **Two views of one cache.** The scheduler's tables say what a block should hold;
  the tensors get it later, when the worker has copied and computed. A block may be
  freed, evicted or handed on in between, and `/migrate_cache` changes the tables
  while the model runs.
* **Late frees.** Retained entries and swapped-out tables are released steps after
  their request finished, with the stamp of that moment or none at all, into an
  eviction queue that recognises outdated entries by their stamps.
* **Round numbers.** Retained lengths, computed blocks, chunks and prompts meet at
  block boundaries; context lengths meet at range bounds.
* **A state file that outlives its processes.** The launcher's pids are written
  last and read by the exit trap of any later experiment; a pid that another user has
  got in the meantime ends the stop half way.
* **Indexes that only grow.** `register` overwrites a record without taking the id
  out of the indexes of its old agent or range.

`PROJECT.json` lists the hazards at their lines, with the properties about each.

## 2. Modules

```
WorkflowDag ──────────── ControllerFlow ─── MCControllerFlow
     │                     │        └────── ControllerFlowProofs
WorkflowExecution <────────┘ (refines)
InstanceRegistry ─────── MCInstanceRegistry
     └── AgentRouting ── MCAgentRouting, AgentRoutingProofs (of both)
EngineCache ──────────── MCEngineCache, EngineCacheProofs
PrefixCache ──────────── MCPrefixCache, PrefixCacheProofs
ResourceAllocation ───── MCResourceAllocation, ResourceAllocationProofs
RequestRanges ────────── RequestRangesProofs
Launcher ─────────────── MCLauncher, LauncherProofs
PythonLists: list operations and the bisection that both caches use
Induction: lemmas the proofs share
```

**WorkflowDag** (`dag.py`). `workflow` maps a key to the set of its parents.
`DepsMet`, `Ready` and `MarkOutcomes` are one pass of the marking loop. If some
record whose dependencies are met has no node, the pass raises `KeyError` after
marking any part of the ready nodes (the order is the payload's).

**ControllerFlow**. One step is the code between two awaits of one coroutine.
For every node of a submission there are three coroutines: `task`
(`_dispatch_node_async`), `gen` (`/generate` at the instance) and `handler`
(`handle_node_complete` for its report). `target` is the query object the handler
found under the id, which need not be the submission the node belongs to.
`Held`/`ConnectionFree` are the client's connections.

| Action | Code |
|---|---|
| `CreateQuery`, `ExecuteQuery` | `create_query` + `add_query`; `execute_query_async` + `get_entry_nodes` |
| `RouteAcquire`, `RouteReturn`, `RouteFail` | the await of `route`; only the connection it occupies and whether it returned `None` matter here, the decision is in AgentRouting |
| `DispatchSend`, `DispatchFail`, `DispatchTimeout`, `DispatchReturn` | `dispatch` and the test of its result |
| `GenerateFinish`, `GenerateMismatch`, `EngineFail` | the outcomes of `/generate` |
| `PostReturn`, `PostTimeout`, `PostLost` | the end of `client.post(.../node_complete)` and its `except: pass` |
| `NodeComplete`, `NodeCompleteMigrate`, `NodeCompleteRefused` | `handle_node_complete` up to its first await |
| `MigrateAcquire`, `MigrateReturn` | the await of `maybe_migrate_request`, then `update_result` |
| `ScheduleReturn` | the end of the nested `gather`, then the completion test |

`UpdateResult` is `get_next_execute_agents` with all that follows it until the
next await: recording, marking, spawning the children or testing completion, and the
exception that leaves the handler in between. `Terminated` is the controller
waiting for new requests, so that TLC's deadlock check reports real deadlocks.

**WorkflowExecution** is the promise to the client without coroutines: a node is
started once, after its parents were generated, and a query is reported only when
all its nodes were. ControllerFlow refines it under `WorkOf`.

**InstanceRegistry**. The methods of `InstanceManager` as steps, with the callers
that change it: `load_allocation` before the server starts, `/register` after. Lists
of ids are sets; where the code takes the first element, any may be it.
`mark_unavailable`, `remove` and `find_alternative` have no caller in the repository yet;
they are modelled as the operations the class offers.

**AgentRouting** extends the live registry with `route` and
`maybe_migrate_request` of one scheduler, the caches as `/cache_state` shows them,
and the shared memo. Each fetch is a step, so the answers of one call are of
different moments. A block hash identifies the token prefix up to the block and is
modelled by that prefix (collisions of the 64-bit hash are not modelled). A
successful POST registers the migrated request as a retained entry or as hashed
blocks.

**EngineCache** is one serving instance in the launcher's configuration: prefix
caching and chunked prefill on, preemption by swap, eager mode, one sequence per
group. The engine is one asyncio task, and `phase` says where its step stands. The only awaits
are `idle`, between two steps, and `worker`, while the model runs; there the
handlers of the HTTP API interleave. Between them the step is divided into the
iterations of its loops, which nothing else can observe:

| Action | Code |
|---|---|
| `Arrive`, `Migrate` | `/generate`, the two branches of `/migrate_cache` |
| `StartStep`, `RunHead`, `PreemptLast`, `StopRunning` | the sort of the waiting queue and `_schedule_running`, one sequence at a time |
| `AdmitHead`, `IgnoreHead`, `StopPrefill` | `_schedule_prefills`: admitted, `NEVER`, and the reasons to break |
| `EndSchedule` | the metadata, the access stamps and `mark_blocks_as_computed` |
| `Worker` | swap in, swap out, then the model writes the KV of the batch |
| `Process`, `FinishOne` | `_process_model_outputs`, then retain, swap out or free for each finished request |

`mem` is what the allocators believe (reference counts, hashes, computed blocks, last
access), `kv` is what the tensors hold, slot by slot; the properties compare them.
A full block's hash is `<<stream, index>>`, because a token is told apart only by its
stream and position, and time stamps keep only their order (`Rank`). `lost` is a history
variable: references whose table was dropped without releasing them. The order of
the evictor (`Oldest`) is that of an exact queue; PrefixCache shows where the lazy heap
of the code agrees with it. Exceptions that end the engine are phases of their own.
A request's own `cached_tokens` is 0: `_dispatch_node_async` of the controller never sends the field
(`controller.py:133-144`), so the branches for it in `_resolve_cached_prefix_len`
(`core/scheduler.py:1435-1438`) and `_get_num_new_uncached_and_cached_tokens` (`2060-2062`) are left
out of `ExactTokens` and `NewTokens`. Nor does a client that disconnects abort its request:
nothing in the handler of `/generate` looks.

**PrefixCache** is the allocator of one device with the lazy heap of `LRUEvictor` as
it is: entries with a stamp, the free table, entries of reused blocks left behind, the
clean-up. Its clients do what a GPU's (finish, retain) or a CPU's (swap, match)
users do. `LazyHeapExact` justifies `Oldest` in EngineCache when every table is
stamped before it is freed.

**ResourceAllocation**. `InstanceOrchestrator.solve` as operators (`Dp`, `Scheme`,
`Greedy`, `Best`), `WorkflowAllocator.allocate` as steps around them. The
throughput table is the input; throughputs divide `Scale`, so that inverses are
exact integers. Normalised throughputs are compared as fractions.

**RequestRanges** scans a trace for every context range, in the order of
`attain_instance_throughput`, and remembers which calls each range counted.

**Launcher**. Experiments one after the other: start the instances of the allocation,
each after the one before is healthy, write the state file, work, run the exit
trap. Instances may stay silent or die, a port has one listener, and pids of dead
processes are handed out again, to the same user or to another.

| Action | Code |
|---|---|
| `Begin`, `Spawn`, `Healthy`, `WriteState` | `_start` |
| `EarlyExit`, `NotEnoughGpus`, `HealthTimeout`, `EndOfWork` | the ways the script exits; each runs the trap, which reads whatever state file there is |
| `Terminate`, `Poll`, `Kill`, `EndLoop` | the three loops of `_stop`, one item of the file at a time: `SIGTERM`, the last pass of signal 0, `SIGKILL`; a dead pid is skipped |
| `Refused` | `PermissionError`, which no loop catches: the stop ends at that item and the trap goes on (`\|\| true`) |
| `Die`, `BindFails`, `OtherProcess` | the operating system |

Definitions named as a *Mutant* in the modules are wrong variants of the definition
that follows them. They are used to confirm that the properties can tell the
difference (`PROJECT.json`, `mutants`).

## 3. Runs

| Run | Instance | What it shows |
|---|---|---|
| `flow_pool` | two diamonds, 1 connection, no faults, fair | `EventuallyCompleted`, no deadlock: the 30 s timeout of the report breaks the circle of nested requests |
| `flow_faults` | one diamond, 2 connections, all faults but lost reports, fair | `CompletionExact`, `NoSilentStall`, `ImplementsWorkflow`, `EventuallySettled` |
| `flow_queries` | a join and a chain, distinct ids, 2 connections, failing instances, engines and mismatches | `OwnReport`, `CompletionGenuine`, `CompletedWithoutError` and the inductive invariants `Coherent`, `Owned`, `Tracked` |
| `flow_payloads` | three submissions with one id and malformed payloads, lost and late reports | `TypeOK`, `ReleasedInOrder`, `GeneratedOnce` |
| `registry` | five instances, two agents, shared, overlapping and absent ranges | `SlotsInverse`, `IndexesExact`, `LookupSound` |
| `routing` | two migrations among three instances with failing fetches and evictions; or a route and a migration between two reliable instances | `MigrationGrows`, `NoMissedMigration`, `RouteReuses` |
| `engine` | one instance with three requests, in three setups (below), fair | `OwnersLive`, `RefsExact`, `TablesAddressed`, `ComputedBacked`, `ContextIntact`, `NoOverrun`, `AllServed` |
| `engine_overrun` (violation) | a retained entry that ends at a block boundary, a longer repeat | `NoOverrun`: the assertion on computed tokens fails |
| `cache` | 2 clients, 2 chains of 3 blocks with a common first block, 4 blocks; a plain GPU, a GPU with retained entries, a CPU cache | `LazyHeapExact`, `HeapCovers`, `PrefixClosed`, `BisectExact` |
| `allocation` | two agents, 3 context steps: every table over {0, 3, 4, 12} with 10 GPUs; pairs of coarse tables with uneven and absent invocations and rejected budgets | `PlansMinimal`, `GreedyBest`, `MaxMinOptimal` |
| `ranges` | every trace of two nodes with up to 3 calls | `OutsAreVisits`, `NoGap` |
| `launch` | 2 experiments, 2 instances, 3 GPUs, 4 pids, all faults | `RunGpusDisjoint`, `OnlySparedSurvive` |

Where one run has several situations, its Init chooses one and the behaviour keeps it
(`world` in AgentRouting, `conf` and `info` in EngineCache, `kinds` in PrefixCache, the
`Inputs` of ResourceAllocation).
The setups of `engine`: a query that retains its cache for its repeat, beside another
query, with prompts up to the context limit or too large for the device (8 GPU blocks);
a request swapped to the CPU, a repeat that reads it back, and a third that
competes (5 GPU and 4 CPU blocks); a cache that migrates to either device, the request
it was moved for, and a third that competes (6 GPU and 3 CPU blocks).

**Bounds.** A diamond is the smallest DAG with a fan-out and a join; one and two
connections are the pool sizes at which nested requests compete (the real limit,
100, only needs longer chains for the same circle). Two queries suffice for a report
to reach the wrong one, three for a chain of overwrites. In the registry five
instances give each pair of situations (same range, overlapping range, no range,
other agent) and ids may leave and return without limit. In AgentRouting the
token sequence has two blocks, so that no, part and all of a prefix can be
cached, and the lengths include both sides of each bound. In EngineCache a block
holds two tokens, so prompts and outputs of two to six end inside and at the end of a
block, and three requests are the least for one to share, one to repeat and one to
compete; five to eight GPU blocks make preemption, eviction and `NEVER` happen.
The engine's workloads are finite and its stamps are ranked, so no counter needs
a cap there. PrefixCache caps time with `MaxClock` and starts the clean-up at
`CleanupThreshold` 2 instead of 50, so that cleaned and uncleaned
heaps both occur. `MaxRuns` bounds the experiments of Launcher (the second finds the
first one's file and orphans; a third adds nothing new), `MaxCalls` the repeats of a
node. Runs with `CHECK_DEADLOCK FALSE` are those whose work is
finite and really ends: a workload, an allocation, a scan, the last experiment, the last tick.

**Conditions.** Some properties hold only where the code's own assumptions do, and say so.
`ComputedBacked`, `ContextIntact`, `NoOverrun` and `AllServed` are stated of setups without
a migration (`Undisturbed`); `RefsExact`, `OwnersLive` and `TablesAddressed` of all. The
workloads of `engine` satisfy two conditions. `ContinuedJobs`: what a retained entry saves a request is
no more than what the two have in common. `NoRoundEntry`: no retained entry that ends with a full block
is followed by a longer prompt. The second leaves out a case that the code meets, and
which the workloads of `engine_overrun` (where only `ContinuedJobs` holds) consist of. `AllServed` allows the two ways in
which the code gives up: no CPU space for a preempted request, and GPU blocks lost by
a swap-out. `LazyHeapExact` is stated of devices whose tables are all stamped before they
are freed; the absence of holes in `PrefixClosed`, and `BisectExact`, of those without
late frees. The limits listed below are what these conditions leave out.

**Fairness.** `Fairness` is weak fairness of `ExecuteQuery` and, per node, of its
own coroutines (`NodeStep`). The event loop runs every ready coroutine, an
engine finishes its generations (`max_tokens` bounds them), and timers expire:
`PostTimeout` is the 30 s limit of the instance's client. Connections are handed to waiting
requests in some order; weak fairness per node is enough because every holder lets
go without needing a particular successor. No fairness is put on faults, on
clients or on the 300 s timeout. In EngineCache the engine's loop never rests while a
sequence is unfinished: unless it runs out of work again and again it steps infinitely often
(`EngineReady` is `ENABLED Engine`, written out), and the controller sends every
request it has (weak fairness of `Arrive`). Migrations are not fair.

**Finding.** `engine_overrun`: a retained entry counts the last sampled token, whose KV was
never computed. When such an entry ends at a block boundary and the next
repeat's prompt is longer, the scheduler takes one block more for computed than the chunk
it scheduled leaves out, and the assertion of `update_num_computed_tokens` fails.

**Known limits of the code**, met while modelling and excluded by the conditions above
or by the inputs of the runs:

* Two submissions with one id (the same millisecond) share the identity of their nodes;
  `OwnReport` and the theorems built on it assume `UniqueQueryIds`.
* An id that registers again with another context range stays in the slot of the old
  one, and `remove` then leaves it there; the runs use the launcher's ids, which
  determine the range (`IdsDetermine`).
* On a tie of hits, `route` takes its context candidates from all answers, not from the tied
  ones; and a route that fetched before a migration writes the old state of the target
  into the memo. Both only steer the choice among instances that may serve.
* A swap-out with a partly filled last block, and a migration that does not fit the CPU
  cache, leave references without a table (`lost`).
* A retained entry pins its blocks until the next repeat is admitted; on a device too
  small for both, that repeat may wait behind a request that waits for those blocks.
* The copy that a migration back to the GPU prepares is not passed to the worker.
* A retained entry freed late, with its old stamp, may put a shared first block before
  later blocks in the eviction order; temporary tables on the CPU return blocks unstamped,
  so that an outdated entry may pass for a current one.
* The partition with the least sum of inverse throughputs is not always the fastest with
  whole instances (`PlansMinimal` and `GreedyBest` state what each stage does achieve).
* A call exactly at a bound counts for both neighbouring ranges (part of `NoGap`).
* An experiment that fails to start leaves its first instances running, unless an older
  state file happens to name their pids; the exit trap then signals whatever processes have
  that file's pids.
* A pid of the file that another user has got in the meantime ends `_stop` with
  `PermissionError`, in any of its three loops. The instances that the stop had not killed by then
  live on; `OnlySparedSurvive` says that no others do.

## 4. Proofs

The theorems hold for every value of the constants: every set of submissions,
instances, clients, payloads and faults, every pool size, number of blocks and
clean-up threshold. The assumptions on constants (named `...Assumption`, in the module
that declares them) give their types, say that `None` is not a value, and that
agents' ranges, clients and nodes are finitely many. Where a theorem needs more, its
`ASSUME` says so. TLC checks the invariants of the controller too (`flow_queries`).

*ControllerFlowProofs.*
`TypeCorrect`: `Spec => [](TypeOK /\ Coherent)`, of which `Typed` is the first half.
`Coherent` is the inductive strengthening: a handler exists only after a generation,
a generation only after a dispatch, a dispatch only for a node that is not `WAITING`,
and a handler's query is registered. `ReleaseOrder` and `NoRegeneration` follow: a node
is released only by a marking pass that found it `WAITING`, hence, by `Coherent`,
without a task and without a generation; `excuted_node` only grows.

With `UniqueQueryIds`: `Owned` adds that the id of a registered submission still leads to it,
so a handler's target is its own submission, and that only generated nodes are
recorded. From it: `ReportsStayHome`, `CompletionIsGenuine`, and `Implementation`, the
step simulation of WorkflowExecution. `CompletionIsClean` (also without the
fault `"slow"`, a dispatch that outlasts the 300 s of the client) rests on `Blamed`: an
error is due to a node that was never generated and never will be, or to a query
none of whose nodes was spawned, and such a query cannot complete.

With `Reliable` (unique ids, well-formed payloads, no report lost): `Tracked` says that a
released node is accounted for by a coroutine, a record or an error, and a waiting one
has a parent that is not recorded. At rest, well-foundedness of the DAG then gives
`NothingForgotten`; `CompletionIsExact` is part of the invariant.

*AgentRoutingProofs*, the registry (assume `IdsDetermine`: an id determines agent and range, as the
launcher's ids do). `Consistent` is `TypeOK`, `SlotsInverse` and `IndexesExact` with
three facts that make them inductive: a record is one that was offered and its range has a
slot (`Recorded`); both slot indexes have the same keys (`Keyed`); a slot is that of
its range, which was offered for the agent (`SlotsOffered`). A new slot is numbered by the
ranges already there, so that slots stay without gaps is a statement about
cardinalities. `LookupsSound` follows: the instances of a slot have its range.

*AgentRoutingProofs*, routing (assume `IdsDetermine`). The registry's invariant, lifted to the
composed specification, with what each call has fetched and chosen so far
(`RoutingInv`): the answers are of instances that were candidates, a target
covers the length and its source does not, an instance that held the entry when the route
began still does. `MigrationsGrow` needs that a target which left and came back
has the same range; that is where `IdsDetermine` enters. `MigrationsNotMissed` also assumes
`DisjointRanges`: the single slot that `find_context_slot` returns is then the only one.

*LauncherProofs.* `LauncherInv`: the GPUs still available are distinct and
belong to no instance of the experiment under way (`GpusFree`), and the
script knows these instances: it waits for one of them and lists the others until all are
in the file (`Known`). `Stopping` is what the stop has achieved: behind the kill loop's
place in the file there is no instance, and none is at the item where a stop ended early,
because instances are the user's own. `GpusDisjoint` and `StopSpares` follow, although pids
are reused and a failed start stops an older file's processes.

*RequestRangesProofs.* What the scan has counted is a function of the range and of the calls
seen (`RangesInv`). `RangesCover` is then arithmetic. `OutsCountVisits` compares two
counts: mapping a call that leaves the range to the one that entered it is a bijection.

*PrefixCacheProofs.* Every operation of the allocator is a fold over a table. `Induction`
proves, once for any operator, that `FoldLeft` runs through the elements in their order;
it is instantiated for allocating a block, freeing one and freeing a table, and the
facts of the single step are carried along the run with `UpTo`. What
`bisect` computes is obtained in the same way from the size of the interval. Three
invariants build on each other.

* `CacheInv`, with no condition: types; an entry for every free cached block
  (`Covers`); one block per hash (`Unique`); as many references as tables the block is in
  (`Refs`); an unfinished block in one table only (`Private`); and tables that hold the
  leading blocks of their chain (`Contents`). Allocation needs the argument that
  `can_allocate` makes: the blocks still wanted and not in use are no more than the free ones.
  It gives `HeapAlwaysCovers`.
* `QueueInv`, for devices without `match`: an entry that was pushed for an earlier
  content of its block is older than the block's stamp if the block is free
  (`Settled`), and than the stamp it is going to get if it is in use (`Ahead`). This is
  inductive because all entries are of earlier steps while a step schedules (`Past`), and
  contents change only then. So a current entry is its block's own, the sanity check
  of `evict` never fails, and the lazy queue is exact: `QueueStaysExact`.
* `ClosedInv`, for `kinds = {"finish"}`: the predecessors of a free block are cached, and in
  use or freed no earlier (`Closed`). With the exactness of the queue an evicted block has
  no cached successor: a free one would be deeper and no younger, and would go first; one in
  use is in a table together with all its predecessors. `CacheStaysClosed` and
  `BisectStaysExact` follow.

*ResourceAllocationProofs* (assume that there is an agent: `allocate` returns at once for none).
All three properties, for every set of agents, table, budget and number of groups.

* Sums: `SumFunction` takes the elements in the order `CHOOSE` finds them. `SumAdds` shows, by
  induction over subsets, that the order does not matter; the other facts (a term added,
  equal terms, two functions with one sum) follow from it.
* The dynamic program: `Dp` and the cuts of `Scheme` are recursive functions, whose values
  exist by `Iterates` (`Induction`). A cell is attained by its parent and bounded by all its
  transitions (`DpCell`), so that the reconstructed plan costs exactly the last cell, and
  every plan at least that; a plan costs less than `Inf`, so an unreached cell means there is
  none. `PlansStayMinimal`.
* The greedy loop keeps its counts `Fair`: a group with several instances would, with one
  less, be no faster than any other group is. Of two splits of the same number, one that
  differs has less somewhere, so fair counts are the best ones: `SplitsStayBest`. It also
  gives that a curve does not fall (`BestGrows`), since the best split of fewer instances can be
  topped up.
* The workflow loop is the same argument for fractions: `Balanced` is inductive because the
  bottleneck is a slowest agent and the curves do not fall. `AllocationOptimal`.

Only here does `Agents # {}` matter; that throughputs divide `Scale` is not used, the
optimality of the plan is for the costs as the model rounds them.

*EngineCacheProofs*, the ownership of blocks, with no condition: for every number of requests, block
size, budget and device, for migrations and preemptions. `EngineInv` is
inductive (`EngineInvariant`) and has four parts.

* `Shape`: types, and that no sequence has more computed tokens than tokens.
* `Core`, which relates the allocators to the block tables. `Accounted`: a block has as many
  references as tables it is in, and lost ones. `Sound`: only blocks in use count as
  computed, a device has one block per content, a block in use without content is in one
  table. `Seated`: a table has no block twice; its full blocks have the content of their
  position, its partial one has none, and on the GPU what counts as computed is marked as
  computed.
* `Owners`: who may have blocks (`Owned`), that an active or just finished sequence has exactly
  the blocks its tokens need (`Fitting`), that what is swapped out lies on the CPU and all else on
  the GPU (`Leaving`), and that the owner of a retained entry has finished and is in no
  queue (`Retained`).
* `Queues`: the queues and output lists of a step under way do not overlap, and hold
  sequences of the status they should.

No action is proved to keep `Core` at one go. The invariant is first shown to survive five moves of one
block or one table, and every helper of the block manager is a sequence of them: a table
under construction grabs a block (`CoreGrab`), a table is dropped (`CoreDrop`), its
references are lost (`CoreOrphan`), a table is adopted by a sequence (`CoreAdopt`), a
block is marked as computed (`CoreMark`). A table under construction, or a temporary one of a
swap, belongs to no sequence yet; its references are counted as lost ones until it is
adopted or dropped. `AllocateFacts` carries this through the fold over the hashes; `SwapInCore`,
`SwapOutCore`, `AppendSlotsCore` and `FreeAllCore` put the moves together as the code does. While the
worker runs, the batch's blocks are marked although the sequences' counts follow only
in `Process`; `Computed` is the count that `Core` is about. From the invariant:
`EngineTypeOK`, `EngineRefsExact`, `EngineOwnersLive`, `EngineTablesAddressed`.

*EngineCacheProofs*, the assertion on computed tokens (`EngineNoOverrun`). It assumes two things of
every workload: `ContinuedJobs`, which the repeats of `scripts/generate.py` satisfy, and `NoRoundEntry`,
which nothing in the code ensures. So where no cache migrates in and requests go on with each
other's tokens, the boundary case of `engine_overrun` (`core/scheduler.py:1818`,
`sequence.py:383`) is the only one in which the assertion can fail.

Beside `EngineInv` an undisturbed engine keeps to `Tally`: a decoding sequence has
computed all tokens but its last, a waiting one none, a finished one has its final length;
a chunk of the batch ends within the sequence; a retained table has a slot for every
token but the last. The heart is `KnownCached`: what an exact entry saves a request is no more
than what the prefix cache reports, because the leading blocks of the entry's table are
computed and, `ContinuedJobs` says, have the content of the request's own blocks, and
`bisect` never reports less than the leading hits, whatever comes after them
(`BisectCovers`). The chunk was computed from what the prefix cache reports, so the two add up to the
prompt at most. `NoRoundEntry` is needed because an entry's last token counts in its length, but
its KV was never computed; when it ends a block, that block is not computed either.

*Only model-checked:*

* liveness (`EventuallyCompleted`, `EventuallySettled`, `AllServed`), which needs fairness
  and `ENABLED`;
* `ComputedBacked` and `ContextIntact`. They are about the tensors, and what a sequence finds there
  depends on the cached prefix it skipped having no hole. A retained entry that is freed late can
  leave one (`PrefixClosed` excludes late frees for that reason), and the bisection then counts
  the missing block as cached. So the two hold of the workloads of `engine`, not of every
  workload, and no theorem states them;
* that the evictor of EngineCache (`Oldest`) is the queue of PrefixCache. PrefixCacheProofs shows
  when the lazy heap is exact; the two modules are not related by a refinement.

## 5. Not modelled

* Token contents and forced decoding (a generation matches or not), hosts, the
  query latency accounting, `/health`.
* The predictor, `analyze_throughput` and the averages of `RequestAnalyzer`:
  floating-point formulas over measured tables, without control worth exploring. The
  profiler measures GPUs and writes files. The workload generator has no state;
  its payloads are inputs of the models.
* Of vLLM, all that this system's configuration does not reach (the v1 engine,
  multi-step and speculative decoding, beam search, LoRA, encoder-decoder models,
  pipeline parallelism, the OpenAI server, other devices) and all that has no bearing on the
  cache (models, kernels, sampling, tokenizers, logging, metrics). It is nearly all
  of the repository's lines, and vendored.
* In EngineCache: the asynchronous output processor (off in eager mode), hash collisions,
  sliding windows, recomputation instead of swap, and the `swapped` queue, which stays
  empty under chunked prefill (preempted requests go back to the waiting queue).
* A query with an empty `node_list` (never completes) and lost reports (a silent
  stall) are admitted by the safety runs but excluded from the progress properties.

## 6. Plan

All components with control of their own are modelled, and every safety property is proved that
holds of all instances. What could follow:

1. `ComputedBacked` for workloads without retained entries and swaps, where cached prefixes have
   no holes: `ClosedInv` of PrefixCacheProofs would have to be carried over to EngineCache.
2. Composition of EngineCache with AgentRouting, so that `/cache_state` is read off the
   block tables, if it can be kept small enough to check.
