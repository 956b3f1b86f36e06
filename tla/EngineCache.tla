---------------------------- MODULE EngineCache ----------------------------
(***************************************************************************)
(* One serving instance: the patched vLLM scheduler (core/scheduler.py),   *)
(* the block manager with CoreFlow's retained GPU entries and CPU swap     *)
(* (core/block_manager.py), the prefix-caching allocators of the two       *)
(* devices, the worker that moves and writes the KV tensors, and the       *)
(* /generate and /migrate_cache handlers of instance_api.py.               *)
(*                                                                         *)
(* The engine is one asyncio task.  `phase' is where its step stands; the  *)
(* only awaits, where an HTTP handler may run, are "idle" (between two     *)
(* steps) and "worker" (the model is executing).  The configuration is the *)
(* launcher's: prefix caching and chunked prefill on, preemption by swap,  *)
(* eager mode (outputs are processed synchronously), one sequence per      *)
(* group, no sliding window, no lookahead.                                 *)
(*                                                                         *)
(* Data: a token is told apart only by its stream and position, so a full  *)
(* block's content hash is <<stream, index>>.  Time stamps keep only their *)
(* order.                                                                  *)
(***************************************************************************)
EXTENDS PythonLists, SequencesExt, FiniteSetsExt

CONSTANTS
    Seqs,         \* the requests, and the migrations
    Setups,       \* instances and their workloads: [conf : Conf, jobs : [Seqs -> Job]]
    None,         \* "no request"
    BlockSize,
    TokenBudget   \* max_num_batched_tokens

Job == [kind : {"generate", "migrate"},
        key : Nat,                 \* (query_id, invocation_id), by query_id
        common : Nat,              \* leading blocks in the key's own stream
        prompt : Nat \ {0}, output : Nat,
        keep : BOOLEAN,            \* keep_cache_in_gpu
        free : BOOLEAN,            \* free_cache
        after : Seqs \cup {None}]  \* the request that must finish before

Conf == [gpu : Nat \ {0}, cpu : Nat,  \* num_gpu_blocks, num_cpu_blocks
         watermark : Nat,             \* watermark_blocks
         upper : Nat]                 \* upper end of the context range

ASSUME EngineAssumption ==
    /\ None \notin Seqs /\ IsFiniteSet(Seqs)
    /\ BlockSize \in Nat \ {0} /\ TokenBudget \in Nat \ {0}
    /\ \A u \in Setups : u.conf \in Conf /\ u.jobs \in [Seqs -> Job]

VARIABLES conf, info  \* the configuration and the workload of this behaviour

Gpu == 1..conf.gpu
Cpu == (conf.gpu + 1)..(conf.gpu + conf.cpu)
Blocks == Gpu \cup Cpu
Keys == {info[s].key : s \in Seqs}
NoHash == <<>>
NoMemo == -1
NoStamp == -1

VARIABLES
    phase,    \* where the engine's step stands, or how the engine died
    mem,      \* the allocators: ref, hash, comp(uted while active), last access
    kv,       \* the tensors: for every slot of a block, the hash it was computed for
    seq,      \* Sequence, its block table and its tracker entries
    waiting, running,
    out,      \* SchedulerOutputs of the step being built or executed
    pending,  \* _pending_finished_swap_out, _finished_seqs_pending_swap_out
    entries,  \* _gpu_cached_entries: key -> the finished sequence that owns it
    lost      \* history: references to a block that no table holds any more

vars == <<conf, info, phase, mem, kv, seq, waiting, running, out, pending, entries, lost>>

CeilDiv(a, b) == -((-a) \div b)
Floor(n) == (n \div BlockSize) * BlockSize
Least(a, b) == IF a < b THEN a ELSE b
Most(a, b) == IF a > b THEN a ELSE b
-----------------------------------------------------------------------------
(***************************************************************************)
(* The prefix-caching allocators.                                          *)
(***************************************************************************)
Hash(s, i) == <<IF i <= info[s].common THEN info[s].key ELSE s, i>>

\* The blocks n tokens of s need: full blocks are hashed, the tail is not.
Hashes(s, n) ==
    [i \in 1..CeilDiv(n, BlockSize) |->
        IF i * BlockSize <= n THEN Hash(s, i) ELSE NoHash]

FreeIn(m, dev) == {b \in dev : m.ref[b] = 0}
Holders(m, dev, h) == {b \in dev : m.hash[b] = h}

\* A block that is free but hashed sits in the evictor and counts as computed.
IsComputed(m, b) ==
    IF m.ref[b] > 0 THEN b \in m.comp ELSE m.hash[b] # NoHash

\* LRUEvictor.evict: oldest access, then deepest block, then smallest id.
Oldest(m, S) ==
    LET stale == {b \in S : \A c \in S : m.last[b] <= m.last[c]}
    IN  Min({b \in stale : \A c \in stale : m.hash[b][2] >= m.hash[c][2]})

\* A block for content h joins the table that a = [m, dev, table, ok] builds.
Take(a, b, h) ==
    [a EXCEPT !.m.ref[b] = 1, !.m.hash[b] = h, !.m.last[b] = NoStamp,
              !.table = Append(@, b)]

\* _allocate_block_id: a free block without content, or else the evictor's.
NewBlock(a, h) ==
    LET free == FreeIn(a.m, a.dev)
        plain == Holders(a.m, free, NoHash)
    IN  IF free = {} THEN [a EXCEPT !.ok = FALSE]
        ELSE Take(a, IF plain # {} THEN Min(plain) ELSE Oldest(a.m, free), h)

\* _incr_refcount_cached_block: a block coming back from the evictor is
\* tracked afresh, and as computed.
Reuse(a, b) ==
    LET back == a.m.ref[b] = 0
    IN  [a EXCEPT !.m.ref[b] = @ + 1,
                  !.m.comp = IF back THEN @ \cup {b} ELSE @,
                  !.m.last[b] = IF back THEN NoStamp ELSE @,
                  !.table = Append(@, b)]

AllocateBlock(a, h) ==
    CASE ~a.ok -> a
      [] a.ok /\ h # NoHash /\ Holders(a.m, a.dev, h) # {} ->
            Reuse(a, CHOOSE b \in Holders(a.m, a.dev, h) : TRUE)
      [] OTHER -> NewBlock(a, h)

Building(m, dev, table) == [m |-> m, dev |-> dev, table |-> table, ok |-> TRUE]

Allocate(m, dev, hs) == FoldLeft(AllocateBlock, Building(m, dev, <<>>), hs)

\* Mutant: the tracker is not reset when a block leaves it.
ReleaseKeepsComputed(m, S) ==
    [m EXCEPT !.ref = [b \in Blocks |-> IF b \in S THEN @[b] - 1 ELSE @[b]]]

Release(m, S) ==
    [m EXCEPT !.ref = [b \in Blocks |-> IF b \in S THEN @[b] - 1 ELSE @[b]],
              !.comp = @ \ {b \in S : m.ref[b] = 1},
              !.last = [b \in Blocks |->
                  IF b \in S /\ m.ref[b] = 1 /\ m.hash[b] = NoHash
                  THEN NoStamp ELSE @[b]]]

Touch(m, S, t) ==
    [m EXCEPT !.last = [b \in Blocks |-> IF b \in S THEN t ELSE @[b]]]

Stamps == {mem.last[b] : b \in Blocks} \cup {seq[s].last : s \in Seqs}
Now == 1 + Max(Stamps)

\* BlockSpaceManager.free: the sequence's last access is handed to its blocks.
FreeTable(m, table, stamp) ==
    LET S == ToSet(table)
    IN  Release(IF stamp = NoStamp THEN m ELSE Touch(m, S, stamp), S)

FreeSeq(m, s) == FreeTable(m, seq[s].table, seq[s].last)

\* find_cached_blocks_prefix: bisect_left over the sequence's block hashes.
CachedTokens(m, dev, s, n) ==
    LET full == n \div BlockSize
        hits == {i \in 1..full :
                    \E b \in Holders(m, dev, Hash(s, i)) : IsComputed(m, b)}
    IN  BlockSize * BisectLeft(hits, full)
-----------------------------------------------------------------------------
(***************************************************************************)
(* The block manager.                                                      *)
(***************************************************************************)
\* count_new_blocks_for_token_ids: only active blocks come for free.
Required(s) ==
    LET hs == Hashes(s, seq[s].len)
    IN  Cardinality({i \in DOMAIN hs :
            hs[i] = NoHash \/ \A b \in Holders(mem, Gpu, hs[i]) : mem.ref[b] = 0})

\* Mutant: a prompt larger than the device is told to wait.
AllocStatusNoNever(s) ==
    IF Cardinality(FreeIn(mem, Gpu)) - Required(s) >= conf.watermark
    THEN "ok" ELSE "later"

AllocStatus(s) ==
    CASE conf.gpu - Required(s) < conf.watermark -> "never"
      [] Cardinality(FreeIn(mem, Gpu)) - Required(s) >= conf.watermark -> "ok"
      [] OTHER -> "later"

\* Mutant: the temporary block tables are not freed.
SwappedInUnfreed(front, moved, dst) ==
    [m |-> [dst.m EXCEPT !.comp = @ \cup ToSet(dst.table)],
     map |-> Zip(moved, dst.table), ok |-> TRUE, held |-> {}]

\* The copied blocks become computed on the GPU, and both temporary tables go.
SwappedIn(front, moved, dst) ==
    [m |-> Release([dst.m EXCEPT !.comp = @ \cup ToSet(dst.table)],
                   ToSet(front) \cup ToSet(dst.table)),
     map |-> Zip(moved, dst.table), ok |-> TRUE, held |-> {}]

\* What follows the first n blocks of the CPU table tmp moves to the GPU.
SwapIn(tmp, n) ==
    LET moved == SubSeq(tmp.table, 1 + n, Len(tmp.table))
    IN  IF ~tmp.ok
        THEN [m |-> tmp.m, map |-> <<>>, ok |-> FALSE, held |-> ToSet(tmp.table)]
        ELSE SwappedIn(SubSeq(tmp.table, 1, n), moved,
                       Allocate(Release(tmp.m, ToSet(moved)), Gpu,
                                [i \in DOMAIN moved |-> tmp.m.hash[moved[i]]]))

\* _swap_in_cpu_prefix_if_needed: a temporary CPU table over the cached
\* prefix, of which the GPU gets the blocks it lacks.
SwapInPrefix(m, s, gpu, cpu) ==
    IF cpu <= gpu THEN [m |-> m, map |-> <<>>, ok |-> TRUE, held |-> {}]
    ELSE SwapIn(Allocate(m, Cpu, Hashes(s, cpu)), gpu \div BlockSize)

\* The CPU prefix joins a, the new table of s; m0 is what the cached lengths
\* are read from.
WithPrefix(s, a, m0) ==
    LET gpu == CachedTokens(m0, Gpu, s, seq[s].len)
        cpu == CachedTokens(m0, Cpu, s, seq[s].len)
        in == SwapInPrefix(a.m, s, gpu, cpu)
    IN  [m |-> in.m, map |-> in.map, table |-> a.table, held |-> in.held,
         ok |-> a.ok /\ in.ok, cached |-> Most(gpu, cpu)]

\* allocate: the block table of the whole sequence, then the CPU prefix.  The
\* scheduler has read (and memoised) the cached lengths before the call; a
\* migration reads them only now.
AllocateSeq(s, memoised) ==
    LET a == Allocate(mem, Gpu, Hashes(s, seq[s].len))
    IN  WithPrefix(s, a, IF memoised THEN mem ELSE a.m)

\* _collect_blocks_for_swap and _swap_out_group.
Swappable(s) ==
    Kept(seq[s].table, {b \in mem.comp : mem.hash[b] # NoHash})

CpuBlocksNeeded(s) ==
    Cardinality({b \in ToSet(Swappable(s)) :
        \A c \in Holders(mem, Cpu, mem.hash[b]) : mem.ref[c] = 0})

CanSwapOut(s) == CpuBlocksNeeded(s) <= Cardinality(FreeIn(mem, Cpu))

\* The table keeps the swapped blocks only: the others lose their owner.
SwapOutSeq(s) ==
    LET src == Swappable(s)
        all == ToSet(seq[s].table)
        dst == Allocate(Release(Touch(mem, all, Now), ToSet(src)), Cpu,
                        [i \in DOMAIN src |-> mem.hash[src[i]]])
    IN  [m |-> dst.m, table |-> dst.table, map |-> Zip(src, dst.table),
         orphans |-> all \ ToSet(src)]

AddLost(S) == [b \in Blocks |-> IF b \in S THEN lost[b] + 1 ELSE lost[b]]

\* evict_cached_blocks, consume_gpu_cached_entry: m without key's entry.
DropEntry(m, k) ==
    IF entries[k] = None THEN m ELSE FreeSeq(m, entries[k])

Unowned(q) == [q EXCEPT !.table = <<>>, !.slots = 0, !.last = NoStamp,
                        !.memo = NoMemo, !.skip = 0]

\* Mutant: the blocks are freed but the table stays registered.
DropOwnerKeepsTable(sq, k) == sq

\* The sequences after key's entry is dropped.
DropOwner(sq, k) ==
    IF entries[k] = None THEN sq ELSE [sq EXCEPT ![entries[k]] = Unowned(@)]
-----------------------------------------------------------------------------
(***************************************************************************)
(* The environment: requests and migrations.                               *)
(***************************************************************************)
Live == {"waiting", "prefill", "decode"}
NoOut == [chunk |-> [s \in Seqs |-> 0], decodes |-> <<>>, prefills |-> <<>>,
          fresh |-> <<>>, preempted |-> <<>>, used |-> 0,
          swapIn |-> <<>>, swapOut |-> <<>>]

Init ==
    /\ \E u \in Setups : conf = u.conf /\ info = u.jobs
    /\ phase = "idle"
    /\ mem = [ref |-> [b \in Blocks |-> 0], hash |-> [b \in Blocks |-> NoHash],
              comp |-> {}, last |-> [b \in Blocks |-> NoStamp]]
    /\ kv = [b \in Blocks |-> [j \in 1..BlockSize |-> NoHash]]
    /\ seq = [s \in Seqs |->
                [status |-> "new", len |-> info[s].prompt, computed |-> 0,
                 memo |-> NoMemo, skip |-> 0, slots |-> 0, table |-> <<>>,
                 last |-> NoStamp]]
    /\ waiting = <<>> /\ running = <<>> /\ out = NoOut
    /\ pending = [copies |-> <<>>, seqs |-> <<>>]
    /\ entries = [k \in Keys |-> None]
    /\ lost = [b \in Blocks |-> 0]

Sendable(s, kind) ==
    /\ info[s].kind = kind /\ seq[s].status = "new"
    /\ info[s].after # None => seq[info[s].after].status = "finished"

\* New requests join the scheduler between two steps.
Arrive(s) ==
    /\ phase = "idle" /\ Sendable(s, "generate")
    /\ seq' = [seq EXCEPT ![s].status = "waiting"]
    /\ waiting' = Append(waiting, s)
    /\ UNCHANGED <<phase, mem, kv, running, out, pending, entries, lost>>

\* migrate_cache, first branch: _register_migrated_gpu_cache.  The swap-in
\* mapping that allocate returns is dropped.
MigrateToGpu(s) ==
    LET k == info[s].key
    IN  \E a \in {AllocateSeq(s, FALSE)} :
        /\ info[s].keep /\ AllocStatus(s) = "ok"
        /\ IF a.ok
           THEN /\ mem' = DropEntry(a.m, k)
                /\ seq' = DropOwner([seq EXCEPT ![s] = [@ EXCEPT
                        !.status = "finished", !.table = a.table,
                        !.slots = seq[s].len, !.memo = a.cached]], k)
                /\ entries' = [entries EXCEPT ![k] = s]
                /\ UNCHANGED lost
           ELSE /\ mem' = a.m
                /\ lost' = AddLost(a.held \cup ToSet(a.table))
                /\ seq' = [seq EXCEPT ![s].status = "finished"]
                /\ UNCHANGED entries

\* Second branch: register_migrated_cpu_cache.  When the CPU runs out of
\* blocks half way the exception leaves the acquired ones referenced.
MigrateToCpu(s) ==
    LET a == Allocate(mem, Cpu, Hashes(s, Floor(seq[s].len)))
        S == ToSet(a.table)
    IN  /\ ~(info[s].keep /\ AllocStatus(s) = "ok")
        /\ mem' = IF a.ok
                  THEN Release(Touch([a.m EXCEPT !.comp = @ \cup S], S, Now), S)
                  ELSE a.m
        /\ lost' = IF a.ok THEN lost ELSE AddLost(S)
        /\ seq' = [seq EXCEPT ![s].status = "finished"]
        /\ UNCHANGED entries

\* The handler runs on the engine's event loop, at one of its awaits.
Migrate(s) ==
    /\ phase \in {"idle", "worker"} /\ Sendable(s, "migrate")
    /\ MigrateToGpu(s) \/ MigrateToCpu(s)
    /\ UNCHANGED <<phase, kv, waiting, running, out, pending>>
-----------------------------------------------------------------------------
(***************************************************************************)
(* Scheduler.schedule.                                                     *)
(***************************************************************************)
ByQuery(q) == SortedBy(q, [i \in DOMAIN q |-> info[q[i]].key])

\* _chunk_new_tokens_to_schedule.
Chunk(n) == Least(n, Floor(TokenBudget - out.used))

\* _get_num_new_uncached_and_cached_tokens: [new, cached], given the cached
\* prefix length c (no request brings cached_tokens of its own).
NewTokens(s, c) ==
    LET rest == seq[s].len - seq[s].computed
        hit == Least(Most(0, c - seq[s].computed), rest)
    IN  IF seq[s].status = "decode" THEN [new |-> Chunk(1), cached |-> 0]
        ELSE IF rest = hit /\ hit > 0 THEN [new |-> Chunk(1), cached |-> hit - 1]
        ELSE [new |-> Chunk(rest - hit), cached |-> hit]

\* get_num_blocks_touched_by_append_slots.
Touched(s) ==
    LET first == BlockSize - (seq[s].slots % BlockSize)
    IN  1 - ((first - (seq[s].len - seq[s].slots)) \div BlockSize)

CanAppend(s) == Touched(s) <= Cardinality(FreeIn(mem, Gpu))

\* Mutant: a filled block is registered without looking for its twin.
AppendSlotsNoTwin(s) ==
    LET q == seq[s]
        a0 == Building(mem, Gpu, q.table)
        a1 == IF q.len > Len(q.table) * BlockSize
              THEN NewBlock(a0, NoHash) ELSE a0
    IN  IF q.len = q.slots \/ q.len % BlockSize # 0 THEN a1
        ELSE [a1 EXCEPT !.m.hash[Last(a1.table)] = Hash(s, Len(a1.table))]

\* append_slots: at most one token is unseen; a block it fills is promoted,
\* or replaced by the block already cached for that content.
AppendSlots(s) ==
    LET q == seq[s]
        a0 == Building(mem, Gpu, q.table)
        a1 == IF q.len > Len(q.table) * BlockSize
              THEN NewBlock(a0, NoHash) ELSE a0
        tail == Last(a1.table)
        h == Hash(s, Len(a1.table))
        same == Holders(a1.m, Gpu, h)
    IN  IF q.len = q.slots \/ q.len % BlockSize # 0 THEN a1
        ELSE IF same = {} THEN [a1 EXCEPT !.m.hash[tail] = h]
        ELSE Reuse([a1 EXCEPT !.m = Release(@, {tail}), !.table = Front(@)],
                   CHOOSE b \in same : TRUE)

StartStep ==
    /\ phase = "idle" /\ waiting \o running # <<>>
    /\ phase' = "running" /\ out' = NoOut
    /\ waiting' = ByQuery(waiting) /\ running' = ByQuery(running)
    /\ UNCHANGED <<mem, kv, seq, pending, entries, lost>>

\* _schedule_running: the head of the queue has budget and a slot.
RunHead ==
    LET s == Head(running)
        n == NewTokens(s, seq[s].memo).new
        a == AppendSlots(s)
    IN  /\ phase = "running" /\ running # <<>> /\ n > 0 /\ CanAppend(s)
        /\ mem' = a.m
        /\ seq' = [seq EXCEPT ![s].table = a.table,
                           ![s].slots = seq[s].len]
        /\ running' = Tail(running)
        /\ out' = [out EXCEPT !.chunk[s] = n, !.used = @ + n,
                              ![IF seq[s].status = "decode"
                                THEN "decodes" ELSE "prefills"] = Append(@, s)]
        /\ UNCHANGED <<phase, kv, waiting, pending, entries, lost>>

\* No slot for the head: the last of the queue, or the head itself when it is
\* alone, is preempted by swap (_preempt_by_swap) and its CPU table freed.
PreemptLast ==
    LET s == Head(running)
        v == Last(running)
        w == IF Swappable(v) = <<>>
             THEN [m |-> mem, table |-> seq[v].table, map |-> <<>>, orphans |-> {}]
             ELSE SwapOutSeq(v)
    IN  /\ phase = "running" /\ running # <<>>
        /\ NewTokens(s, seq[s].memo).new > 0 /\ ~CanAppend(s)
        /\ IF ~CanSwapOut(v)
           THEN phase' = "noswap" /\ UNCHANGED <<mem, seq, running, out, lost>>
           ELSE /\ mem' = FreeTable(w.m, w.table, seq[v].last)
                /\ lost' = AddLost(w.orphans)
                /\ seq' = [seq EXCEPT ![v] = [Unowned(@) EXCEPT
                                !.status = "waiting", !.computed = 0]]
                /\ running' = Front(running)
                /\ out' = [out EXCEPT !.swapOut = @ \o w.map,
                                      !.preempted = Append(@, v)]
                /\ UNCHANGED phase
        /\ UNCHANGED <<kv, waiting, pending, entries>>

\* Mutant: finished requests' pending copies do not hold prefills back.
HasSwapOutOfRunning == out.swapOut # <<>>

\* No new prefill in a step that swaps out (has_swap_out).
HasSwapOut == out.swapOut \o pending.copies # <<>>

StopRunning ==
    /\ phase = "running"
    /\ running # <<>> => NewTokens(Head(running), seq[Head(running)].memo).new = 0
    /\ phase' = IF HasSwapOut \/ out.used = TokenBudget
                THEN "scheduled" ELSE "prefill"
    /\ UNCHANGED <<mem, kv, seq, waiting, running, out, pending, entries, lost>>

(***************************************************************************)
(* _schedule_prefills: the head of the waiting queue.                      *)
(***************************************************************************)
CachedPrefix(s) == Most(CachedTokens(mem, Gpu, s, seq[s].len),
                        CachedTokens(mem, Cpu, s, seq[s].len))

\* Mutant: the last prompt token may count as cached too.
ExactTokensWhole(s) ==
    Floor(Least(seq[entries[info[s].key]].len, info[s].prompt))

\* _resolve_cached_prefix_len for a key with a retained entry.  The branch for a
\* request that brings cached_tokens is left out: the controller sends none.
ExactTokens(s) ==
    Floor(Least(seq[entries[info[s].key]].len, info[s].prompt - 1))

\* The request fits: allocate, count an exact entry's tokens as computed
\* (register_synthetic_cached_tokens), then consume the entry.
AdmitHead ==
    LET s == Head(waiting)
        k == info[s].key
        exact == entries[k] # None
        known == IF exact THEN ExactTokens(s) ELSE 0
        marked(a) == [a.m EXCEPT !.comp =
                        @ \cup {a.table[i] : i \in 1..(known \div BlockSize)}]
    IN  /\ phase = "prefill" /\ waiting # <<>> /\ AllocStatus(s) = "ok"
        /\ \E n \in {NewTokens(s, CachedPrefix(s))}, a \in {AllocateSeq(s, TRUE)} :
           /\ n.new > 0
           /\ IF ~a.ok
              THEN phase' = "nofree" /\ UNCHANGED <<mem, seq, waiting, out, entries>>
              ELSE /\ mem' = DropEntry(marked(a), k)
                   /\ seq' = DropOwner([seq EXCEPT ![s] = [@ EXCEPT
                           !.status = "prefill", !.table = a.table,
                           !.slots = seq[s].len, !.memo = a.cached,
                           !.computed = known,
                           !.skip = IF known > 0 THEN known ELSE a.cached]], k)
                   /\ entries' = [entries EXCEPT ![k] = None]
                   /\ waiting' = Tail(waiting)
                   /\ out' = [out EXCEPT
                           !.chunk[s] = IF exact THEN n.new ELSE n.new + n.cached,
                           !.used = @ + n.new, !.fresh = Append(@, s),
                           !.swapIn = @ \o a.map]
                   /\ UNCHANGED phase
        /\ UNCHANGED <<kv, running, pending, lost>>

IgnoreHead ==
    /\ phase = "prefill" /\ waiting # <<>> /\ AllocStatus(Head(waiting)) = "never"
    /\ seq' = [seq EXCEPT ![Head(waiting)].status = "ignored"]
    /\ waiting' = Tail(waiting)
    /\ UNCHANGED <<phase, mem, kv, running, out, pending, entries, lost>>

\* A head that must wait keeps everybody behind it waiting.
StopPrefill ==
    /\ phase = "prefill"
    /\ waiting # <<>> =>
          LET s == Head(waiting)
          IN  \/ AllocStatus(s) = "later"
              \/ AllocStatus(s) = "ok" /\ NewTokens(s, CachedPrefix(s)).new = 0
    /\ phase' = "scheduled"
    /\ UNCHANGED <<mem, kv, seq, waiting, running, out, pending, entries, lost>>

Batch == ToSet(out.decodes \o out.prefills \o out.fresh)
ComputedAfter(s) == Least(seq[s].len, seq[s].computed + out.chunk[s])

\* mark_blocks_as_computed.
NewlyComputed(s) ==
    {seq[s].table[i] : i \in 1..(ComputedAfter(s) \div BlockSize)}

\* Time stamps keep their order only.
Rank(t) == Cardinality({u \in Stamps \cup {Now} : 0 <= u /\ u < t})
Ranked(t) == IF t = NoStamp THEN NoStamp ELSE Rank(t)

\* The end of schedule: the queues are put together, finished requests' copies
\* join the output, and the batch's blocks count as computed.
EndSchedule ==
    LET ending == {s \in Seqs : seq[s].len - seq[s].computed = out.chunk[s]}
        closing == Kept(out.prefills, ending)
        going == Kept(out.prefills, Seqs \ ending)
        copies == out.swapOut \o pending.copies
    IN  /\ phase = "scheduled"
        /\ running' = running \o out.decodes \o closing \o going \o out.fresh
        /\ waiting' = Reverse(out.preempted) \o waiting
        /\ out' = [out EXCEPT !.swapOut = copies]
        /\ pending' = [pending EXCEPT !.copies = <<>>]
        /\ mem' = [mem EXCEPT
                !.comp = @ \cup UNION {NewlyComputed(s) : s \in Batch},
                !.last = [b \in Blocks |-> Ranked(@[b])]]
        /\ seq' = [s \in Seqs |-> [seq[s] EXCEPT
                !.last = Ranked(IF s \in Batch THEN Now ELSE @)]]
        /\ phase' = IF Batch = {} /\ copies = <<>> THEN "idle" ELSE "worker"
        /\ UNCHANGED <<kv, entries, lost>>
-----------------------------------------------------------------------------
(***************************************************************************)
(* The worker, then the engine's output processing.                        *)
(***************************************************************************)
CopyBlock(t, p) == [t EXCEPT ![p[2]] = t[p[1]]]
Copy(t, map) == FoldLeft(CopyBlock, t, map)

\* Slot p (from 0) of sequence s holds the KV computed for s at p.
Holds(t, s, p) ==
    LET i == 1 + (p \div BlockSize)
    IN  t[seq[s].table[i]][1 + (p % BlockSize)] = Hash(s, i)

\* Mutant: one token too many is skipped after a partial hit.
FirstRunSkipsOne(s) ==
    IF seq[s].skip >= ComputedAfter(s)
    THEN Most(seq[s].computed, ComputedAfter(s) - 1)
    ELSE Most(seq[s].computed, IF seq[s].skip > 0 THEN seq[s].skip + 1 ELSE 0)

\* The first token the model runs for s: the cached prefix is skipped, but
\* never the last token of the chunk (_compute_for_prefix_cache_hit).
FirstRun(s) ==
    IF seq[s].skip >= ComputedAfter(s)
    THEN Most(seq[s].computed, ComputedAfter(s) - 1)
    ELSE Most(seq[s].computed, seq[s].skip)

\* execute_worker and the model: swap in, swap out, then every sequence of the
\* batch writes its tokens.  What is computed from a context that lacks some
\* KV is garbage (NoHash).
Worker ==
    LET t == Copy(Copy(kv, out.swapIn), out.swapOut)
        sound(s) == \A p \in 0..(FirstRun(s) - 1) : Holds(t, s, p)
        writers(b, j) == {x \in Batch \X (1..conf.gpu) :
            /\ x[2] <= Len(seq[x[1]].table) /\ seq[x[1]].table[x[2]] = b
            /\ (x[2] - 1) * BlockSize + j - 1 \in
                  FirstRun(x[1])..(ComputedAfter(x[1]) - 1)}
    IN  /\ phase = "worker"
        /\ kv' = [b \in Blocks |-> [j \in 1..BlockSize |->
                LET w == writers(b, j)
                IN  IF w = {} THEN t[b][j]
                    ELSE IF \E x \in w : ~sound(x[1]) THEN NoHash
                    ELSE LET x == CHOOSE x \in w : TRUE IN Hash(x[1], x[2])]]
        /\ phase' = "process"
        /\ UNCHANGED <<mem, seq, waiting, running, out, pending, entries, lost>>

\* _process_model_outputs for one sequence: it samples once all its tokens are
\* computed, and finishes after its last output token.
Advance(s) ==
    LET q == seq[s]
        c == q.computed + out.chunk[s]
        done == q.len + 1 >= info[s].prompt + Most(info[s].output, 1)
    IN  IF s \notin Batch THEN q
        ELSE IF c < q.len THEN [q EXCEPT !.computed = c]
        ELSE [q EXCEPT !.computed = c, !.len = @ + 1,
                       !.status = IF done THEN "finished" ELSE "decode"]

Overrun == \E s \in Batch : seq[s].computed + out.chunk[s] > seq[s].len

\* When somebody finished, the tables whose copies the worker has made go
\* first (free_finished_seq_groups).
Process ==
    LET next == [s \in Seqs |-> Advance(s)]
        some == \E s \in Batch : next[s].status = "finished"
        gone == IF some THEN pending.seqs ELSE <<>>
    IN  /\ phase = "process"
        /\ IF Overrun
           THEN phase' = "overrun" /\ UNCHANGED <<mem, seq, pending>>
           ELSE /\ mem' = FoldLeft(FreeSeq, mem, gone)
                /\ seq' = [s \in Seqs |->
                        IF s \in ToSet(gone) THEN Unowned(next[s]) ELSE next[s]]
                /\ pending' = [pending EXCEPT !.seqs = IF some THEN <<>> ELSE @]
                /\ phase' = IF some THEN "finish" ELSE "idle"
        /\ out' = NoOut
        /\ UNCHANGED <<kv, waiting, running, entries, lost>>

Finished == Kept(running, {s \in Seqs : seq[s].status = "finished"})
ExceedsRange(s) == seq[s].len >= conf.upper
Keeps(s) == info[s].keep /\ ~info[s].free /\ ~ExceedsRange(s)
Swaps(s) ==
    /\ ~info[s].keep /\ ~info[s].free
    /\ Swappable(s) # <<>> /\ CanSwapOut(s)

\* _free_finished_seq_group_blocks: retain, swap out, or free.
FinishOne ==
    LET s == Head(Finished)
        k == info[s].key
        w == SwapOutSeq(s)
    IN  /\ phase = "finish"
        /\ CASE Keeps(s) ->
                 /\ mem' = DropEntry(mem, k) /\ seq' = DropOwner(seq, k)
                 /\ entries' = [entries EXCEPT ![k] = s]
                 /\ UNCHANGED <<pending, lost>>
             [] Swaps(s) ->
                 /\ mem' = w.m /\ lost' = AddLost(w.orphans)
                 /\ seq' = [seq EXCEPT ![s].table = w.table]
                 /\ pending' = [copies |-> pending.copies \o w.map,
                                seqs |-> Append(pending.seqs, s)]
                 /\ UNCHANGED entries
             [] OTHER ->
                 /\ mem' = FreeSeq(DropEntry(mem, k), s)
                 /\ seq' = [DropOwner(seq, k) EXCEPT ![s] = Unowned(@)]
                 /\ entries' = [entries EXCEPT ![k] = None]
                 /\ UNCHANGED <<pending, lost>>
        /\ running' = Kept(running, Seqs \ {s})
        /\ phase' = IF Len(Finished) = 1 THEN "idle" ELSE "finish"
        /\ UNCHANGED <<kv, waiting, out>>
-----------------------------------------------------------------------------
Engine ==
    /\ \/ StartStep \/ RunHead \/ PreemptLast \/ StopRunning
       \/ AdmitHead \/ IgnoreHead \/ StopPrefill \/ EndSchedule
       \/ Worker \/ Process \/ FinishOne
    /\ UNCHANGED <<conf, info>>

Client(s) == (Arrive(s) \/ Migrate(s)) /\ UNCHANGED <<conf, info>>

Next == Engine \/ \E s \in Seqs : Client(s)

Spec == Init /\ [][Next]_vars

\* The engine's loop never rests while a sequence is unfinished, and the
\* controller sends every request it has.  EngineReady is ENABLED Engine,
\* written out.
EngineReady ==
    /\ phase \notin {"overrun", "noswap", "nofree"}
    /\ phase = "idle" => waiting \o running # <<>>

FairSpec ==
    /\ Spec
    /\ []<>(~EngineReady) \/ []<><<Engine>>_vars
    /\ \A s \in Seqs : WF_vars(Arrive(s) /\ UNCHANGED <<conf, info>>)
-----------------------------------------------------------------------------
(***************************************************************************)
(* Properties.                                                             *)
(***************************************************************************)
HashSet == ((Keys \cup Seqs) \X (Nat \ {0})) \cup {NoHash}
Statuses == Live \cup {"new", "finished", "ignored"}

\* Every variable has the shape the engine's fields have.
TypeOK ==
    /\ phase \in {"idle", "running", "prefill", "scheduled", "worker", "process",
                  "finish", "overrun", "noswap", "nofree"}
    /\ mem.ref \in [Blocks -> Nat]
    /\ mem.hash \in [Blocks -> HashSet]
    /\ mem.comp \subseteq {b \in Blocks : mem.ref[b] > 0}
    /\ kv \in [Blocks -> [1..BlockSize -> HashSet]]
    /\ \A s \in Seqs :
          /\ seq[s].status \in Statuses
          /\ {seq[s].len, seq[s].computed, seq[s].skip, seq[s].slots} \subseteq Nat
          /\ seq[s].computed <= seq[s].len
          /\ seq[s].table \in Seq(Blocks)
    /\ ToSet(waiting) \cup ToSet(running) \subseteq Seqs
    /\ entries \in [Keys -> Seqs \cup {None}]
    /\ lost \in [Blocks -> Nat]

\* Reference counts are exact: a block is referenced once by each table it is
\* in, and by nothing else but the references that lost their table.
RefsExact ==
    \A b \in Blocks : mem.ref[b] =
        Cardinality({s \in Seqs : b \in ToSet(seq[s].table)}) + lost[b]

\* Only three kinds of sequence own blocks: running ones, owners of a retained
\* entry, finished ones whose copy to the CPU is under way.  A retained entry's
\* owner has finished and still holds its blocks, on the GPU.
OwnersLive ==
    /\ \A s \in Seqs : seq[s].table # <<>> =>
          \/ seq[s].status \in {"prefill", "decode"}
          \/ entries[info[s].key] = s
          \/ s \in ToSet(pending.seqs)
          \/ phase = "finish" /\ s \in ToSet(Finished)
    /\ \A k \in Keys : entries[k] # None =>
          /\ info[entries[k]].key = k
          /\ seq[entries[k]].status = "finished"
          /\ seq[entries[k]].table # <<>>
          /\ ToSet(seq[entries[k]].table) \subseteq Gpu

\* Content addressing: a device caches a hash in at most one block, and every
\* full block of a table is the block cached for that content.
TablesAddressed ==
    /\ \A dev \in {Gpu, Cpu} : \A b, c \in dev :
          mem.hash[b] # NoHash /\ mem.hash[b] = mem.hash[c] => b = c
    /\ \A s \in Seqs : \A i \in DOMAIN seq[s].table :
          i * BlockSize <= seq[s].slots => mem.hash[seq[s].table[i]] = Hash(s, i)

\* No cache migrates in: a migration registers hashes whose tensors stay behind.
Undisturbed == \A s \in Seqs : info[s].kind = "generate"

\* Between two steps, a block the prefix cache would offer as computed holds
\* the KV of every token of its content, on either device.
ComputedBacked ==
    phase = "idle" /\ Undisturbed => \A b \in Blocks :
        /\ mem.hash[b] # NoHash /\ IsComputed(mem, b)
        /\ \A p \in ToSet(pending.copies) : b # p[2]
        => \A j \in 1..BlockSize : kv[b][j] = mem.hash[b]

\* Between two steps, a running sequence finds in its own blocks the KV of every
\* token that counts as computed.
ContextIntact ==
    phase = "idle" /\ Undisturbed => \A s \in ToSet(running) :
        \A p \in 0..(seq[s].computed - 1) : Holds(kv, s, p)

\* s may find what r retained, with as many tokens as r has in the end.
Follows(jobs, s, r) ==
    s # r /\ jobs[s].key = jobs[r].key /\ jobs[r].keep /\ ~jobs[r].free
FinalLen(job) == job.prompt + Most(job.output, 1)

\* Requests of a key go on with each other's tokens, as far as a retained entry
\* counts for them.
ContinuedJobs(jobs) ==
    \A s, r \in Seqs : Follows(jobs, s, r) =>
        LET known == Floor(Least(FinalLen(jobs[r]), jobs[s].prompt - 1))
        IN  /\ known <= BlockSize * jobs[r].common
            /\ known <= BlockSize * jobs[s].common

\* No retained entry that ends with a full block is followed by a longer prompt.
\* Nothing in the code ensures it: the KV of the entry's last token was never
\* computed, and such a prompt overruns (run engine_overrun).
NoRoundEntry(jobs) ==
    \A s, r \in Seqs : Follows(jobs, s, r) =>
        (Floor(FinalLen(jobs[r])) = FinalLen(jobs[r])
            => jobs[s].prompt <= FinalLen(jobs[r]))

\* Where no cache migrates in, SequenceData.update_num_computed_tokens never fails
\* its assertion: of workloads that satisfy both conditions above.
NoOverrun == Undisturbed => phase # "overrun"

\* Every request that was accepted is answered, unless a swap-out has lost
\* blocks for good or the CPU has no room for a preempted one ("Aborted due to
\* the lack of CPU swap space").
AllServed ==
    \A s \in Seqs : Undisturbed /\ seq[s].status = "waiting"
        ~> \/ seq[s].status \in {"finished", "ignored"}
           \/ phase = "noswap" \/ \E b \in Gpu : lost[b] > 0
=============================================================================
