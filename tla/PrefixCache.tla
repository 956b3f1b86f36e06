---------------------------- MODULE PrefixCache ----------------------------
(***************************************************************************)
(* One device's PrefixCachingBlockAllocator with its LRUEvictor, whose     *)
(* priority queue is lazy: entries of blocks that were reused stay in it   *)
(* and are filtered when they are popped.  EngineCache takes the evictor   *)
(* for "the oldest, then deepest, free block" (Oldest); LazyHeapExact says *)
(* when that is right.                                                     *)
(*                                                                         *)
(* The clients are the block manager's.  On the GPU a request that         *)
(* finishes frees its table with the stamp of the current step, and a      *)
(* retained entry is freed later with the stamp of the step it finished    *)
(* in.  On the CPU a finished request's swapped-out table is freed in a    *)
(* later step, with the stamp of its own, and a swap-in takes a temporary  *)
(* table that it never stamps.  A block is its content's chain and index;  *)
(* being computed is left to EngineCache.                                  *)
(***************************************************************************)
EXTENDS PythonLists, SequencesExt, FiniteSetsExt, Bags

CONSTANTS
    Clients,           \* who may hold a block table
    Uses,              \* sets of what they do: "finish", "retain" / "swap", "match"
    None,
    Chains, Depth,     \* token streams, of at most Depth full blocks
    Fork,              \* the leading blocks all chains share
    NumBlocks,
    CleanupThreshold,  \* LRUEvictor.CLEANUP_THRESHOLD
    MaxClock           \* bound on the steps of the engine

ASSUME CacheAssumption ==
    /\ \A U \in Uses : U \subseteq {"finish", "retain"} \/ U \subseteq {"swap", "match"}
    /\ {Depth, NumBlocks, CleanupThreshold, MaxClock} \subseteq Nat \ {0}
    /\ Fork \in 0..Depth
    /\ IsFiniteSet(Clients) /\ None \notin Chains /\ "all" \notin Chains

VARIABLES
    kinds,   \* the use this device is put to
    m,       \* refcounts, _cached_blocks inverted, last access, priority_queue
    tables,  \* the clients' block tables, and the stamp a retained one keeps
    clock, phase  \* the engine's step, and whether it schedules or finishes
vars == <<kinds, m, tables, clock, phase>>

Blocks == 1..NumBlocks
NoHash == <<>>
NoStamp == -1
NoTable == [blocks |-> <<>>, chain |-> None, stamp |-> NoStamp]
Hash(c, i) == <<IF i <= Fork THEN "all" ELSE c, i>>
Holders(s, h) == {b \in Blocks : s.hash[b] = h}
Free(s) == {b \in Blocks : s.ref[b] = 0}

\* The evictor's free_table.
FreeTable(s) == {b \in Free(s) : s.hash[b] # NoHash}
Entry(s, b) == <<s.last[b], -s.hash[b][2], b, s.hash[b]>>
-----------------------------------------------------------------------------
(***************************************************************************)
(* LRUEvictor.                                                             *)
(***************************************************************************)
Before(e, f) ==
    \/ e[1] < f[1]
    \/ e[1] = f[1] /\ e[2] < f[2]
    \/ e[1] = f[1] /\ e[2] = f[2] /\ e[3] < f[3]

\* Mutant: any entry of a free block is taken, outdated or not.
CurrentIfFree(s, e) == e[3] \in FreeTable(s)

\* An entry evict does not filter out.
Current(s, e) == e[3] \in FreeTable(s) /\ s.last[e[3]] = e[1]

\* What evict pops: the first entry that is current.
Popped(s) ==
    LET live == {e \in BagToSet(s.heap) : Current(s, e)}
    IN  CHOOSE e \in live : \A f \in live : ~Before(f, e)

\* Mutant: the block's entry is pushed only when it has none.
AddOnce(s, b) ==
    IF \E e \in BagToSet(s.heap) : e[3] = b THEN s
    ELSE [s EXCEPT !.heap = @ (+) SetToBag({Entry(s, b)})]

\* add: push, then _cleanup_if_necessary.
Add(s, b) ==
    LET heap == s.heap (+) SetToBag({Entry(s, b)})
        full == BagCardinality(heap) > CleanupThreshold * Cardinality(FreeTable(s))
    IN  [s EXCEPT !.heap =
            IF full THEN SetToBag({Entry(s, f) : f \in FreeTable(s)}) ELSE heap]
-----------------------------------------------------------------------------
(***************************************************************************)
(* The allocator.  a is [s, table]; s.ok turns FALSE when one of its       *)
(* sanity checks fails.                                                    *)
(***************************************************************************)
\* _maybe_allocate_evicted_block_id.
Evict(a, h) ==
    LET e == Popped(a.s)
        b == e[3]
        rest == [f \in {f \in BagToSet(a.s.heap) : Before(e, f)} |-> a.s.heap[f]]
        more == [f \in {f \in {e} : a.s.heap[f] > 1} |-> a.s.heap[f] - 1]
    IN  IF a.s.hash[b] # e[4] THEN [a EXCEPT !.s.ok = FALSE]
        ELSE [s |-> [a.s EXCEPT !.ref[b] = 1, !.hash[b] = h, !.last[b] = NoStamp,
                                !.heap = rest (+) more],
              table |-> Append(a.table, b)]

\* _allocate_block_id: a hashless block, or else an evicted one.
NewBlock(a, h) ==
    LET plain == Free(a.s) \ FreeTable(a.s)
        b == Min(plain)
    IN  IF plain = {} THEN Evict(a, h)
        ELSE [s |-> [a.s EXCEPT !.ref[b] = 1, !.hash[b] = h, !.last[b] = NoStamp],
              table |-> Append(a.table, b)]

\* _incr_refcount_cached_block; the heap entry of b stays.
Reuse(a, b) ==
    [s |-> [a.s EXCEPT !.ref[b] = @ + 1,
                       !.last[b] = IF a.s.ref[b] = 0 THEN NoStamp ELSE @],
     table |-> Append(a.table, b)]

\* allocate_immutable_block, allocate_mutable_block.
AllocateBlock(a, h) ==
    IF ~a.s.ok THEN a
    ELSE IF h # NoHash /\ Holders(a.s, h) # {}
    THEN Reuse(a, CHOOSE b \in Holders(a.s, h) : TRUE)
    ELSE NewBlock(a, h)

Allocate(s, hs) == FoldLeft(AllocateBlock, [s |-> s, table |-> <<>>], hs)

\* _free_block_id: a hashed block without references joins the evictor.
FreeBlock(s, b) ==
    LET t == [s EXCEPT !.ref[b] = @ - 1]
    IN  IF t.ref[b] = 0 /\ t.hash[b] # NoHash THEN Add(t, b) ELSE t

FreeAll(s, table) == FoldLeft(FreeBlock, s, table)

\* mark_blocks_as_accessed, for blocks in use.
Stamped(s, table, t) ==
    [s EXCEPT !.last = [b \in Blocks |-> IF b \in ToSet(table) THEN t ELSE @[b]]]

\* Mutant: bisect_right of the hits.
CachedBlocksRight(s, c, n) ==
    LET hit(i) == Holders(s, Hash(c, i)) # {}
        bisect[r \in (0..n) \X (0..n)] ==
            LET mid == (r[1] + r[2]) \div 2
            IN  IF r[1] >= r[2] THEN r[1]
                ELSE IF hit(mid + 1) THEN bisect[<<r[1], mid>>]
                ELSE bisect[<<mid + 1, r[2]>>]
    IN  bisect[<<0, n>>]

\* find_cached_blocks_prefix: the leading blocks of c that bisect reports
\* as cached, for a sequence of n blocks.
CachedBlocks(s, c, n) ==
    BisectLeft({i \in 1..n : Holders(s, Hash(c, i)) # {}}, n)
-----------------------------------------------------------------------------
Init ==
    /\ kinds \in Uses
    /\ m = [ref |-> [b \in Blocks |-> 0], hash |-> [b \in Blocks |-> NoHash],
            last |-> [b \in Blocks |-> NoStamp], heap |-> EmptyBag, ok |-> TRUE]
    /\ tables = [k \in Clients |-> NoTable]
    /\ clock = 0 /\ phase = "schedule"

\* n full blocks of c, and its unfinished block.
Wanted(c, n) == [i \in 1..(n + 1) |-> IF i <= n THEN Hash(c, i) ELSE NoHash]
Needed(hs) ==
    Cardinality({i \in DOMAIN hs : hs[i] = NoHash
                    \/ \A b \in Holders(m, hs[i]) : m.ref[b] = 0})

\* allocate, behind can_allocate.
Take(k) ==
    /\ kinds \cap {"finish", "retain"} # {} /\ phase = "schedule"
    /\ m.ok /\ tables[k] = NoTable
    /\ \E c \in Chains, n \in 0..(Depth - 1) :
          LET a == Allocate(m, Wanted(c, n))
          IN  /\ Needed(Wanted(c, n)) <= Cardinality(Free(m))
              /\ m' = a.s
              /\ tables' = IF a.s.ok
                           THEN [tables EXCEPT ![k] = [blocks |-> a.table,
                                    chain |-> c, stamp |-> NoStamp]]
                           ELSE tables
    /\ UNCHANGED <<clock, phase>>

\* Mutant: the full block is registered although its content is cached.
GrowNoTwin(k) ==
    LET t == tables[k].blocks
    IN  /\ phase = "schedule" /\ m.ok
        /\ t # <<>> /\ tables[k].stamp = NoStamp /\ m.hash[Last(t)] = NoHash
        /\ m' = [m EXCEPT !.hash[Last(t)] = Hash(tables[k].chain, Len(t))]
        /\ UNCHANGED <<tables, clock, phase>>

\* The last block of a running request fills up: promote_to_immutable_block.
Grow(k) ==
    LET t == tables[k].blocks
        h == Hash(tables[k].chain, Len(t))
        twins == Holders(m, h)
        a == Reuse([s |-> FreeBlock(m, Last(t)), table |-> Front(t)],
                   CHOOSE b \in twins : TRUE)
    IN  /\ phase = "schedule" /\ m.ok
        /\ t # <<>> /\ tables[k].stamp = NoStamp /\ m.hash[Last(t)] = NoHash
        /\ IF twins = {}
           THEN m' = [m EXCEPT !.hash[Last(t)] = h] /\ UNCHANGED tables
           ELSE m' = a.s /\ tables' = [tables EXCEPT ![k].blocks = a.table]
        /\ UNCHANGED <<clock, phase>>

Drop(k, t) ==
    /\ m' = FreeAll(Stamped(m, tables[k].blocks, t), tables[k].blocks)
    /\ tables' = [tables EXCEPT ![k] = NoTable]

\* A request of the current step finishes and its blocks are freed.
Finish(k) ==
    /\ "finish" \in kinds /\ m.ok
    /\ tables[k].blocks # <<>> /\ tables[k].stamp = NoStamp
    /\ Drop(k, clock) /\ phase' = "finish" /\ UNCHANGED clock

\* It finishes and its entry is retained on the GPU: retain_blocks.
Retain(k) ==
    /\ "retain" \in kinds /\ m.ok
    /\ tables[k].blocks # <<>> /\ tables[k].stamp = NoStamp
    /\ tables' = [tables EXCEPT ![k].stamp = clock]
    /\ phase' = "finish" /\ UNCHANGED <<m, clock>>

\* The retained entry is dropped, with the stamp its sequence had.
DropRetained(k) ==
    /\ "retain" \in kinds /\ m.ok /\ tables[k].stamp # NoStamp
    /\ Drop(k, tables[k].stamp) /\ UNCHANGED <<clock, phase>>

\* The swapped-out tables of earlier steps, which free_finished_blocks frees
\* before a step swaps out its own.
Pending == {k \in Clients : tables[k].stamp \notin {NoStamp, clock}}

\* _swap_out_group, the CPU side: a finished request's full blocks, behind the
\* check of can_swap_out.
SwapOut(k) ==
    /\ "swap" \in kinds /\ m.ok /\ tables[k] = NoTable /\ Pending = {}
    /\ \E c \in Chains, n \in 1..Depth :
          LET hs == [i \in 1..n |-> Hash(c, i)]
              a == Allocate(m, hs)
          IN  /\ Needed(hs) <= Cardinality(Free(m))
              /\ m' = a.s
              /\ tables' = IF a.s.ok
                           THEN [tables EXCEPT ![k] = [blocks |-> a.table,
                                    chain |-> c, stamp |-> clock]]
                           ELSE tables
    /\ phase' = "finish" /\ UNCHANGED clock

FreeStamped(s, k) ==
    FreeAll(Stamped(s, tables[k].blocks, tables[k].stamp), tables[k].blocks)

\* free_finished_blocks.
FreePending ==
    /\ "swap" \in kinds /\ m.ok /\ Pending # {}
    /\ m' = FoldLeft(FreeStamped, m, SetToSeq(Pending))
    /\ tables' = [k \in Clients |-> IF k \in Pending THEN NoTable ELSE tables[k]]
    /\ UNCHANGED <<clock, phase>>

\* _swap_in_cpu_prefix_if_needed on the CPU: a table over the cached prefix of
\* a sequence of len blocks, freed at once.
Match(c, len) ==
    LET hs == [i \in 1..CachedBlocks(m, c, len) |-> Hash(c, i)]
        a == Allocate(m, hs)
    IN  /\ "match" \in kinds /\ phase = "schedule" /\ m.ok /\ hs # <<>>
        /\ Needed(hs) <= Cardinality(Free(m))
        /\ m' = IF a.s.ok THEN FreeAll(a.s, a.table) ELSE a.s
        /\ UNCHANGED <<tables, clock, phase>>

\* The engine's next step; one in which nobody finishes needs no new stamp.
Tick ==
    /\ phase = "finish" /\ clock < MaxClock
    /\ clock' = clock + 1 /\ phase' = "schedule" /\ UNCHANGED <<m, tables>>

Next ==
    /\ \/ Tick \/ FreePending
       \/ \E c \in Chains, len \in 1..Depth : Match(c, len)
       \/ \E k \in Clients : Take(k) \/ Grow(k) \/ Finish(k) \/ Retain(k)
                            \/ DropRetained(k) \/ SwapOut(k)
    /\ UNCHANGED kinds

Spec == Init /\ [][Next]_vars
-----------------------------------------------------------------------------
\* EngineCache's view of LRUEvictor.evict.
Oldest(s) ==
    LET old == {b \in FreeTable(s) : \A c \in FreeTable(s) : s.last[b] <= s.last[c]}
    IN  Min({b \in old : \A c \in old : s.hash[b][2] >= s.hash[c][2]})

\* The lazy queue evicts exactly what EngineCache says, whatever entries of
\* reused blocks it still holds and whenever it was cleaned up, where every
\* table is stamped before it is freed.
LazyHeapExact ==
    FreeTable(m) # {} /\ "match" \notin kinds =>
        Popped(m)[3] = Oldest(m) /\ Popped(m)[4] = m.hash[Oldest(m)]

\* evict never runs out of entries while blocks are free: each of them has one
\* that is current, after any number of reuses, frees and cleanups.
HeapCovers == \A b \in FreeTable(m) : Entry(m, b) \in BagToSet(m.heap)

\* A hash is cached in one block.  Where requests free their blocks when they
\* finish, a cached block's predecessors are cached: what
\* find_cached_blocks_prefix relies on to use binary search.
PrefixClosed ==
    /\ \A b, d \in Blocks : m.hash[b] = m.hash[d] /\ m.hash[b] # NoHash => b = d
    /\ kinds = {"finish"} => \A c \in Chains : \A j \in 1..Depth : \A i \in 1..j :
          Holders(m, Hash(c, j)) # {} => Holders(m, Hash(c, i)) # {}

\* There the prefix bisect reports is the longest one that is cached.
BisectExact ==
    kinds = {"finish"} => \A c \in Chains, len \in 1..Depth :
        CachedBlocks(m, c, len) = Max({n \in 0..len :
            \A i \in 1..n : Holders(m, Hash(c, i)) # {}})
=============================================================================
