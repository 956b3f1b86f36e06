------------------------- MODULE PrefixCacheProofs -------------------------
(***************************************************************************)
(* Proofs about PrefixCache, for any clients, chains, depths, numbers of   *)
(* blocks and cleanup thresholds.                                          *)
(*                                                                         *)
(* An operation of the allocator is a fold over the blocks of a table.     *)
(* Induction turns each fold into a run of single blocks, and what the     *)
(* block-level operators preserve is carried along that run.               *)
(***************************************************************************)
EXTENDS PrefixCache, Induction, FiniteSetTheorems, TLAPS

Hashes == (Chains \cup {"all"}) \X (1..Depth)
Entries == Int \X Int \X Blocks \X Hashes
Heaps == UNION {[D -> Int] : D \in SUBSET Entries}

\* The states of the allocator and its evictor.
State == [ref : [Blocks -> Nat], hash : [Blocks -> Hashes \cup {NoHash}],
          last : [Blocks -> Int], heap : Heaps, ok : BOOLEAN]
StateOK(s) == s \in State /\ IsFiniteSet(DOMAIN s.heap)

Tables == [blocks : Seq(Blocks), chain : Chains \cup {None}, stamp : Int]
Held(k) == ToSet(tables[k].blocks)

\* HeapCovers and the first part of PrefixClosed, for any state.
Covers(s) == \A b \in FreeTable(s) : Entry(s, b) \in DOMAIN s.heap
Unique(s) == \A b, d \in Blocks : s.hash[b] = s.hash[d] /\ s.hash[b] # NoHash => b = d

\* Every reference is that of a client in K, or of one more table over E.
Refs(s, K, E) ==
    \A b \in Blocks :
        s.ref[b] = Cardinality({k \in K : b \in Held(k)}) + (IF b \in E THEN 1 ELSE 0)

\* An unfinished block is nobody else's.
Private(s) == \A b \in Blocks : s.hash[b] = NoHash => s.ref[b] <= 1

\* What table t of chain c holds: its full blocks, then perhaps an unfinished one.
Content(s, t, c) ==
    /\ Len(t) <= Depth
    /\ t # <<>> => c \in Chains
    /\ \A p \in 1..Len(t) : s.hash[t[p]] = Hash(c, p)
                            \/ (p = Len(t) /\ s.hash[t[p]] = NoHash)
Contents(s) == \A k \in Clients : Content(s, tables[k].blocks, tables[k].chain)

\* An entry that was pushed for an earlier content of its block is older than t.
Fresh(s, b, t) == \A e \in DOMAIN s.heap : e[3] = b /\ e[4] # s.hash[b] => e[1] < t

\* The stamp k's blocks get when they are freed.
Bound(k) == IF tables[k].stamp = NoStamp THEN clock ELSE tables[k].stamp
Latest == IF phase = "schedule" \/ "swap" \in kinds THEN clock - 1 ELSE clock

Settled(s) == \A b \in FreeTable(s) : Fresh(s, b, s.last[b])
Ahead(s) == \A k \in Clients : \A b \in Held(k) : Fresh(s, b, Bound(k))
Past(s) == \A e \in DOMAIN s.heap : e[1] <= Latest /\ e[2] = -e[4][2]
Stamps == \A k \in Clients :
    tables[k].stamp <= IF phase = "schedule" THEN clock - 1 ELSE clock
Queue == m.ok /\ Settled(m) /\ Ahead(m) /\ Past(m) /\ Stamps

\* The hash i blocks deep in the chain of h.
Prior(h, i) == <<IF i <= Fork THEN "all" ELSE h[1], i>>

\* A free block's predecessors are cached; they are in use or freed no earlier.
Leads(s, d, b, i) ==
    s.hash[d] = Prior(s.hash[b], i) /\ (s.ref[d] = 0 => s.last[b] <= s.last[d])
Closed(s) ==
    \A b \in FreeTable(s) : \A i \in 1..(s.hash[b][2] - 1) : \E d \in Blocks : Leads(s, d, b, i)
Recent(s) == \A b \in Blocks : s.last[b] <= clock

CacheInv ==
    /\ clock \in Nat
    /\ kinds \in Uses
    /\ tables \in [Clients -> Tables]
    /\ StateOK(m) /\ Covers(m) /\ Unique(m)
    /\ m.ok => Refs(m, Clients, {}) /\ Private(m) /\ Contents(m)
QueueInv == "match" \notin kinds => Queue
ClosedInv == kinds = {"finish"} => Closed(m) /\ Recent(m)
-----------------------------------------------------------------------------
(***************************************************************************)
(* Blocks, hashes and heaps.                                               *)
(***************************************************************************)
\* There are finitely many blocks, and some.
LEMMA BlockFacts ==
    /\ NumBlocks \in Nat \ {0} /\ Depth \in Nat \ {0} /\ Fork \in 0..Depth
    /\ IsFiniteSet(Blocks) /\ Blocks \subseteq Nat
    /\ \A S \in SUBSET Blocks : IsFiniteSet(S) /\ Cardinality(S) \in Nat
  <1>1. NumBlocks \in Nat \ {0} /\ Depth \in Nat \ {0} /\ Fork \in 0..Depth
    BY CacheAssumption
  <1>2. IsFiniteSet(Blocks)
    BY <1>1, FS_Interval DEF Blocks
  <1>3. \A S \in SUBSET Blocks : IsFiniteSet(S) /\ Cardinality(S) \in Nat
    BY <1>2, FS_Subset, FS_CardinalityType
  <1> QED BY <1>1, <1>2, <1>3 DEF Blocks

\* The hash of a full block.
LEMMA HashFacts ==
    ASSUME NEW c \in Chains, NEW i \in 1..Depth
    PROVE  Hash(c, i) \in Hashes /\ Hash(c, i)[2] = i /\ Hash(c, i) # NoHash
  <1>1. Hash(c, i) = <<IF i <= Fork THEN "all" ELSE c, i>>
    BY DEF Hash
  <1>2. (IF i <= Fork THEN "all" ELSE c) \in Chains \cup {"all"}
    OBVIOUS
  <1>3. Hash(c, i) \in Hashes
    BY <1>1, <1>2 DEF Hashes
  <1>4. \A h \in Hashes : h # NoHash
    BY DEF Hashes, NoHash
  <1> QED BY <1>1, <1>3, <1>4

\* A hash is a pair, and "no hash" is none.
LEMMA HashPair ==
    ASSUME NEW h \in Hashes
    PROVE  h # NoHash /\ h[2] \in 1..Depth /\ h[1] \in Chains \cup {"all"}
           /\ h[2] \in Int /\ -h[2] \in Int
  <1>1. Depth \in Nat
    BY BlockFacts
  <1> QED BY <1>1 DEF Hashes, NoHash

\* The fields of a state.
LEMMA StateFields ==
    ASSUME NEW s, StateOK(s)
    PROVE  /\ s \in State
           /\ s.ref \in [Blocks -> Nat]
           /\ s.hash \in [Blocks -> Hashes \cup {NoHash}]
           /\ s.last \in [Blocks -> Int]
           /\ s.heap \in Heaps
           /\ s.ok \in BOOLEAN
           /\ IsFiniteSet(DOMAIN s.heap)
           /\ DOMAIN s.heap \subseteq Entries
  <1>1. s.heap \in Heaps /\ IsFiniteSet(DOMAIN s.heap)
    BY DEF StateOK, State
  <1>2. DOMAIN s.heap \subseteq Entries
    BY <1>1 DEF Heaps
  <1> QED BY <1>1, <1>2 DEF StateOK, State

\* The parts of an entry.
LEMMA EntryParts ==
    ASSUME NEW e \in Entries
    PROVE  /\ e[1] \in Int /\ e[2] \in Int /\ e[3] \in Int
           /\ e[3] \in Blocks /\ e[4] \in Hashes
  <1>1. e[1] \in Int /\ e[2] \in Int /\ e[3] \in Blocks /\ e[4] \in Hashes
    BY DEF Entries
  <1>2. Blocks \subseteq Int
    BY BlockFacts
  <1> QED BY <1>1, <1>2

\* The entry of a free, cached block.
LEMMA EntryFacts ==
    ASSUME NEW s, StateOK(s), NEW b \in FreeTable(s)
    PROVE  /\ b \in Blocks /\ s.ref[b] = 0 /\ s.hash[b] \in Hashes
           /\ Entry(s, b) \in Entries
           /\ Entry(s, b)[1] = s.last[b]
           /\ Entry(s, b)[2] = -s.hash[b][2]
           /\ Entry(s, b)[3] = b
           /\ Entry(s, b)[4] = s.hash[b]
  <1>1. b \in Blocks /\ s.ref[b] = 0 /\ s.hash[b] \in Hashes /\ s.last[b] \in Int
    BY StateFields DEF FreeTable, Free
  <1>2. -s.hash[b][2] \in Int
    BY <1>1, HashPair
  <1> QED BY <1>1, <1>2 DEF Entry, Entries

\* Pushing an entry.
LEMMA HeapPush ==
    ASSUME NEW h \in Heaps, IsFiniteSet(DOMAIN h), NEW e \in Entries
    PROVE  LET g == h (+) SetToBag({e})
           IN  g \in Heaps /\ DOMAIN g = DOMAIN h \cup {e} /\ IsFiniteSet(DOMAIN g)
  <1> DEFINE g == h (+) SetToBag({e})
  <1>1. DOMAIN g = DOMAIN h \cup {e}
    BY DEF (+), SetToBag
  <1>2. PICK D \in SUBSET Entries : h \in [D -> Int]
    BY DEF Heaps
  <1>3. g \in [D \cup {e} -> Int]
    BY <1>2 DEF (+), SetToBag
  <1>4. D \cup {e} \in SUBSET Entries
    OBVIOUS
  <1>5. g \in Heaps
    <2> HIDE DEF g
    <2> QED BY <1>3, <1>4 DEF Heaps
  <1>6. IsFiniteSet(DOMAIN h \cup {e})
    BY FS_AddElement
  <1> QED BY <1>1, <1>5, <1>6

\* A rebuilt heap.
LEMMA HeapOfSet ==
    ASSUME NEW S \in SUBSET Entries
    PROVE  SetToBag(S) \in Heaps /\ DOMAIN SetToBag(S) = S
  <1>1. SetToBag(S) \in [S -> Int] /\ DOMAIN SetToBag(S) = S
    BY DEF SetToBag
  <1> QED BY <1>1 DEF Heaps

\* Entries of free blocks are finitely many.
LEMMA EntriesFinite ==
    ASSUME NEW s, StateOK(s)
    PROVE  LET S == {Entry(s, f) : f \in FreeTable(s)}
           IN  S \subseteq Entries /\ IsFiniteSet(S)
  <1> DEFINE S == {Entry(s, f) : f \in FreeTable(s)}
             F == [f \in FreeTable(s) |-> Entry(s, f)]
  <1>1. S \subseteq Entries
    BY EntryFacts
  <1>2. F \in Surjection(FreeTable(s), S)
    BY DEF Surjection
  <1>3. IsFiniteSet(FreeTable(s))
    BY BlockFacts DEF FreeTable, Free
  <1> HIDE DEF F, S
  <1>4. IsFiniteSet(S)
    BY <1>2, <1>3, FS_Surjection
  <1> QED BY <1>1, <1>4 DEF S
-----------------------------------------------------------------------------
(***************************************************************************)
(* The evictor.                                                            *)
(***************************************************************************)
\* add pushes the block's entry and forgets no current one.
LEMMA AddFacts ==
    ASSUME NEW s, StateOK(s), NEW b \in FreeTable(s)
    PROVE  LET r == Add(s, b)
           IN  /\ StateOK(r)
               /\ r.ref = s.ref /\ r.hash = s.hash /\ r.last = s.last /\ r.ok = s.ok
               /\ Entry(s, b) \in DOMAIN r.heap
               /\ \A d \in FreeTable(s) :
                     Entry(s, d) \in DOMAIN s.heap => Entry(s, d) \in DOMAIN r.heap
               /\ \A e \in DOMAIN r.heap : e \in DOMAIN s.heap
                     \/ \E d \in FreeTable(s) : e = Entry(s, d)
  <1> DEFINE grown == s.heap (+) SetToBag({Entry(s, b)})
             full == BagCardinality(grown) > CleanupThreshold * Cardinality(FreeTable(s))
             S == {Entry(s, f) : f \in FreeTable(s)}
             heap == IF full THEN SetToBag(S) ELSE grown
             r == [s EXCEPT !.heap = heap]
  <1>1. Add(s, b) = r
    BY DEF Add
  <1>2. s \in State /\ s.heap \in Heaps /\ IsFiniteSet(DOMAIN s.heap)
    BY StateFields
  <1>3. Entry(s, b) \in Entries
    BY EntryFacts
  <1>4. grown \in Heaps /\ DOMAIN grown = DOMAIN s.heap \cup {Entry(s, b)}
        /\ IsFiniteSet(DOMAIN grown)
    BY <1>2, <1>3, HeapPush
  <1>5. S \subseteq Entries /\ IsFiniteSet(S)
    BY EntriesFinite
  <1>6. SetToBag(S) \in Heaps /\ DOMAIN SetToBag(S) = S
    BY <1>5, HeapOfSet
  <1>6a. \A d \in FreeTable(s) : Entry(s, d) \in S
    OBVIOUS
  <1>6b. \A e \in S : \E d \in FreeTable(s) : e = Entry(s, d)
    OBVIOUS
  <1> HIDE DEF S, grown, full
  <1>7. heap \in Heaps /\ IsFiniteSet(DOMAIN heap)
    BY <1>4, <1>5, <1>6
  <1>8. /\ Entry(s, b) \in DOMAIN heap
        /\ \A d \in FreeTable(s) :
              Entry(s, d) \in DOMAIN s.heap => Entry(s, d) \in DOMAIN heap
        /\ \A e \in DOMAIN heap : e \in DOMAIN s.heap
              \/ \E d \in FreeTable(s) : e = Entry(s, d)
    <2>1. CASE full
      <3>1. DOMAIN heap = S
        BY <2>1, <1>6
      <3> QED BY <3>1, <1>6a, <1>6b
    <2>2. CASE ~full
      <3>1. DOMAIN heap = DOMAIN s.heap \cup {Entry(s, b)}
        BY <2>2, <1>4
      <3> QED BY <3>1
    <2> QED BY <2>1, <2>2
  <1> HIDE DEF heap
  <1>9. /\ r \in State
        /\ r.heap = heap
        /\ r.ref = s.ref /\ r.hash = s.hash /\ r.last = s.last /\ r.ok = s.ok
    BY <1>2, <1>7 DEF State
  <1> HIDE DEF r
  <1> QED BY <1>1, <1>7, <1>8, <1>9, Zenon DEF StateOK

\* A finite, non-empty set of entries has a first one.
LEMMA FirstEntry ==
    ASSUME NEW live \in SUBSET Entries, IsFiniteSet(live), live # {}
    PROVE  \E e \in live : \A f \in live : ~Before(f, e)
  <1> DEFINE ahead(e) == {f \in live : Before(f, e)}
             S == {Cardinality(ahead(e)) : e \in live}
  <1>1. \A e \in live : IsFiniteSet(ahead(e)) /\ Cardinality(ahead(e)) \in Nat
    BY FS_Subset, FS_CardinalityType
  <1>2. S \subseteq Nat /\ S # {}
    BY <1>1
  <1>3. PICK x \in S : \A y \in S : x <= y
    <2> HIDE DEF S
    <2> QED BY <1>2, LeastNat
  <1>4. PICK e \in live : x = Cardinality(ahead(e))
    BY <1>3
  <1>5. SUFFICES ASSUME NEW f \in live, Before(f, e) PROVE FALSE
    BY <1>4
  <1>6. \A g \in Entries : g[1] \in Int /\ g[2] \in Int /\ g[3] \in Int
    BY EntryParts
  <1>7. ahead(f) \subseteq ahead(e) /\ f \in ahead(e) /\ f \notin ahead(f)
    BY <1>5, <1>6 DEF Before
  <1>8. Cardinality(ahead(f)) <= Cardinality(ahead(e)) - 1
    <2> HIDE DEF ahead
    <2>1. ahead(f) \in SUBSET (ahead(e) \ {f})
      BY <1>7
    <2>2. IsFiniteSet(ahead(e) \ {f})
          /\ Cardinality(ahead(e) \ {f}) = Cardinality(ahead(e)) - 1
      BY <1>1, <1>7, FS_RemoveElement
    <2> QED BY <2>1, <2>2, FS_Subset
  <1>9. Cardinality(ahead(f)) \in S /\ x <= Cardinality(ahead(f))
    BY <1>3
  <1>10. Cardinality(ahead(f)) \in Nat /\ Cardinality(ahead(e)) \in Nat
    BY <1>1
  <1> HIDE DEF ahead
  <1> QED BY <1>4, <1>8, <1>9, <1>10

\* The entry evict pops is current, and no current one comes before it.
LEMMA PoppedFacts ==
    ASSUME NEW s, StateOK(s), Covers(s), FreeTable(s) # {}
    PROVE  /\ Popped(s) \in DOMAIN s.heap /\ Popped(s) \in Entries
           /\ Current(s, Popped(s))
           /\ \A f \in DOMAIN s.heap : Current(s, f) => ~Before(f, Popped(s))
  <1> DEFINE live == {e \in DOMAIN s.heap : Current(s, e)}
  <1>1. live \in SUBSET Entries /\ IsFiniteSet(live)
    BY StateFields, FS_Subset
  <1>2. PICK b : b \in FreeTable(s)
    OBVIOUS
  <1>3. Entry(s, b) \in live
    BY <1>2, EntryFacts DEF Covers, Current
  <1>4. \E e \in live : \A f \in live : ~Before(f, e)
    <2> HIDE DEF live
    <2> QED BY <1>1, <1>3, FirstEntry
  <1>5. Popped(s) = CHOOSE e \in live : \A f \in live : ~Before(f, e)
    BY DEF Popped, BagToSet
  <1>6. Popped(s) \in live /\ \A f \in live : ~Before(f, Popped(s))
    <2> HIDE DEF live
    <2> QED BY <1>4, <1>5, Zenon
  <1> QED BY <1>1, <1>6
-----------------------------------------------------------------------------
(***************************************************************************)
(* Allocating one block.                                                   *)
(***************************************************************************)
Allocs == [s : State, table : Seq(Blocks)]

\* Block b becomes the holder of h and gets one more reference.  It held h, or
\* it was free: a hashless block or the one evict popped.
Grabs(s, t, h, b) ==
    /\ t.ref = [s.ref EXCEPT ![b] = s.ref[b] + 1]
    /\ t.hash = [s.hash EXCEPT ![b] = h]
    /\ t.last = [s.last EXCEPT ![b] = IF s.ref[b] = 0 THEN NoStamp ELSE s.last[b]]
    /\ DOMAIN t.heap \subseteq DOMAIN s.heap
    /\ \A d \in FreeTable(s) \ {b} :
          Entry(s, d) \in DOMAIN s.heap => Entry(s, d) \in DOMAIN t.heap
    /\ t.ok = s.ok
    /\ (h # NoHash /\ s.hash[b] = h) \/ s.ref[b] = 0
    /\ \A d \in Blocks : h # NoHash /\ s.hash[d] = h => d = b
    /\ s.hash[b] \in {h, NoHash} \/ (FreeTable(s) # {} /\ b = Popped(s)[3])

\* evict's sanity check fails.
Fails(s, t) ==
    /\ t = [s EXCEPT !.ok = FALSE]
    /\ FreeTable(s) # {} /\ s.hash[Popped(s)[3]] # Popped(s)[4]

\* What a grabbed block leaves intact.
LEMMA GrabKeeps ==
    ASSUME NEW s, StateOK(s), NEW t, StateOK(t), NEW h \in Hashes \cup {NoHash},
           NEW b \in Blocks, Grabs(s, t, h, b), Covers(s), Unique(s)
    PROVE  Covers(t) /\ Unique(t)
  <1>1. s.ref \in [Blocks -> Nat] /\ s.hash \in [Blocks -> Hashes \cup {NoHash}]
        /\ s.last \in [Blocks -> Int]
    BY StateFields
  <1>2. ASSUME NEW d \in FreeTable(t) PROVE Entry(t, d) \in DOMAIN t.heap
    <2>1. d \in Blocks /\ t.ref[d] = 0 /\ t.hash[d] # NoHash
      BY <1>2 DEF FreeTable, Free
    <2>2. d # b
      BY <1>1, <2>1 DEF Grabs
    <2>3. s.ref[d] = t.ref[d] /\ s.hash[d] = t.hash[d] /\ s.last[d] = t.last[d]
      BY <1>1, <2>1, <2>2 DEF Grabs
    <2>4. d \in FreeTable(s) \ {b} /\ Entry(s, d) = Entry(t, d)
      BY <2>1, <2>2, <2>3 DEF FreeTable, Free, Entry
    <2> QED BY <2>4 DEF Covers, Grabs
  <1>3. ASSUME NEW c \in Blocks, NEW d \in Blocks, t.hash[c] = t.hash[d], t.hash[c] # NoHash
        PROVE  c = d
    <2>1. CASE c = b \/ d = b
      BY <2>1, <1>1, <1>3 DEF Grabs
    <2>2. CASE c # b /\ d # b
      BY <2>2, <1>1, <1>3 DEF Grabs, Unique
    <2> QED BY <2>1, <2>2
  <1> QED BY <1>2, <1>3 DEF Covers, Unique

\* _incr_refcount_cached_block.
LEMMA ReuseFacts ==
    ASSUME NEW a \in Allocs, StateOK(a.s), Unique(a.s),
           NEW b \in Blocks, a.s.hash[b] # NoHash
    PROVE  LET r == Reuse(a, b)
           IN  /\ r \in Allocs /\ StateOK(r.s) /\ r.table = Append(a.table, b)
               /\ Grabs(a.s, r.s, a.s.hash[b], b)
  <1> DEFINE s == a.s
             t == [s EXCEPT !.ref[b] = @ + 1,
                            !.last[b] = IF s.ref[b] = 0 THEN NoStamp ELSE @]
  <1>1. /\ s \in State /\ s.ref \in [Blocks -> Nat] /\ s.last \in [Blocks -> Int]
        /\ s.hash \in [Blocks -> Hashes \cup {NoHash}] /\ IsFiniteSet(DOMAIN s.heap)
    BY StateFields
  <1>2. /\ t \in State
        /\ t.ref = [s.ref EXCEPT ![b] = s.ref[b] + 1]
        /\ t.last = [s.last EXCEPT ![b] = IF s.ref[b] = 0 THEN NoStamp ELSE s.last[b]]
        /\ t.hash = s.hash /\ t.heap = s.heap /\ t.ok = s.ok
    <2> HIDE DEF s
    <2>1. s.ref[b] + 1 \in Nat
      BY <1>1
    <2>2. (IF s.ref[b] = 0 THEN NoStamp ELSE s.last[b]) \in Int
      BY <1>1 DEF NoStamp
    <2>3. t.ref = [s.ref EXCEPT ![b] = s.ref[b] + 1]
      BY <1>1 DEF State
    <2>4. t.last = [s.last EXCEPT ![b] = IF s.ref[b] = 0 THEN NoStamp ELSE s.last[b]]
      BY <1>1 DEF State
    <2>5. t.hash = s.hash /\ t.heap = s.heap /\ t.ok = s.ok
      BY <1>1 DEF State
    <2>6. t \in State
      BY <1>1, <2>1, <2>2 DEF State
    <2> QED BY <2>3, <2>4, <2>5, <2>6
  <1>3. Reuse(a, b) = [s |-> t, table |-> Append(a.table, b)]
    BY DEF Reuse
  <1>4. a.table \in Seq(Blocks) /\ Append(a.table, b) \in Seq(Blocks)
    BY DEF Allocs
  <1>5. s.hash = [s.hash EXCEPT ![b] = s.hash[b]]
    BY <1>1
  <1>6. \A d \in Blocks : s.hash[d] = s.hash[b] => d = b
    BY DEF Unique
  <1> HIDE DEF t
  <1>7. StateOK(t)
    BY <1>1, <1>2 DEF StateOK
  <1>8. Grabs(s, t, s.hash[b], b)
    BY <1>2, <1>5, <1>6 DEF Grabs
  <1>9. Reuse(a, b).s = t /\ Reuse(a, b).table = Append(a.table, b)
        /\ Reuse(a, b) \in Allocs
    BY <1>2, <1>3, <1>4 DEF Allocs
  <1> QED BY <1>7, <1>8, <1>9

\* A hashless block is taken.
LEMMA PlainFacts ==
    ASSUME NEW a \in Allocs, StateOK(a.s), NEW h \in Hashes \cup {NoHash},
           h # NoHash => Holders(a.s, h) = {},
           Free(a.s) \ FreeTable(a.s) # {}
    PROVE  LET r == NewBlock(a, h)
           IN  /\ r \in Allocs /\ StateOK(r.s)
               /\ \E b \in Blocks : r.table = Append(a.table, b) /\ Grabs(a.s, r.s, h, b)
  <1> DEFINE s == a.s
             plain == Free(s) \ FreeTable(s)
             b == Min(plain)
             t == [s EXCEPT !.ref[b] = 1, !.hash[b] = h, !.last[b] = NoStamp]
  <1>1. /\ s \in State /\ s.ref \in [Blocks -> Nat] /\ s.last \in [Blocks -> Int]
        /\ s.hash \in [Blocks -> Hashes \cup {NoHash}] /\ IsFiniteSet(DOMAIN s.heap)
    BY StateFields
  <1>2. b \in plain
    <2>1. plain \subseteq Nat /\ plain # {}
      BY BlockFacts DEF Free
    <2> HIDE DEF plain
    <2>2. \E x \in plain : \A y \in plain : x <= y
      BY <2>1, LeastNat
    <2> QED BY <2>2, Zenon DEF Min
  <1>3. b \in Blocks /\ s.ref[b] = 0 /\ s.hash[b] = NoHash
    BY <1>2 DEF Free, FreeTable
  <1>4. NewBlock(a, h) = [s |-> t, table |-> Append(a.table, b)]
    BY DEF NewBlock
  <1> HIDE DEF b
  <1>5. a.table \in Seq(Blocks) /\ Append(a.table, b) \in Seq(Blocks)
    BY <1>3 DEF Allocs
  <1>6. /\ t.ref = [s.ref EXCEPT ![b] = s.ref[b] + 1]
        /\ t.hash = [s.hash EXCEPT ![b] = h]
        /\ t.last = [s.last EXCEPT ![b] = IF s.ref[b] = 0 THEN NoStamp ELSE s.last[b]]
        /\ t.heap = s.heap /\ t.ok = s.ok /\ t \in State
    <2> HIDE DEF s
    <2>1. s.ref[b] + 1 = 1
      BY <1>3
    <2>2. NoStamp \in Int
      BY DEF NoStamp
    <2>3. t.ref = [s.ref EXCEPT ![b] = 1]
      BY <1>1 DEF State
    <2>4. t.last = [s.last EXCEPT ![b] = NoStamp]
      BY <1>1 DEF State
    <2>5. t.hash = [s.hash EXCEPT ![b] = h] /\ t.heap = s.heap /\ t.ok = s.ok
      BY <1>1 DEF State
    <2>6. t \in State
      BY <1>1, <2>2 DEF State
    <2> HIDE DEF t
    <2> QED BY <1>3, <2>1, <2>3, <2>4, <2>5, <2>6
  <1> HIDE DEF t
  <1>7. StateOK(t)
    BY <1>1, <1>6 DEF StateOK
  <1>8. \A d \in Blocks : h # NoHash /\ s.hash[d] = h => d = b
    BY DEF Holders
  <1>9. Grabs(s, t, h, b)
    BY <1>3, <1>6, <1>8 DEF Grabs
  <1>10. NewBlock(a, h).s = t /\ NewBlock(a, h).table = Append(a.table, b)
         /\ NewBlock(a, h) \in Allocs
    BY <1>4, <1>5, <1>6 DEF Allocs
  <1> QED BY <1>3, <1>7, <1>9, <1>10

\* The entries evict leaves behind.
LEMMA HeapPop ==
    ASSUME NEW g \in Heaps, IsFiniteSet(DOMAIN g), NEW e \in DOMAIN g
    PROVE  LET rest == [f \in {f \in BagToSet(g) : Before(e, f)} |-> g[f]]
               more == [f \in {f \in {e} : g[f] > 1} |-> g[f] - 1]
               left == rest (+) more
           IN  /\ left \in Heaps /\ IsFiniteSet(DOMAIN left)
               /\ DOMAIN left \subseteq DOMAIN g
               /\ \A f \in DOMAIN g : Before(e, f) => f \in DOMAIN left
  <1> DEFINE R == {f \in DOMAIN g : Before(e, f)}
             M == {f \in {e} : g[f] > 1}
             rest == [f \in R |-> g[f]]
             more == [f \in M |-> g[f] - 1]
             left == rest (+) more
  <1>1. PICK D \in SUBSET Entries : g \in [D -> Int]
    BY DEF Heaps
  <1>2. R \subseteq DOMAIN g /\ M \subseteq DOMAIN g /\ D = DOMAIN g
    BY <1>1
  <1>3. rest \in [R -> Int] /\ more \in [M -> Int]
    BY <1>1, <1>2
  <1>4. DOMAIN left = R \cup M /\ left \in [R \cup M -> Int]
    <2> HIDE DEF R, M, rest, more
    <2> QED BY <1>3 DEF (+)
  <1>5. R \cup M \in SUBSET Entries /\ R \cup M \in SUBSET DOMAIN g
    BY <1>1, <1>2
  <1>6. left \in Heaps
    <2> HIDE DEF left, R, M
    <2> QED BY <1>4, <1>5 DEF Heaps
  <1>7. IsFiniteSet(R \cup M)
    <2> HIDE DEF R, M
    <2> QED BY <1>5, FS_Subset
  <1>8. \A f \in DOMAIN g : Before(e, f) => f \in R
    OBVIOUS
  <1> QED BY <1>4, <1>5, <1>6, <1>7, <1>8 DEF BagToSet

\* The popped block is taken, or the sanity check fails.
LEMMA EvictFacts ==
    ASSUME NEW a \in Allocs, StateOK(a.s), Covers(a.s), NEW h \in Hashes \cup {NoHash},
           h # NoHash => Holders(a.s, h) = {},
           FreeTable(a.s) # {}
    PROVE  LET r == Evict(a, h)
           IN  /\ r \in Allocs /\ StateOK(r.s)
               /\ \/ r.table = a.table /\ Fails(a.s, r.s)
                  \/ \E b \in Blocks : r.table = Append(a.table, b)
                                       /\ Grabs(a.s, r.s, h, b)
  <1> DEFINE s == a.s
             e == Popped(s)
             b == e[3]
             rest == [f \in {f \in BagToSet(s.heap) : Before(e, f)} |-> s.heap[f]]
             more == [f \in {f \in {e} : s.heap[f] > 1} |-> s.heap[f] - 1]
             left == rest (+) more
             t == [s EXCEPT !.ref[b] = 1, !.hash[b] = h, !.last[b] = NoStamp,
                            !.heap = left]
  <1>1. /\ s \in State /\ s.ref \in [Blocks -> Nat] /\ s.last \in [Blocks -> Int]
        /\ s.hash \in [Blocks -> Hashes \cup {NoHash}] /\ IsFiniteSet(DOMAIN s.heap)
        /\ s.heap \in Heaps /\ DOMAIN s.heap \subseteq Entries
    BY StateFields
  <1>2. /\ e \in DOMAIN s.heap /\ e \in Entries /\ Current(s, e)
        /\ \A f \in DOMAIN s.heap : Current(s, f) => ~Before(f, e)
    BY PoppedFacts
  <1>3. b \in Blocks /\ s.ref[b] = 0 /\ b \in FreeTable(s)
    BY <1>2 DEF Current, FreeTable, Free
  <1>4. /\ left \in Heaps /\ IsFiniteSet(DOMAIN left)
        /\ DOMAIN left \subseteq DOMAIN s.heap
        /\ \A f \in DOMAIN s.heap : Before(e, f) => f \in DOMAIN left
    <2> HIDE DEF e, s
    <2> QED BY <1>1, <1>2, HeapPop
  <1>5. ASSUME NEW d \in FreeTable(s) \ {b}, Entry(s, d) \in DOMAIN s.heap
        PROVE  Entry(s, d) \in DOMAIN left
    <2> HIDE DEF e, left, s
    <2> DEFINE f == Entry(s, d)
    <2>1. f[3] = d /\ f[1] = s.last[d] /\ f \in Entries
      BY EntryFacts DEF s
    <2>2. Current(s, f)
      BY <2>1 DEF Current
    <2>3. ~Before(f, e)
      BY <1>2, <1>5, <2>2
    <2>4. f[3] # e[3]
      BY <2>1
    <2>5. /\ e[1] \in Int /\ e[2] \in Int /\ e[3] \in Int
          /\ f[1] \in Int /\ f[2] \in Int /\ f[3] \in Int
      BY <1>2, <2>1, EntryParts
    <2> HIDE DEF f
    <2>6. Before(e, f)
      BY <2>3, <2>4, <2>5 DEF Before
    <2> QED BY <1>4, <1>5, <2>6 DEF f
  <1>6. Evict(a, h) = IF s.hash[b] # e[4] THEN [a EXCEPT !.s.ok = FALSE]
                      ELSE [s |-> t, table |-> Append(a.table, b)]
    BY DEF Evict
  <1>7. CASE s.hash[b] # e[4]
    <2>1. Evict(a, h) = [a EXCEPT !.s.ok = FALSE]
      BY <1>6, <1>7
    <2>2. /\ Evict(a, h).s = [s EXCEPT !.ok = FALSE]
          /\ Evict(a, h).table = a.table
          /\ Evict(a, h) \in Allocs
      BY <2>1 DEF Allocs, State
    <2>3. [s EXCEPT !.ok = FALSE].heap = s.heap /\ [s EXCEPT !.ok = FALSE] \in State
      <3> HIDE DEF s
      <3> QED BY <1>1 DEF State
    <2>4. StateOK(Evict(a, h).s)
      BY <1>1, <2>2, <2>3 DEF StateOK
    <2> QED BY <1>7, <2>2, <2>4 DEF Fails
  <1>8. CASE s.hash[b] = e[4]
    <2>1. Evict(a, h) = [s |-> t, table |-> Append(a.table, b)]
      BY <1>6, <1>8
    <2>2. b = Popped(s)[3]
      OBVIOUS
    <2> HIDE DEF e, left, b
    <2>3. a.table \in Seq(Blocks) /\ Append(a.table, b) \in Seq(Blocks)
      BY <1>3 DEF Allocs
    <2>4. /\ t.ref = [s.ref EXCEPT ![b] = s.ref[b] + 1]
          /\ t.hash = [s.hash EXCEPT ![b] = h]
          /\ t.last = [s.last EXCEPT ![b] = IF s.ref[b] = 0 THEN NoStamp ELSE s.last[b]]
          /\ t.heap = left /\ t.ok = s.ok /\ t \in State
      <3> HIDE DEF s
      <3>1. s.ref[b] + 1 = 1
        BY <1>3
      <3>2. NoStamp \in Int
        BY DEF NoStamp
      <3>3. t.ref = [s.ref EXCEPT ![b] = 1]
        BY <1>1 DEF State
      <3>4. t.last = [s.last EXCEPT ![b] = NoStamp]
        BY <1>1 DEF State
      <3>5. t.hash = [s.hash EXCEPT ![b] = h] /\ t.heap = left /\ t.ok = s.ok
        BY <1>1 DEF State
      <3>6. t \in State
        BY <1>1, <1>4, <3>2 DEF State
      <3> HIDE DEF t
      <3> QED BY <1>3, <3>1, <3>3, <3>4, <3>5, <3>6
    <2> HIDE DEF t
    <2>5. StateOK(t)
      BY <1>4, <2>4 DEF StateOK
    <2>6. \A d \in Blocks : h # NoHash /\ s.hash[d] = h => d = b
      BY DEF Holders
    <2>7. Grabs(s, t, h, b)
      BY <1>3, <1>4, <1>5, <2>2, <2>4, <2>6 DEF Grabs
    <2>8. Evict(a, h).s = t /\ Evict(a, h).table = Append(a.table, b)
          /\ Evict(a, h) \in Allocs
      BY <2>1, <2>3, <2>4 DEF Allocs
    <2> QED BY <1>3, <2>5, <2>7, <2>8
  <1> QED BY <1>7, <1>8

\* A state that only failed.
LEMMA FailKeeps ==
    ASSUME NEW s, StateOK(s), NEW t, StateOK(t), Fails(s, t), Covers(s), Unique(s)
    PROVE  /\ Covers(t) /\ Unique(t) /\ t.ok = FALSE
           /\ t.ref = s.ref /\ t.hash = s.hash /\ t.last = s.last /\ t.heap = s.heap
  <1>1. s \in State
    BY StateFields
  <1>2. /\ t.ref = s.ref /\ t.hash = s.hash /\ t.last = s.last /\ t.heap = s.heap
        /\ t.ok = FALSE
    BY <1>1 DEF Fails, State
  <1>3. FreeTable(t) = FreeTable(s) /\ \A d \in FreeTable(s) : Entry(t, d) = Entry(s, d)
    BY <1>2 DEF FreeTable, Free, Entry
  <1> QED BY <1>2, <1>3 DEF Covers, Unique

\* allocate_immutable_block, allocate_mutable_block, where a block is free if
\* one is needed.
LEMMA AllocateBlockFacts ==
    ASSUME NEW a \in Allocs, StateOK(a.s), Covers(a.s), Unique(a.s), a.s.ok,
           NEW h \in Hashes \cup {NoHash},
           (h = NoHash \/ \A b \in Holders(a.s, h) : a.s.ref[b] = 0) => Free(a.s) # {}
    PROVE  LET r == AllocateBlock(a, h)
           IN  /\ r \in Allocs /\ StateOK(r.s) /\ Covers(r.s) /\ Unique(r.s)
               /\ \/ r.table = a.table /\ Fails(a.s, r.s)
                  \/ \E b \in Blocks : r.table = Append(a.table, b)
                                       /\ Grabs(a.s, r.s, h, b)
  <1> DEFINE r == AllocateBlock(a, h)
  <1>1. /\ r \in Allocs /\ StateOK(r.s)
        /\ \/ r.table = a.table /\ Fails(a.s, r.s)
           \/ \E b \in Blocks : r.table = Append(a.table, b) /\ Grabs(a.s, r.s, h, b)
    <2>1. CASE h # NoHash /\ Holders(a.s, h) # {}
      <3> DEFINE b == CHOOSE x \in Holders(a.s, h) : TRUE
      <3>1. b \in Blocks /\ a.s.hash[b] = h
        BY <2>1 DEF Holders
      <3>2. r = Reuse(a, b)
        BY <2>1 DEF AllocateBlock
      <3> HIDE DEF b, r
      <3> QED BY <2>1, <3>1, <3>2, ReuseFacts
    <2>2. CASE ~(h # NoHash /\ Holders(a.s, h) # {})
      <3>1. r = NewBlock(a, h) /\ Free(a.s) # {} /\ (h # NoHash => Holders(a.s, h) = {})
        BY <2>2 DEF AllocateBlock
      <3>2. CASE Free(a.s) \ FreeTable(a.s) # {}
        <4> HIDE DEF r
        <4> QED BY <3>1, <3>2, PlainFacts
      <3>3. CASE Free(a.s) \ FreeTable(a.s) = {}
        <4>1. r = Evict(a, h) /\ FreeTable(a.s) # {}
          BY <3>1, <3>3 DEF NewBlock
        <4> HIDE DEF r
        <4> QED BY <3>1, <4>1, EvictFacts
      <3> QED BY <3>2, <3>3
    <2> QED BY <2>1, <2>2
  <1> HIDE DEF r
  <1>2. Covers(r.s) /\ Unique(r.s)
    BY <1>1, GrabKeeps, FailKeeps
  <1> QED BY <1>1, <1>2 DEF r
-----------------------------------------------------------------------------
(***************************************************************************)
(* Allocating a table.                                                     *)
(***************************************************************************)
Allocating == INSTANCE Induction WITH Combine <- AllocateBlock

\* n different blocks to allocate.
HashList(hs, n) ==
    /\ DOMAIN hs = 1..n
    /\ \A p \in 1..n : hs[p] \in Hashes \cup {NoHash}
    /\ \A p, q \in 1..n : hs[p] = hs[q] => p = q

\* Whether block p of hs is not in use, and the blocks from i + 1 on that are not.
Needs(s, hs, p) == hs[p] = NoHash \/ \A b \in Holders(s, hs[p]) : s.ref[b] = 0
NeedsFrom(s, hs, i, n) == {p \in (i + 1)..n : Needs(s, hs, p)}

\* What holds after i blocks: they are in the table, each with one reference
\* more than in s0; what was in use is as it was; the free blocks suffice.
Taken(s0, a, hs, i, n) ==
    /\ Len(a.table) = i
    /\ \A p \in 1..i : a.s.hash[a.table[p]] = hs[p]
    /\ \A b \in Blocks : a.s.ref[b] = s0.ref[b] + (IF b \in ToSet(a.table) THEN 1 ELSE 0)
    /\ \A b \in Blocks : s0.ref[b] # 0 => a.s.hash[b] = s0.hash[b] /\ a.s.last[b] = s0.last[b]
    /\ Private(a.s)
    /\ Cardinality(NeedsFrom(a.s, hs, i, n)) <= Cardinality(Free(a.s))
Partial(s0, a, hs, i, n) ==
    /\ a \in Allocs /\ StateOK(a.s) /\ Covers(a.s) /\ Unique(a.s)
    /\ a.s.ok => Taken(s0, a, hs, i, n)

\* One block of the run.
AllocStep(a, r, h) ==
    \/ ~a.s.ok /\ r = a
    \/ a.s.ok /\ r.table = a.table /\ Fails(a.s, r.s)
    \/ a.s.ok /\ \E b \in Blocks : r.table = Append(a.table, b) /\ Grabs(a.s, r.s, h, b)

AllocRun(run, s0, hs, n) ==
    /\ run[0] = [s |-> s0, table |-> <<>>]
    /\ run[n] = Allocate(s0, hs)
    /\ \A i \in 0..n : Partial(s0, run[i], hs, i, n)
    /\ \A i \in 1..n : AllocStep(run[i - 1], run[i], hs[i])

\* A block that is needed finds one that is free.
LEMMA RoomLeft ==
    ASSUME NEW s, NEW hs, NEW n \in Nat, NEW i \in 1..n, Needs(s, hs, i),
           Cardinality(NeedsFrom(s, hs, i - 1, n)) <= Cardinality(Free(s))
    PROVE  Free(s) # {}
  <1>1. i \in NeedsFrom(s, hs, i - 1, n)
    BY DEF NeedsFrom
  <1>2. NeedsFrom(s, hs, i - 1, n) \in SUBSET (1..n)
    BY DEF NeedsFrom
  <1>3. IsFiniteSet(1..n)
    BY FS_Interval
  <1>4. IsFiniteSet(NeedsFrom(s, hs, i - 1, n))
    BY <1>2, <1>3, FS_Subset
  <1>5. Cardinality(NeedsFrom(s, hs, i - 1, n)) # 0
        /\ Cardinality(NeedsFrom(s, hs, i - 1, n)) \in Nat
    BY <1>1, <1>4, FS_EmptySet, FS_CardinalityType
  <1>6. Cardinality({}) = 0
    BY FS_EmptySet
  <1> QED BY <1>5, <1>6

\* The room that a grabbed block leaves for the others.
LEMMA RoomKept ==
    ASSUME NEW s, StateOK(s), Unique(s), NEW t, NEW hs, NEW n \in Nat, NEW i \in 1..n,
           NEW b \in Blocks, Grabs(s, t, hs[i], b),
           Cardinality(NeedsFrom(s, hs, i - 1, n)) <= Cardinality(Free(s))
    PROVE  Cardinality(NeedsFrom(t, hs, i, n)) <= Cardinality(Free(t))
  <1> DEFINE N == NeedsFrom(s, hs, i - 1, n)
             N1 == NeedsFrom(t, hs, i, n)
  <1>0. s.ref \in [Blocks -> Nat] /\ s.hash \in [Blocks -> Hashes \cup {NoHash}]
    BY StateFields
  <1>1. N1 \subseteq N \ {i}
    <2> SUFFICES ASSUME NEW p \in (i + 1)..n, Needs(t, hs, p), ~Needs(s, hs, p)
                 PROVE  FALSE
      BY DEF NeedsFrom
    <2>1. hs[p] # NoHash
      BY DEF Needs
    <2>2. PICK d \in Holders(s, hs[p]) : s.ref[d] # 0
      BY DEF Needs
    <2>3. d \in Blocks /\ s.hash[d] = hs[p]
      BY <2>2 DEF Holders
    <2>4. t.hash[d] = hs[p] /\ t.ref[d] # 0
      BY <1>0, <2>2, <2>3 DEF Grabs
    <2>5. d \in Holders(t, hs[p])
      BY <2>3, <2>4 DEF Holders
    <2> QED BY <2>1, <2>4, <2>5 DEF Needs
  <1>2. IsFiniteSet(N) /\ IsFiniteSet(N \ {i}) /\ Cardinality(N) \in Nat
        /\ Cardinality(N \ {i}) = IF i \in N THEN Cardinality(N) - 1 ELSE Cardinality(N)
    <2>1. N \in SUBSET (1..n) /\ IsFiniteSet(1..n)
      BY FS_Interval DEF NeedsFrom
    <2> HIDE DEF N
    <2> QED BY <2>1, FS_Subset, FS_RemoveElement, FS_CardinalityType
  <1>3. Cardinality(N1) <= Cardinality(N \ {i}) /\ Cardinality(N1) \in Nat
    <2> HIDE DEF N, N1
    <2> QED BY <1>1, <1>2, FS_Subset, FS_CardinalityType
  <1>4. Free(t) = Free(s) \ {b}
    BY <1>0 DEF Free, Grabs
  <1>5. IsFiniteSet(Free(s)) /\ Cardinality(Free(s)) \in Nat
    BY BlockFacts DEF Free
  <1>6. Cardinality(Free(t)) = IF b \in Free(s) THEN Cardinality(Free(s)) - 1
                               ELSE Cardinality(Free(s))
    BY <1>4, <1>5, FS_RemoveElement
  <1>7. CASE s.ref[b] = 0
    <2>1. Needs(s, hs, i)
      BY <1>7 DEF Needs, Holders, Grabs
    <2>2. i \in N
      BY <2>1 DEF NeedsFrom
    <2> HIDE DEF N, N1
    <2> QED BY <1>2, <1>3, <1>5, <1>6, <2>2 DEF N, N1
  <1>8. CASE s.ref[b] # 0
    <2>1. b \notin Free(s)
      BY <1>8 DEF Free
    <2>2. Cardinality(N) <= Cardinality(Free(s))
      OBVIOUS
    <2>3. Cardinality(N1) <= Cardinality(Free(t))
      <3> HIDE DEF N, N1
      <3> QED BY <1>2, <1>3, <1>5, <1>6, <2>1, <2>2
    <2> QED BY <2>3
  <1> QED BY <1>7, <1>8

\* One more block is taken.
LEMMA TakenStep ==
    ASSUME NEW s0, StateOK(s0), NEW hs, NEW n \in Nat, HashList(hs, n),
           NEW i \in 1..n, NEW a, Partial(s0, a, hs, i - 1, n), a.s.ok,
           NEW r \in Allocs, StateOK(r.s),
           NEW b \in Blocks, r.table = Append(a.table, b), Grabs(a.s, r.s, hs[i], b)
    PROVE  Taken(s0, r, hs, i, n) /\ b \notin ToSet(a.table)
  <1> DEFINE s == a.s
             t == r.s
             h == hs[i]
  <1>1. /\ a \in Allocs /\ a.table \in Seq(Blocks) /\ Taken(s0, a, hs, i - 1, n)
        /\ s.ref \in [Blocks -> Nat] /\ s.hash \in [Blocks -> Hashes \cup {NoHash}]
        /\ s.last \in [Blocks -> Int] /\ s0.ref \in [Blocks -> Nat] /\ Unique(s) /\ StateOK(s)
    BY StateFields DEF Partial, Allocs
  <1>0. \A d \in Blocks :
           /\ t.ref[d] = (IF d = b THEN s.ref[d] + 1 ELSE s.ref[d])
           /\ t.hash[d] = (IF d = b THEN h ELSE s.hash[d])
           /\ s.ref[b] # 0 \/ d # b => t.last[d] = s.last[d]
    <2>1. /\ t.ref = [s.ref EXCEPT ![b] = s.ref[b] + 1] /\ t.hash = [s.hash EXCEPT ![b] = h]
          /\ t.last = [s.last EXCEPT ![b] = IF s.ref[b] = 0 THEN NoStamp ELSE s.last[b]]
      BY Zenon DEF Grabs
    <2>2. DOMAIN s.ref = Blocks /\ DOMAIN s.hash = Blocks /\ DOMAIN s.last = Blocks
      BY <1>1
    <2> HIDE DEF s, t, h
    <2> QED BY <2>1, <2>2
  <1>2. Len(a.table) = i - 1 /\ \A p \in 1..(i - 1) : s.hash[a.table[p]] = hs[p]
    BY <1>1 DEF Taken
  <1>3. DOMAIN a.table = 1..(i - 1) /\ \A p \in 1..(i - 1) : a.table[p] \in Blocks
    BY <1>1, <1>2
  <1>4. Len(r.table) = i /\ r.table[i] = b /\ DOMAIN r.table = 1..i
        /\ \A p \in 1..(i - 1) : r.table[p] = a.table[p]
    BY <1>1, <1>2
  <1>5. ToSet(r.table) = ToSet(a.table) \cup {b}
    <2>1. \A p \in 1..i : p = i \/ p \in 1..(i - 1)
      OBVIOUS
    <2>2. i \in 1..i /\ \A p \in 1..(i - 1) : p \in 1..i
      OBVIOUS
    <2>3. ASSUME NEW x \in ToSet(r.table) PROVE x \in ToSet(a.table) \cup {b}
      <3>1. PICK p \in 1..i : x = r.table[p]
        BY <1>4 DEF ToSet
      <3> QED BY <1>3, <1>4, <2>1, <3>1 DEF ToSet
    <2>4. ASSUME NEW x \in ToSet(a.table) PROVE x \in ToSet(r.table)
      <3>1. PICK p \in 1..(i - 1) : x = a.table[p]
        BY <1>3 DEF ToSet
      <3> QED BY <1>4, <2>2, <3>1 DEF ToSet
    <2>5. b \in ToSet(r.table)
      BY <1>4, <2>2 DEF ToSet
    <2> QED BY <2>3, <2>4, <2>5
  <1>6. \A p \in 1..(i - 1) : hs[p] # hs[i]
    BY DEF HashList
  <1>7. ASSUME NEW p \in 1..(i - 1) PROVE a.table[p] # b
    <2>1. a.table[p] \in ToSet(a.table) /\ a.table[p] \in Blocks
      BY <1>3 DEF ToSet
    <2>2. s.ref[a.table[p]] = s0.ref[a.table[p]] + 1
      BY <1>1, <2>1 DEF Taken
    <2>3. s.ref[a.table[p]] # 0
      BY <1>1, <2>1, <2>2
    <2>4. s.hash[a.table[p]] # h
      BY <1>2, <1>6
    <2> QED BY <2>3, <2>4 DEF Grabs
  <1>8. b \notin ToSet(a.table)
    BY <1>3, <1>7 DEF ToSet
  <1>9. \A p \in 1..i : t.hash[r.table[p]] = hs[p]
    <2>1. t.hash[b] = h
      BY <1>0
    <2>2. ASSUME NEW p \in 1..(i - 1) PROVE t.hash[a.table[p]] = hs[p]
      BY <1>0, <1>2, <1>3, <1>7
    <2>3. \A p \in 1..i : p = i \/ p \in 1..(i - 1)
      OBVIOUS
    <2> QED BY <1>4, <2>1, <2>2, <2>3
  <1>10. ASSUME NEW d \in Blocks
         PROVE  t.ref[d] = s0.ref[d] + (IF d \in ToSet(r.table) THEN 1 ELSE 0)
    <2>1. s.ref[d] = s0.ref[d] + (IF d \in ToSet(a.table) THEN 1 ELSE 0)
      BY <1>1 DEF Taken
    <2>2. t.ref[d] = IF d = b THEN s.ref[d] + 1 ELSE s.ref[d]
      BY <1>0
    <2>3. s0.ref[d] \in Nat
      BY <1>1
    <2> HIDE DEF s, t
    <2> QED BY <1>5, <1>8, <2>1, <2>2, <2>3
  <1>11. ASSUME NEW d \in Blocks, s0.ref[d] # 0
         PROVE  t.hash[d] = s0.hash[d] /\ t.last[d] = s0.last[d]
    <2>1. s.hash[d] = s0.hash[d] /\ s.last[d] = s0.last[d]
      BY <1>1, <1>11 DEF Taken
    <2>2. s.ref[d] # 0
      <3>1. s.ref[d] = s0.ref[d] + (IF d \in ToSet(a.table) THEN 1 ELSE 0)
        BY <1>1 DEF Taken
      <3>2. s0.ref[d] \in Nat
        BY <1>1
      <3> HIDE DEF s
      <3> QED BY <1>11, <3>1, <3>2
    <2>3. CASE d = b
      <3>1. t.hash[b] = h /\ t.last[b] = s.last[b]
        BY <1>0, <2>2, <2>3
      <3>2. s.hash[b] = h
        BY <2>2, <2>3 DEF Grabs
      <3> QED BY <2>1, <2>3, <3>1, <3>2
    <2>4. CASE d # b
      <3>1. t.hash[d] = s.hash[d] /\ t.last[d] = s.last[d]
        BY <1>0, <2>4
      <3> QED BY <2>1, <3>1
    <2> QED BY <2>3, <2>4
  <1>12. Private(t)
    <2> SUFFICES ASSUME NEW d \in Blocks, t.hash[d] = NoHash PROVE t.ref[d] <= 1
      BY DEF Private
    <2>1. CASE d = b
      <3>1. t.ref[b] = s.ref[b] + 1 /\ t.hash[b] = h
        BY <1>0
      <3>2. s.ref[b] = 0
        BY <2>1, <3>1 DEF Grabs
      <3> QED BY <2>1, <3>1, <3>2
    <2>2. CASE d # b
      <3>1. t.ref[d] = s.ref[d] /\ t.hash[d] = s.hash[d]
        BY <1>0, <2>2
      <3>2. Private(s)
        BY <1>1 DEF Taken
      <3> QED BY <3>1, <3>2 DEF Private
    <2> QED BY <2>1, <2>2
  <1>13. Cardinality(NeedsFrom(t, hs, i, n)) <= Cardinality(Free(t))
    <2>1. Cardinality(NeedsFrom(s, hs, i - 1, n)) <= Cardinality(Free(s))
      BY <1>1 DEF Taken
    <2> QED BY <1>1, <2>1, RoomKept
  <1> QED BY <1>4, <1>8, <1>9, <1>10, <1>11, <1>12, <1>13 DEF Taken

\* allocate is such a run, behind can_allocate.
LEMMA AllocateRuns ==
    ASSUME NEW s0, StateOK(s0), Covers(s0), Unique(s0), Private(s0), s0.ok,
           NEW n \in Nat, NEW hs, HashList(hs, n),
           Cardinality(NeedsFrom(s0, hs, 0, n)) <= Cardinality(Free(s0))
    PROVE  \E run : AllocRun(run, s0, hs, n)
  <1> DEFINE a0 == [s |-> s0, table |-> <<>>]
  <1>1. PICK run : Allocating!Runs(run, n, a0, hs)
    <2>1. DOMAIN hs = 1..n
      BY DEF HashList
    <2> QED BY <2>1, Allocating!FoldRun
  <1>2. Allocate(s0, hs) = Allocating!Fold(a0, hs)
    BY DEF Allocate, Allocating!Fold, FoldLeft, MapThenFoldSet, Allocating!FoldLeft,
           Allocating!MapThenFoldSet, Allocating!Max, Max
  <1>3. /\ run[0] = a0 /\ run[n] = Allocate(s0, hs)
        /\ \A i \in 1..n : run[i] = AllocateBlock(run[i - 1], hs[i])
    BY <1>1, <1>2 DEF Allocating!Runs
  <1> DEFINE S == {i \in 0..n : Partial(s0, run[i], hs, i, n)}
  <1>4. Partial(s0, run[0], hs, 0, n)
    <2>1. a0 \in Allocs /\ a0.s = s0 /\ a0.table = <<>>
      BY StateFields DEF Allocs
    <2>2. s0.ref \in [Blocks -> Nat]
      BY StateFields
    <2>3. ToSet(<<>>) = {} /\ Len(<<>>) = 0 /\ 1..0 = {}
      BY DEF ToSet
    <2> HIDE DEF a0
    <2>4. Taken(s0, a0, hs, 0, n)
      BY <2>1, <2>2, <2>3 DEF Taken
    <2> QED BY <1>3, <2>1, <2>4 DEF Partial
  <1>5. ASSUME NEW i \in 1..n, Partial(s0, run[i - 1], hs, i - 1, n)
        PROVE  Partial(s0, run[i], hs, i, n) /\ AllocStep(run[i - 1], run[i], hs[i])
    <2> DEFINE a == run[i - 1]
               r == run[i]
    <2>1. r = AllocateBlock(a, hs[i])
      BY <1>3
    <2>2. a \in Allocs /\ StateOK(a.s) /\ Covers(a.s) /\ Unique(a.s)
      BY <1>5 DEF Partial
    <2>3. CASE ~a.s.ok
      <3>1. r = a
        BY <2>1, <2>3 DEF AllocateBlock
      <3> QED BY <2>2, <2>3, <3>1 DEF Partial, AllocStep
    <2>4. CASE a.s.ok
      <3>0. Partial(s0, a, hs, i - 1, n)
        BY <1>5
      <3> HIDE DEF a, r
      <3>1. Cardinality(NeedsFrom(a.s, hs, i - 1, n)) <= Cardinality(Free(a.s))
        BY <2>4, <3>0 DEF Partial, Taken
      <3>2. Needs(a.s, hs, i) => Free(a.s) # {}
        BY <3>1, RoomLeft
      <3>3. hs[i] \in Hashes \cup {NoHash}
        BY DEF HashList
      <3>4. /\ r \in Allocs /\ StateOK(r.s) /\ Covers(r.s) /\ Unique(r.s)
            /\ \/ r.table = a.table /\ Fails(a.s, r.s)
               \/ \E b \in Blocks : r.table = Append(a.table, b)
                                    /\ Grabs(a.s, r.s, hs[i], b)
        BY <2>1, <2>2, <2>4, <3>2, <3>3, AllocateBlockFacts DEF Needs
      <3>5. CASE r.table = a.table /\ Fails(a.s, r.s)
        <4>1. r.s.ok = FALSE
          BY <2>2, <3>4, <3>5, FailKeeps
        <4> QED BY <2>4, <3>4, <3>5, <4>1 DEF Partial, AllocStep, a, r
      <3>6. CASE \E b \in Blocks : r.table = Append(a.table, b)
                                   /\ Grabs(a.s, r.s, hs[i], b)
        <4>1. PICK b \in Blocks : r.table = Append(a.table, b) /\ Grabs(a.s, r.s, hs[i], b)
          BY <3>6
        <4>2. Taken(s0, r, hs, i, n)
          BY <2>4, <3>0, <3>4, <4>1, TakenStep
        <4> QED BY <2>4, <3>4, <3>6, <4>2 DEF Partial, AllocStep, a, r
      <3> QED BY <3>4, <3>5, <3>6
    <2> QED BY <2>3, <2>4
  <1>6. \A i \in 0..n : i \in S
    <2>1. 0 \in S
      BY <1>4
    <2>2. \A i \in 1..n : i - 1 \in S => i \in S
      BY <1>5
    <2> HIDE DEF S
    <2> QED BY <2>1, <2>2, UpTo
  <1>7. \A i \in 1..n : AllocStep(run[i - 1], run[i], hs[i])
    <2>1. \A i \in 1..n : i - 1 \in 0..n
      OBVIOUS
    <2> QED BY <1>5, <1>6, <2>1
  <1>8. \A i \in 0..n : Partial(s0, run[i], hs, i, n)
    BY <1>6
  <1> QED BY <1>3, <1>7, <1>8 DEF AllocRun
-----------------------------------------------------------------------------
(***************************************************************************)
(* Freeing a table.                                                        *)
(***************************************************************************)
Freeing == INSTANCE Induction WITH Combine <- FreeBlock

\* The blocks of E lose a reference; entries are added for free blocks only.
Frees(s, r, E) ==
    /\ StateOK(r) /\ Covers(r)
    /\ r.hash = s.hash /\ r.last = s.last /\ r.ok = s.ok
    /\ \A b \in Blocks : r.ref[b] = s.ref[b] - (IF b \in E THEN 1 ELSE 0)
    /\ \A e \in DOMAIN r.heap : e \in DOMAIN s.heap \/ \E d \in FreeTable(r) : e = Entry(r, d)

\* _free_block_id.
LEMMA FreeBlockFacts ==
    ASSUME NEW s, StateOK(s), Covers(s), NEW b \in Blocks, s.ref[b] # 0
    PROVE  Frees(s, FreeBlock(s, b), {b})
  <1> DEFINE t == [s EXCEPT !.ref[b] = @ - 1]
             r == FreeBlock(s, b)
  <1>1. s \in State /\ s.ref \in [Blocks -> Nat] /\ IsFiniteSet(DOMAIN s.heap)
    BY StateFields
  <1>2. s.ref[b] - 1 \in Nat
    BY <1>1
  <1>3. /\ t.ref = [s.ref EXCEPT ![b] = s.ref[b] - 1]
        /\ t.hash = s.hash /\ t.last = s.last /\ t.heap = s.heap /\ t.ok = s.ok
    BY <1>1 DEF State
  <1>4. t \in State
    BY <1>1, <1>2 DEF State
  <1>5. r = IF t.ref[b] = 0 /\ t.hash[b] # NoHash THEN Add(t, b) ELSE t
    BY DEF FreeBlock
  <1> HIDE DEF t, r
  <1>6. StateOK(t)
    BY <1>1, <1>3, <1>4 DEF StateOK
  <1>7. \A d \in Blocks : t.ref[d] = s.ref[d] - (IF d \in {b} THEN 1 ELSE 0)
    BY <1>1, <1>3
  <1>8. ASSUME NEW d \in FreeTable(t), d # b
        PROVE  Entry(t, d) \in DOMAIN t.heap
    <2>1. d \in FreeTable(s) /\ Entry(s, d) = Entry(t, d)
      BY <1>1, <1>3, <1>8 DEF FreeTable, Free, Entry
    <2> QED BY <1>3, <2>1 DEF Covers
  <1>9. CASE b \in FreeTable(t)
    <2>1. r = Add(t, b)
      BY <1>5, <1>9 DEF FreeTable, Free
    <2>2. /\ StateOK(r)
          /\ r.ref = t.ref /\ r.hash = t.hash /\ r.last = t.last /\ r.ok = t.ok
          /\ Entry(t, b) \in DOMAIN r.heap
          /\ \A d \in FreeTable(t) :
                Entry(t, d) \in DOMAIN t.heap => Entry(t, d) \in DOMAIN r.heap
          /\ \A e \in DOMAIN r.heap : e \in DOMAIN t.heap
                \/ \E d \in FreeTable(t) : e = Entry(t, d)
      BY <1>6, <1>9, <2>1, AddFacts
    <2>3. FreeTable(r) = FreeTable(t) /\ \A d \in FreeTable(t) : Entry(r, d) = Entry(t, d)
      BY <2>2 DEF FreeTable, Free, Entry
    <2>4. Covers(r)
      BY <1>8, <2>2, <2>3 DEF Covers
    <2> QED BY <1>3, <1>7, <2>2, <2>3, <2>4 DEF Frees, r
  <1>10. CASE b \notin FreeTable(t)
    <2>1. r = t
      BY <1>5, <1>10 DEF FreeTable, Free
    <2>2. Covers(t)
      BY <1>8, <1>10 DEF Covers
    <2> QED BY <1>3, <1>6, <1>7, <2>1, <2>2 DEF Frees, r
  <1> QED BY <1>9, <1>10

\* FreeAll, for a table of different blocks in use.
LEMMA FreeAllFacts ==
    ASSUME NEW s, StateOK(s), Covers(s), NEW n \in Nat, NEW t \in [1..n -> Blocks],
           \A p, q \in 1..n : t[p] = t[q] => p = q,
           \A p \in 1..n : s.ref[t[p]] # 0
    PROVE  Frees(s, FreeAll(s, t), ToSet(t))
  <1>1. PICK run : Freeing!Runs(run, n, s, t)
    <2>1. DOMAIN t = 1..n
      OBVIOUS
    <2> QED BY <2>1, Freeing!FoldRun
  <1>2. FreeAll(s, t) = Freeing!Fold(s, t)
    BY DEF FreeAll, Freeing!Fold, FoldLeft, MapThenFoldSet, Freeing!FoldLeft,
           Freeing!MapThenFoldSet, Freeing!Max, Max
  <1>3. /\ run[0] = s /\ run[n] = FreeAll(s, t)
        /\ \A i \in 1..n : run[i] = FreeBlock(run[i - 1], t[i])
    BY <1>1, <1>2 DEF Freeing!Runs
  <1> DEFINE done(i) == {t[p] : p \in 1..i}
             S == {i \in 0..n : Frees(s, run[i], done(i))}
  <1>4. s.ref \in [Blocks -> Nat]
    BY StateFields
  <1>5. Frees(s, run[0], done(0))
    <2>1. done(0) = {}
      OBVIOUS
    <2> HIDE DEF done
    <2> QED BY <1>3, <1>4, <2>1 DEF Frees
  <1>6. ASSUME NEW i \in 1..n, Frees(s, run[i - 1], done(i - 1))
        PROVE  Frees(s, run[i], done(i))
    <2> DEFINE x == run[i - 1]
               r == run[i]
    <2>1. r = FreeBlock(x, t[i]) /\ t[i] \in Blocks
      BY <1>3
    <2>2. /\ StateOK(x) /\ Covers(x) /\ x.hash = s.hash /\ x.last = s.last /\ x.ok = s.ok
          /\ \A b \in Blocks : x.ref[b] = s.ref[b] - (IF b \in done(i - 1) THEN 1 ELSE 0)
          /\ \A e \in DOMAIN x.heap : e \in DOMAIN s.heap
                \/ \E d \in FreeTable(x) : e = Entry(x, d)
      BY <1>6 DEF Frees
    <2>3. t[i] \notin done(i - 1)
      <3>1. \A p \in 1..(i - 1) : p \in 1..n /\ p # i
        OBVIOUS
      <3> QED BY <3>1
    <2>4. done(i) = done(i - 1) \cup {t[i]}
      <3>1. 1..i = (1..(i - 1)) \cup {i}
        OBVIOUS
      <3> QED BY <3>1
    <2> HIDE DEF done, x, r
    <2>5. x.ref[t[i]] # 0
      BY <1>4, <2>1, <2>2, <2>3
    <2>6. Frees(x, r, {t[i]})
      BY <2>1, <2>2, <2>5, FreeBlockFacts
    <2>7. ASSUME NEW b \in Blocks
          PROVE  r.ref[b] = s.ref[b] - (IF b \in done(i) THEN 1 ELSE 0)
      <3>1. r.ref[b] = x.ref[b] - (IF b \in {t[i]} THEN 1 ELSE 0)
        BY <2>6 DEF Frees
      <3>2. x.ref[b] = s.ref[b] - (IF b \in done(i - 1) THEN 1 ELSE 0)
        BY <2>2
      <3>3. s.ref[b] \in Nat
        BY <1>4
      <3> QED BY <2>3, <2>4, <3>1, <3>2, <3>3
    <2>8. ASSUME NEW d \in FreeTable(x) PROVE d \in FreeTable(r) /\ Entry(r, d) = Entry(x, d)
      <3>1. d \in Blocks /\ x.ref[d] = 0 /\ x.hash[d] # NoHash
        BY <2>8 DEF FreeTable, Free
      <3>2. d # t[i]
        BY <2>5, <3>1
      <3>3. r.ref[d] = 0
        BY <2>6, <3>1, <3>2 DEF Frees
      <3>4. r.hash = x.hash /\ r.last = x.last
        BY <2>6 DEF Frees
      <3> QED BY <3>1, <3>3, <3>4 DEF FreeTable, Free, Entry
    <2>9. ASSUME NEW e \in DOMAIN r.heap
          PROVE  e \in DOMAIN s.heap \/ \E d \in FreeTable(r) : e = Entry(r, d)
      <3>1. e \in DOMAIN x.heap \/ \E d \in FreeTable(r) : e = Entry(r, d)
        BY <2>6 DEF Frees
      <3>2. e \in DOMAIN x.heap => e \in DOMAIN s.heap \/ \E d \in FreeTable(x) : e = Entry(x, d)
        BY <2>2
      <3> QED BY <2>8, <3>1, <3>2
    <2>10. StateOK(r) /\ Covers(r) /\ r.hash = s.hash /\ r.last = s.last /\ r.ok = s.ok
      BY <2>2, <2>6 DEF Frees
    <2> QED BY <2>7, <2>9, <2>10 DEF Frees, r
  <1> HIDE DEF done
  <1>7. \A i \in 0..n : i \in S
    <2>1. 0 \in S
      BY <1>5
    <2>2. \A i \in 1..n : i - 1 \in S => i \in S
      BY <1>6
    <2> HIDE DEF S
    <2> QED BY <2>1, <2>2, UpTo
  <1>8. Frees(s, run[n], done(n))
    BY <1>7
  <1>9. done(n) = ToSet(t)
    BY DEF ToSet, done
  <1> QED BY <1>3, <1>8, <1>9

\* The blocks of E are stamped v and then freed.
Releases(s, r, E, v) ==
    /\ StateOK(r) /\ Covers(r) /\ r.hash = s.hash /\ r.ok = s.ok
    /\ \A b \in Blocks : r.last[b] = IF b \in E THEN v ELSE s.last[b]
    /\ \A b \in Blocks : r.ref[b] = s.ref[b] - (IF b \in E THEN 1 ELSE 0)
    /\ \A e \in DOMAIN r.heap : e \in DOMAIN s.heap \/ \E d \in FreeTable(r) : e = Entry(r, d)

\* mark_blocks_as_accessed, then free.
LEMMA ReleaseFacts ==
    ASSUME NEW s, StateOK(s), Covers(s), NEW n \in Nat, NEW t \in [1..n -> Blocks],
           \A p, q \in 1..n : t[p] = t[q] => p = q,
           \A p \in 1..n : s.ref[t[p]] # 0, NEW v \in Int
    PROVE  Releases(s, FreeAll(Stamped(s, t, v), t), ToSet(t), v)
  <1> DEFINE z == Stamped(s, t, v)
             f == [b \in Blocks |-> IF b \in ToSet(t) THEN v ELSE s.last[b]]
  <1>1. s \in State /\ s.last \in [Blocks -> Int] /\ IsFiniteSet(DOMAIN s.heap)
    BY StateFields
  <1>2. z = [s EXCEPT !.last = f]
    BY DEF Stamped
  <1>3. f \in [Blocks -> Int] /\ \A b \in Blocks : f[b] = IF b \in ToSet(t) THEN v ELSE s.last[b]
    BY <1>1
  <1> HIDE DEF f, z
  <1>4. /\ z \in State /\ z.last = f /\ z.ref = s.ref /\ z.hash = s.hash
        /\ z.heap = s.heap /\ z.ok = s.ok
    BY <1>1, <1>2, <1>3 DEF State
  <1>5. StateOK(z)
    BY <1>1, <1>4 DEF StateOK
  <1>6. ASSUME NEW d \in FreeTable(z) PROVE Entry(z, d) \in DOMAIN z.heap
    <2>1. d \in FreeTable(s) /\ d \in Blocks /\ s.ref[d] = 0
      BY <1>4, <1>6 DEF FreeTable, Free
    <2>2. d \notin ToSet(t)
      BY <2>1 DEF ToSet
    <2>3. Entry(z, d) = Entry(s, d)
      BY <1>3, <1>4, <2>1, <2>2 DEF Entry
    <2> QED BY <1>4, <2>1, <2>3 DEF Covers
  <1>7. Frees(z, FreeAll(z, t), ToSet(t))
    BY <1>4, <1>5, <1>6, FreeAllFacts DEF Covers
  <1> QED BY <1>3, <1>4, <1>7 DEF Frees, Releases, z
-----------------------------------------------------------------------------
(***************************************************************************)
(* find_cached_blocks_prefix.                                              *)
(***************************************************************************)
Hit(s, c, i) == Holders(s, Hash(c, i)) # {}

\* The answer is a number of leading blocks, and where no miss comes before a
\* hit it is how many of them hit.
LEMMA CachedBlocksFacts ==
    ASSUME NEW s, NEW c, NEW n \in Nat
    PROVE  /\ CachedBlocks(s, c, n) \in 0..n
           /\ (\A j \in 1..n : \A i \in 1..j : Hit(s, c, j) => Hit(s, c, i))
              => \A i \in 1..n : Hit(s, c, i) <=> i <= CachedBlocks(s, c, n)
  <1> DEFINE hits == {i \in 1..n : Hit(s, c, i)}
  <1>1. CachedBlocks(s, c, n) = BisectLeft(hits, n)
    BY DEF CachedBlocks, Hit
  <1>2. \A i \in 1..n : i \in hits <=> Hit(s, c, i)
    OBVIOUS
  <1>3. \A j \in 1..n : \A i \in 1..j : i \in 1..n
    OBVIOUS
  <1> HIDE DEF hits
  <1> QED BY <1>1, <1>2, <1>3, BisectFacts
-----------------------------------------------------------------------------
(***************************************************************************)
(* References and contents.                                                *)
(***************************************************************************)
\* The blocks of a table with an unfinished one, and of one without.
LEMMA HashLists ==
    ASSUME NEW c \in Chains, NEW n \in Nat
    PROVE  /\ n < Depth => HashList(Wanted(c, n), n + 1)
                           /\ \A p \in 1..(n + 1) : Wanted(c, n)[p] = Hash(c, p)
                                 \/ (p = n + 1 /\ Wanted(c, n)[p] = NoHash)
           /\ n <= Depth => HashList([i \in 1..n |-> Hash(c, i)], n)
  <1>1. Depth \in Nat
    BY BlockFacts
  <1>2. ASSUME n < Depth
        PROVE  HashList(Wanted(c, n), n + 1)
               /\ \A p \in 1..(n + 1) : Wanted(c, n)[p] = Hash(c, p)
                     \/ (p = n + 1 /\ Wanted(c, n)[p] = NoHash)
    <2> DEFINE w == Wanted(c, n)
    <2>1. DOMAIN w = 1..(n + 1)
          /\ \A p \in 1..(n + 1) : w[p] = IF p <= n THEN Hash(c, p) ELSE NoHash
      BY DEF Wanted
    <2> HIDE DEF w
    <2>2. ASSUME NEW p \in 1..(n + 1)
          PROVE  /\ (p <= n /\ w[p] = Hash(c, p) /\ w[p] \in Hashes
                     /\ w[p][2] = p /\ w[p] # NoHash)
                    \/ (p = n + 1 /\ w[p] = NoHash)
      <3>1. CASE p <= n
        <4>1. p \in 1..Depth
          BY <1>1, <1>2, <3>1
        <4> QED BY <2>1, <3>1, <4>1, HashFacts
      <3>2. CASE p = n + 1
        <4>1. ~(p <= n)
          BY <3>2
        <4> QED BY <2>1, <3>2, <4>1
      <3> QED BY <3>1, <3>2
    <2>3. HashList(w, n + 1)
      BY <2>1, <2>2 DEF HashList
    <2> QED BY <2>2, <2>3 DEF w
  <1>3. ASSUME n <= Depth PROVE HashList([i \in 1..n |-> Hash(c, i)], n)
    <2> DEFINE w == [i \in 1..n |-> Hash(c, i)]
    <2>1. DOMAIN w = 1..n /\ \A p \in 1..n : w[p] = Hash(c, p)
      OBVIOUS
    <2> HIDE DEF w
    <2>2. \A p \in 1..n : p \in 1..Depth
      BY <1>1, <1>3
    <2>3. \A p \in 1..n : w[p] \in Hashes /\ w[p][2] = p
      BY <2>1, <2>2, HashFacts
    <2> QED BY <2>1, <2>3 DEF HashList, w
  <1> QED BY <1>2, <1>3

\* The blocks of a table are different.
LEMMA TableDistinct ==
    ASSUME NEW s, NEW t \in Seq(Blocks), NEW c, Content(s, t, c)
    PROVE  /\ t \in [1..Len(t) -> Blocks] /\ Len(t) \in Nat
           /\ \A p, q \in 1..Len(t) : t[p] = t[q] => p = q
  <1>1. t \in [1..Len(t) -> Blocks] /\ Len(t) \in Nat
    OBVIOUS
  <1>2. ASSUME NEW p \in 1..Len(t), NEW q \in 1..Len(t), t[p] = t[q] PROVE p = q
    <2>0. t # <<>>
      BY <1>1, <1>2
    <2>1. c \in Chains /\ p \in 1..Depth /\ q \in 1..Depth
      <3>1. c \in Chains /\ Len(t) <= Depth
        BY <2>0 DEF Content
      <3>2. Depth \in Nat
        BY BlockFacts
      <3> QED BY <1>1, <3>1, <3>2
    <2>2. Hash(c, p)[2] = p /\ Hash(c, q)[2] = q /\ Hash(c, p) # NoHash /\ Hash(c, q) # NoHash
      BY <2>1, HashFacts
    <2>3. /\ s.hash[t[p]] = Hash(c, p) \/ (p = Len(t) /\ s.hash[t[p]] = NoHash)
          /\ s.hash[t[q]] = Hash(c, q) \/ (q = Len(t) /\ s.hash[t[q]] = NoHash)
      BY DEF Content
    <2> QED BY <1>2, <2>2, <2>3
  <1> QED BY <1>1, <1>2

\* Sets of clients.
LEMMA ClientSets ==
    /\ IsFiniteSet(Clients)
    /\ \A S \in SUBSET Clients : IsFiniteSet(S) /\ Cardinality(S) \in Nat
  <1>1. IsFiniteSet(Clients)
    BY CacheAssumption
  <1> QED BY <1>1, FS_Subset, FS_CardinalityType

\* A block in a table is in use, and one in use is in a table.
LEMMA HeldInUse ==
    ASSUME NEW s, NEW K \in SUBSET Clients, Refs(s, K, {}), NEW b \in Blocks
    PROVE  s.ref[b] # 0 <=> \E k \in K : b \in Held(k)
  <1> DEFINE S == {k \in K : b \in Held(k)}
  <1>1. S \in SUBSET Clients
    OBVIOUS
  <1>2. IsFiniteSet(S) /\ Cardinality(S) \in Nat /\ (Cardinality(S) = 0 <=> S = {})
    BY <1>1, ClientSets, FS_EmptySet
  <1>3. s.ref[b] = Cardinality(S)
    <2>1. s.ref[b] = Cardinality(S) + (IF b \in {} THEN 1 ELSE 0)
      BY DEF Refs
    <2> HIDE DEF S
    <2> QED BY <1>2, <2>1
  <1> QED BY <1>2, <1>3

\* Counting one client apart from the others.
LEMMA RefsApart ==
    ASSUME NEW s, NEW K \in SUBSET Clients, NEW k \in K
    PROVE  Refs(s, K, {}) <=> Refs(s, K \ {k}, Held(k))
  <1> SUFFICES ASSUME NEW b \in Blocks
               PROVE  Cardinality({j \in K : b \in Held(j)}) + (IF b \in {} THEN 1 ELSE 0)
                      = Cardinality({j \in K \ {k} : b \in Held(j)})
                        + (IF b \in Held(k) THEN 1 ELSE 0)
    BY DEF Refs
  <1> DEFINE S == {j \in K : b \in Held(j)}
             R == {j \in K \ {k} : b \in Held(j)}
  <1>1. R = S \ {k} /\ (k \in S <=> b \in Held(k))
    OBVIOUS
  <1>2. S \in SUBSET Clients
    OBVIOUS
  <1> HIDE DEF S, R
  <1>3. IsFiniteSet(S) /\ Cardinality(S) \in Nat
    BY <1>2, ClientSets
  <1>4. Cardinality(R) = IF k \in S THEN Cardinality(S) - 1 ELSE Cardinality(S)
    BY <1>1, <1>3, FS_RemoveElement
  <1> QED BY <1>1, <1>3, <1>4 DEF S, R

\* allocate, to its end.
LEMMA AllocateEnds ==
    ASSUME NEW s0, StateOK(s0), Covers(s0), Unique(s0), Private(s0), s0.ok,
           NEW n \in Nat, NEW hs, HashList(hs, n),
           Cardinality(NeedsFrom(s0, hs, 0, n)) <= Cardinality(Free(s0))
    PROVE  Partial(s0, Allocate(s0, hs), hs, n, n)
  <1>1. PICK run : AllocRun(run, s0, hs, n)
    BY AllocateRuns
  <1>2. n \in 0..n
    OBVIOUS
  <1> QED BY <1>1, <1>2 DEF AllocRun

\* can_allocate counts the blocks that are not in use.
LEMMA NeededFrom ==
    ASSUME NEW n \in Nat, NEW hs, HashList(hs, n)
    PROVE  Needed(hs) = Cardinality(NeedsFrom(m, hs, 0, n))
  <1>1. DOMAIN hs = 1..n /\ (0 + 1)..n = 1..n
    BY DEF HashList
  <1> QED BY <1>1 DEF Needed, NeedsFrom, Needs
-----------------------------------------------------------------------------
(***************************************************************************)
(* CacheInv is inductive.                                                  *)
(***************************************************************************)
\* What CacheInv says of the present state.
LEMMA CacheFacts ==
    ASSUME CacheInv
    PROVE  /\ StateOK(m) /\ Covers(m) /\ Unique(m) /\ tables \in [Clients -> Tables]
           /\ \A k \in Clients : tables[k].blocks \in Seq(Blocks)
                                 /\ Held(k) \subseteq Blocks
                                 /\ tables[k].stamp \in Int
           /\ m.ok => Refs(m, Clients, {}) /\ Private(m) /\ Contents(m)
  <1>1. tables \in [Clients -> Tables]
    BY DEF CacheInv
  <1>2. \A k \in Clients : tables[k].blocks \in Seq(Blocks) /\ tables[k].stamp \in Int
    BY <1>1 DEF Tables
  <1>3. \A t \in Seq(Blocks) : ToSet(t) \subseteq Blocks
    BY DEF ToSet
  <1> QED BY <1>1, <1>2, <1>3 DEF CacheInv, Held

\* The contents of tables, for a state where the blocks in use are as they were.
LEMMA ContentsKept ==
    ASSUME CacheInv, m.ok, NEW s,
           \A b \in Blocks : m.ref[b] # 0 => s.hash[b] = m.hash[b]
    PROVE  Contents(s)
  <1> SUFFICES ASSUME NEW k \in Clients
               PROVE  Content(s, tables[k].blocks, tables[k].chain)
    BY DEF Contents
  <1> DEFINE t == tables[k].blocks
  <1>1. t \in Seq(Blocks) /\ Content(m, t, tables[k].chain) /\ Refs(m, Clients, {})
    BY CacheFacts DEF Contents
  <1>2. ASSUME NEW p \in 1..Len(t) PROVE s.hash[t[p]] = m.hash[t[p]]
    <2>1. t[p] \in Blocks /\ t[p] \in Held(k)
      BY <1>1 DEF ToSet, Held
    <2>2. m.ref[t[p]] # 0
      BY <1>1, <2>1, HeldInUse
    <2> QED BY <2>1, <2>2
  <1> HIDE DEF t
  <1> QED BY <1>1, <1>2 DEF Content, t

\* A new table.
LEMMA CacheGetsTable ==
    ASSUME CacheInv, m.ok, NEW k \in Clients, tables[k] = NoTable,
           NEW c \in Chains, NEW n \in Nat, n <= Depth, NEW hs, HashList(hs, n),
           \A p \in 1..n : hs[p] = Hash(c, p) \/ (p = n /\ hs[p] = NoHash),
           Needed(hs) <= Cardinality(Free(m)), NEW v \in Int,
           m' = Allocate(m, hs).s,
           tables' = IF Allocate(m, hs).s.ok
                     THEN [tables EXCEPT ![k] = [blocks |-> Allocate(m, hs).table,
                                                 chain |-> c, stamp |-> v]]
                     ELSE tables,
           UNCHANGED <<kinds, clock>>
    PROVE  CacheInv'
  <1> DEFINE a == Allocate(m, hs)
  <1>1. /\ StateOK(m) /\ Covers(m) /\ Unique(m) /\ tables \in [Clients -> Tables]
        /\ Refs(m, Clients, {}) /\ Private(m) /\ Contents(m)
    BY CacheFacts
  <1>2. Partial(m, a, hs, n, n)
    BY <1>1, AllocateEnds, NeededFrom
  <1>3. a \in Allocs /\ StateOK(m') /\ Covers(m') /\ Unique(m')
    BY <1>2 DEF Partial
  <1>4. CASE ~a.s.ok
    <2>1. tables' = tables /\ ~m'.ok
      BY <1>4
    <2> QED BY <1>1, <1>3, <2>1 DEF CacheInv
  <1>5. CASE a.s.ok
    <2> DEFINE new == [blocks |-> a.table, chain |-> c, stamp |-> v]
    <2>1. tables' = [tables EXCEPT ![k] = new] /\ m' = a.s
      BY <1>5
    <2>2. Taken(m, a, hs, n, n)
      BY <1>2, <1>5 DEF Partial
    <2>3. a.table \in Seq(Blocks) /\ new \in Tables
      BY <1>3 DEF Allocs, Tables
    <2>4. tables' \in [Clients -> Tables] /\ tables'[k] = new
          /\ \A j \in Clients : j # k => tables'[j] = tables[j]
      BY <1>1, <2>1, <2>3
    <2>5. Held(k)' = ToSet(a.table) /\ Held(k) = {}
          /\ \A j \in Clients : j # k => Held(j)' = Held(j)
      BY <2>4 DEF Held, NoTable, ToSet
    <2> HIDE DEF a, new
    <2>6. ASSUME NEW b \in Blocks
          PROVE  m'.ref[b] = Cardinality({j \in Clients : b \in Held(j)'})
                             + (IF b \in {} THEN 1 ELSE 0)
      <3> DEFINE S == {j \in Clients : b \in Held(j)}
                 R == {j \in Clients : b \in Held(j)'}
      <3>1. m'.ref[b] = m.ref[b] + (IF b \in ToSet(a.table) THEN 1 ELSE 0)
        BY <2>1, <2>2 DEF Taken
      <3>2. m.ref[b] = Cardinality(S) + (IF b \in {} THEN 1 ELSE 0)
        BY <1>1 DEF Refs
      <3>3. R = IF b \in ToSet(a.table) THEN S \cup {k} ELSE S
        BY <2>5
      <3>4. k \notin S /\ S \in SUBSET Clients
        BY <2>5
      <3> HIDE DEF S
      <3>5. IsFiniteSet(S) /\ Cardinality(S) \in Nat /\ Cardinality(S \cup {k}) = Cardinality(S) + 1
        BY <3>4, ClientSets, FS_AddElement
      <3> HIDE DEF R
      <3>6. m'.ref[b] = Cardinality(R)
        BY <3>1, <3>2, <3>3, <3>5
      <3>7. Cardinality(R) \in Nat
        BY <3>3, <3>5
      <3> QED BY <3>6, <3>7 DEF R
    <2>7. Refs(m, Clients, {})'
      BY <2>6 DEF Refs
    <2>8. Private(m')
      BY <2>1, <2>2 DEF Taken
    <2>9. Contents(m)'
      <3>1. Contents(m')
        BY <2>1, <2>2, ContentsKept DEF Taken
      <3>2. Content(m', a.table, c)
        BY <2>1, <2>2 DEF Content, Taken
      <3>3. ASSUME NEW j \in Clients
            PROVE  Content(m', tables'[j].blocks, tables'[j].chain)
        <4>1. CASE j = k
          BY <2>4, <3>2, <4>1 DEF new
        <4>2. CASE j # k
          BY <2>4, <3>1, <4>2 DEF Contents
        <4> QED BY <4>1, <4>2
      <3> QED BY <3>3 DEF Contents
    <2> QED BY <1>1, <1>3, <2>4, <2>7, <2>8, <2>9 DEF CacheInv
  <1> QED BY <1>4, <1>5

\* The tables of the clients in D have been freed, each with its stamp.
Freed(r, D) ==
    /\ StateOK(r) /\ Covers(r) /\ r.hash = m.hash /\ r.ok = m.ok
    /\ Refs(r, Clients \ D, {})
    /\ \A b \in Blocks : r.ref[b] <= m.ref[b]
    /\ \A b \in Blocks : \/ r.last[b] = m.last[b] /\ \A k \in D : b \notin Held(k)
                         \/ \E k \in D : b \in Held(k) /\ r.last[b] = Bound(k)
    /\ \A e \in DOMAIN r.heap : e \in DOMAIN m.heap \/ \E d \in FreeTable(r) : e = Entry(r, d)

\* Another table is freed.
LEMMA FreedStep ==
    ASSUME CacheInv, m.ok, NEW D \in SUBSET Clients, NEW k \in Clients \ D,
           NEW s, Freed(s, D), Bound(k) \in Int
    PROVE  Freed(FreeAll(Stamped(s, tables[k].blocks, Bound(k)), tables[k].blocks),
                 D \cup {k})
  <1> DEFINE t == tables[k].blocks
             r == FreeAll(Stamped(s, t, Bound(k)), t)
             K == Clients \ D
  <1>1. t \in Seq(Blocks) /\ Content(m, t, tables[k].chain) /\ Held(k) = ToSet(t)
    BY CacheFacts DEF Contents, Held
  <1>2. /\ t \in [1..Len(t) -> Blocks] /\ Len(t) \in Nat
        /\ \A p, q \in 1..Len(t) : t[p] = t[q] => p = q
    BY <1>1, TableDistinct
  <1>3. /\ StateOK(s) /\ Covers(s) /\ s.hash = m.hash /\ s.ok = m.ok /\ Refs(s, K, {})
        /\ s.ref \in [Blocks -> Nat] /\ m.ref \in [Blocks -> Nat]
    BY CacheFacts, StateFields DEF Freed
  <1>4. K \in SUBSET Clients /\ k \in K
    OBVIOUS
  <1>5. \A b \in Blocks : b \in Held(k) => s.ref[b] # 0
    <2> HIDE DEF K
    <2> QED BY <1>3, <1>4, HeldInUse
  <1>6. \A p \in 1..Len(t) : s.ref[t[p]] # 0
    BY <1>1, <1>2, <1>5 DEF ToSet
  <1>7. Releases(s, r, Held(k), Bound(k))
    <2> DEFINE n == Len(t)
               v == Bound(k)
    <2>1. /\ n \in Nat /\ t \in [1..n -> Blocks] /\ v \in Int
          /\ \A p, q \in 1..n : t[p] = t[q] => p = q
          /\ \A p \in 1..n : s.ref[t[p]] # 0
      BY <1>2, <1>6
    <2> HIDE DEF t, n, v
    <2>2. Releases(s, FreeAll(Stamped(s, t, v), t), ToSet(t), v)
      BY <1>3, <2>1, ReleaseFacts
    <2> QED BY <1>1, <2>2 DEF v
  <1> HIDE DEF r, t
  <1>8. Refs(r, Clients \ (D \cup {k}), {})
    <2>1. Refs(s, K \ {k}, Held(k))
      <3> HIDE DEF K
      <3> QED BY <1>3, <1>4, RefsApart
    <2>2. K \ {k} = Clients \ (D \cup {k})
      OBVIOUS
    <2>3. ASSUME NEW b \in Blocks
          PROVE  r.ref[b] = Cardinality({j \in K \ {k} : b \in Held(j)})
                            + (IF b \in {} THEN 1 ELSE 0)
      <3> DEFINE N == Cardinality({j \in K \ {k} : b \in Held(j)})
      <3>1. s.ref[b] = N + (IF b \in Held(k) THEN 1 ELSE 0)
        BY <2>1 DEF Refs
      <3>2. r.ref[b] = s.ref[b] - (IF b \in Held(k) THEN 1 ELSE 0)
        BY <1>7 DEF Releases
      <3>3. N \in Nat
        <4>1. {j \in K \ {k} : b \in Held(j)} \in SUBSET Clients
          OBVIOUS
        <4> QED BY <4>1, ClientSets
      <3> HIDE DEF N
      <3>4. r.ref[b] = N + (IF b \in {} THEN 1 ELSE 0)
        BY <3>1, <3>2, <3>3
      <3> QED BY <3>4 DEF N
    <2> QED BY <2>2, <2>3 DEF Refs
  <1>9. ASSUME NEW b \in Blocks PROVE r.ref[b] <= m.ref[b]
    <2>1. s.ref[b] <= m.ref[b] /\ s.ref[b] \in Nat /\ m.ref[b] \in Nat
      BY <1>3 DEF Freed
    <2>2. r.ref[b] = s.ref[b] - (IF b \in Held(k) THEN 1 ELSE 0)
      BY <1>7 DEF Releases
    <2> QED BY <2>1, <2>2
  <1>10. ASSUME NEW b \in Blocks
         PROVE  \/ r.last[b] = m.last[b] /\ \A j \in D \cup {k} : b \notin Held(j)
                \/ \E j \in D \cup {k} : b \in Held(j) /\ r.last[b] = Bound(j)
    <2>1. r.last[b] = IF b \in Held(k) THEN Bound(k) ELSE s.last[b]
      BY <1>7 DEF Releases
    <2>2. \/ s.last[b] = m.last[b] /\ \A j \in D : b \notin Held(j)
          \/ \E j \in D : b \in Held(j) /\ s.last[b] = Bound(j)
      BY DEF Freed
    <2> QED BY <2>1, <2>2
  <1>11. ASSUME NEW e \in DOMAIN r.heap
         PROVE  e \in DOMAIN m.heap \/ \E d \in FreeTable(r) : e = Entry(r, d)
    <2>1. e \in DOMAIN s.heap \/ \E d \in FreeTable(r) : e = Entry(r, d)
      BY <1>7 DEF Releases
    <2>2. e \in DOMAIN s.heap => e \in DOMAIN m.heap \/ \E d \in FreeTable(s) : e = Entry(s, d)
      BY DEF Freed
    <2>3. ASSUME NEW d \in FreeTable(s) PROVE d \in FreeTable(r) /\ Entry(r, d) = Entry(s, d)
      <3>1. d \in Blocks /\ s.ref[d] = 0 /\ s.hash[d] # NoHash
        BY <2>3 DEF FreeTable, Free
      <3>2. d \notin Held(k)
        BY <1>5, <3>1
      <3>3. r.ref[d] = 0 /\ r.last[d] = s.last[d] /\ r.hash = s.hash
        BY <1>7, <3>1, <3>2 DEF Releases
      <3> QED BY <3>1, <3>3 DEF FreeTable, Free, Entry
    <2> QED BY <2>1, <2>2, <2>3
  <1>12. StateOK(r) /\ Covers(r) /\ r.hash = m.hash /\ r.ok = m.ok
    BY <1>3, <1>7 DEF Releases
  <1>13. Freed(r, D \cup {k})
    BY <1>8, <1>9, <1>10, <1>11, <1>12 DEF Freed
  <1> QED BY <1>13 DEF r, t

\* Nothing is freed yet.
LEMMA FreedNone ==
    ASSUME CacheInv, m.ok
    PROVE  Freed(m, {})
  <1>1. StateOK(m) /\ Covers(m) /\ Refs(m, Clients, {}) /\ m.ref \in [Blocks -> Nat]
    BY CacheFacts, StateFields
  <1>2. Clients \ {} = Clients /\ \A b \in Blocks : m.ref[b] <= m.ref[b]
    BY <1>1
  <1> QED BY <1>1, <1>2 DEF Freed

\* One client's table is freed.
LEMMA DropFrees ==
    ASSUME CacheInv, m.ok, NEW k \in Clients, Bound(k) \in Int, Drop(k, Bound(k))
    PROVE  /\ Freed(m', {k})
           /\ tables' = [j \in Clients |-> IF j \in {k} THEN NoTable ELSE tables[j]]
  <1>1. Freed(m, {}) /\ {} \in SUBSET Clients /\ k \in Clients \ {} /\ {} \cup {k} = {k}
    BY FreedNone
  <1>2. m' = FreeAll(Stamped(m, tables[k].blocks, Bound(k)), tables[k].blocks)
        /\ tables' = [tables EXCEPT ![k] = NoTable]
    BY DEF Drop
  <1>3. Freed(FreeAll(Stamped(m, tables[k].blocks, Bound(k)), tables[k].blocks), {} \cup {k})
    BY <1>1, FreedStep
  <1>4. tables \in [Clients -> Tables]
    BY CacheFacts
  <1>5. tables' = [j \in Clients |-> IF j \in {k} THEN NoTable ELSE tables[j]]
    BY <1>2, <1>4
  <1>6. Freed(m', {k})
    BY <1>1, <1>2, <1>3
  <1> QED BY <1>5, <1>6

\* CacheInv, after tables have been freed.
LEMMA CacheFreed ==
    ASSUME CacheInv, m.ok, NEW D \in SUBSET Clients, Freed(m', D),
           tables' = [k \in Clients |-> IF k \in D THEN NoTable ELSE tables[k]],
           UNCHANGED <<kinds, clock>>
    PROVE  CacheInv'
  <1>1. /\ StateOK(m) /\ Unique(m) /\ tables \in [Clients -> Tables]
        /\ Private(m) /\ Contents(m) /\ m.ref \in [Blocks -> Nat]
    BY CacheFacts, StateFields
  <1>2. StateOK(m') /\ Covers(m') /\ m'.hash = m.hash /\ m'.ok = m.ok
        /\ m'.ref \in [Blocks -> Nat]
    BY StateFields DEF Freed
  <1>3. Unique(m')
    BY <1>1, <1>2 DEF Unique
  <1>4. tables' \in [Clients -> Tables]
    <2>1. NoTable \in Tables
      BY DEF NoTable, Tables, NoStamp
    <2> QED BY <1>1, <2>1
  <1>5. Private(m')
    <2> SUFFICES ASSUME NEW b \in Blocks, m'.hash[b] = NoHash PROVE m'.ref[b] <= 1
      BY DEF Private
    <2>1. m.ref[b] <= 1 /\ m'.ref[b] <= m.ref[b] /\ m.ref[b] \in Nat /\ m'.ref[b] \in Nat
      BY <1>1, <1>2 DEF Private, Freed
    <2> QED BY <2>1
  <1>6. Contents(m)'
    <2> SUFFICES ASSUME NEW k \in Clients
                 PROVE  Content(m', tables'[k].blocks, tables'[k].chain)
      BY DEF Contents
    <2>1. CASE k \in D
      <3>1. tables'[k].blocks = <<>>
        BY <2>1 DEF NoTable
      <3>2. Len(<<>>) = 0 /\ 1..0 = {} /\ 0 <= Depth
        BY BlockFacts
      <3> QED BY <3>1, <3>2 DEF Content
    <2>2. CASE k \notin D
      <3>1. tables'[k] = tables[k] /\ Content(m, tables[k].blocks, tables[k].chain)
        BY <1>1, <2>2 DEF Contents
      <3> QED BY <1>2, <3>1 DEF Content
    <2> QED BY <2>1, <2>2
  <1>7. Refs(m, Clients, {})'
    <2>1. \A k \in Clients : Held(k)' = IF k \in D THEN {} ELSE Held(k)
      BY DEF Held, ToSet, NoTable
    <2>2. ASSUME NEW b \in Blocks
          PROVE  {k \in Clients : b \in Held(k)'} = {k \in Clients \ D : b \in Held(k)}
      BY <2>1
    <2> QED BY <2>2 DEF Freed, Refs
  <1> QED BY <1>1, <1>2, <1>3, <1>4, <1>5, <1>6, <1>7 DEF CacheInv

\* SetToSeq lists the elements of a finite set, each of them once.
LEMMA SetListed ==
    ASSUME NEW S, IsFiniteSet(S)
    PROVE  \E n \in Nat : /\ SetToSeq(S) \in [1..n -> S]
                          /\ \A i, j \in 1..n : SetToSeq(S)[i] = SetToSeq(S)[j] => i = j
                          /\ \A x \in S : \E i \in 1..n : SetToSeq(S)[i] = x
  <1> DEFINE n == Cardinality(S)
             q == SetToSeq(S)
  <1>1. n \in Nat /\ ExistsBijection(1..n, S)
    BY FS_CardinalityType
  <1>2. PICK f \in Bijection(1..n, S) : TRUE
    BY <1>1 DEF ExistsBijection
  <1>3. f \in [1..n -> S] /\ IsInjective(f)
    BY <1>2 DEF Bijection, Injection, Surjection, IsInjective
  <1>4. q \in [1..n -> S] /\ IsInjective(q)
    BY <1>3, Zenon DEF SetToSeq
  <1> HIDE DEF n, q
  <1>5. q \in Injection(1..n, S)
    BY <1>4 DEF Injection, IsInjective
  <1>6. IsFiniteSet(1..n) /\ Cardinality(1..n) = n
    BY <1>1, FS_Interval
  <1>7. q \in Surjection(1..n, S)
    BY <1>5, <1>6, FS_Injection DEF n
  <1>8. \A x \in S : \E i \in 1..n : q[i] = x
    BY <1>7 DEF Surjection
  <1>9. \A i, j \in 1..n : q[i] = q[j] => i = j
    BY <1>5 DEF Injection, IsInjective
  <1> QED BY <1>1, <1>4, <1>8, <1>9 DEF q

Dropping == INSTANCE Induction WITH Combine <- FreeStamped

\* free_finished_blocks frees the tables of earlier steps.
LEMMA PendingFrees ==
    ASSUME CacheInv, m.ok, FreePending
    PROVE  Freed(m', Pending)
  <1> DEFINE q == SetToSeq(Pending)
  <1>1. IsFiniteSet(Pending) /\ Pending \in SUBSET Clients
    BY ClientSets DEF Pending
  <1>2. PICK n \in Nat : /\ q \in [1..n -> Pending]
                         /\ \A i, j \in 1..n : q[i] = q[j] => i = j
                         /\ \A x \in Pending : \E i \in 1..n : q[i] = x
    BY <1>1, SetListed
  <1>3. m' = FoldLeft(FreeStamped, m, q)
    BY DEF FreePending
  <1> HIDE DEF q
  <1>4. DOMAIN q = 1..n
    BY <1>2
  <1>5. PICK run : Dropping!Runs(run, n, m, q)
    BY <1>4, Dropping!FoldRun
  <1>6. m' = Dropping!Fold(m, q)
    BY <1>3 DEF Dropping!Fold, FoldLeft, MapThenFoldSet, Dropping!FoldLeft,
                Dropping!MapThenFoldSet, Dropping!Max, Max
  <1>7. /\ run[0] = m /\ run[n] = m'
        /\ \A i \in 1..n : run[i] = FreeStamped(run[i - 1], q[i])
    BY <1>5, <1>6 DEF Dropping!Runs
  <1> DEFINE done(i) == {q[p] : p \in 1..i}
             S == {i \in 0..n : Freed(run[i], done(i))}
  <1>8. Freed(run[0], done(0))
    <2>1. done(0) = {}
      OBVIOUS
    <2> HIDE DEF done
    <2> QED BY <1>7, <2>1, FreedNone
  <1>9. ASSUME NEW i \in 1..n, Freed(run[i - 1], done(i - 1))
        PROVE  Freed(run[i], done(i))
    <2> DEFINE k == q[i]
    <2>1. k \in Pending /\ k \in Clients
      BY <1>1, <1>2
    <2>2. Bound(k) = tables[k].stamp /\ Bound(k) \in Int
      BY <2>1, CacheFacts DEF Pending, Bound
    <2>3. run[i] = FreeAll(Stamped(run[i - 1], tables[k].blocks, Bound(k)), tables[k].blocks)
      BY <1>7, <2>2 DEF FreeStamped
    <2>4. k \notin done(i - 1) /\ done(i - 1) \in SUBSET Clients
      <3>1. \A p \in 1..(i - 1) : p \in 1..n /\ p # i
        OBVIOUS
      <3> QED BY <1>1, <1>2, <3>1
    <2>5. done(i) = done(i - 1) \cup {k}
      <3>1. 1..i = (1..(i - 1)) \cup {i}
        OBVIOUS
      <3> QED BY <3>1
    <2> HIDE DEF k, done
    <2> DEFINE s == run[i - 1]
               D == done(i - 1)
    <2>6. Freed(s, D) /\ D \in SUBSET Clients /\ k \in Clients \ D
      BY <1>9, <2>1, <2>4
    <2> HIDE DEF s, D
    <2>7. Freed(FreeAll(Stamped(s, tables[k].blocks, Bound(k)), tables[k].blocks), D \cup {k})
      BY <2>2, <2>6, FreedStep
    <2> QED BY <2>3, <2>5, <2>7 DEF s, D
  <1> HIDE DEF done
  <1>10. \A i \in 0..n : i \in S
    <2>1. 0 \in S
      BY <1>8
    <2>2. \A i \in 1..n : i - 1 \in S => i \in S
      BY <1>9
    <2> HIDE DEF S
    <2> QED BY <2>1, <2>2, UpTo
  <1>11. Freed(run[n], done(n))
    BY <1>10
  <1>12. done(n) = Pending
    BY <1>2 DEF done
  <1> QED BY <1>7, <1>11, <1>12

\* Counting one client apart, in any set of clients.
LEMMA CountApart ==
    ASSUME NEW S \in SUBSET Clients, NEW k
    PROVE  /\ Cardinality(S) = Cardinality(S \ {k}) + (IF k \in S THEN 1 ELSE 0)
           /\ Cardinality(S) \in Nat /\ Cardinality(S \ {k}) \in Nat
           /\ Cardinality(S) = 0 <=> S = {}
  <1>1. IsFiniteSet(S) /\ Cardinality(S) \in Nat
    BY ClientSets
  <1>2. Cardinality(S \ {k}) = IF k \in S THEN Cardinality(S) - 1 ELSE Cardinality(S)
    BY <1>1, FS_RemoveElement
  <1>3. S \ {k} \in SUBSET Clients
    OBVIOUS
  <1>4. Cardinality(S \ {k}) \in Nat
    BY <1>3, ClientSets
  <1>5. Cardinality(S) = 0 <=> S = {}
    BY <1>1, FS_EmptySet
  <1> QED BY <1>1, <1>2, <1>4, <1>5

\* The unfinished block of a table: its hash-to-be, and that nobody else holds it.
LEMMA Unfinished ==
    ASSUME CacheInv, m.ok, NEW k \in Clients, tables[k].blocks # <<>>,
           m.hash[Last(tables[k].blocks)] = NoHash
    PROVE  LET t == tables[k].blocks
               b == Last(t)
               h == Hash(tables[k].chain, Len(t))
           IN  /\ t \in Seq(Blocks) /\ Len(t) \in 1..Depth /\ tables[k].chain \in Chains
               /\ b \in Blocks /\ b = t[Len(t)] /\ b \in Held(k)
               /\ h \in Hashes /\ h # NoHash /\ m.ref[b] = 1
               /\ \A j \in Clients : b \in Held(j) => j = k
               /\ \A p \in 1..Len(t) : p # Len(t) =>
                     m.hash[t[p]] = Hash(tables[k].chain, p) /\ t[p] # b /\ m.hash[t[p]] # h
  <1> DEFINE t == tables[k].blocks
             b == Last(t)
             c == tables[k].chain
             h == Hash(c, Len(t))
  <1>1. /\ t \in Seq(Blocks) /\ Content(m, t, c) /\ Refs(m, Clients, {}) /\ Private(m)
        /\ StateOK(m) /\ m.ref \in [Blocks -> Nat]
    BY CacheFacts, StateFields DEF Contents
  <1>2. Len(t) \in Nat /\ Len(t) # 0 /\ Len(t) <= Depth /\ c \in Chains /\ Depth \in Nat
    BY <1>1, BlockFacts DEF Content
  <1>3. Len(t) \in 1..Depth /\ Len(t) \in 1..Len(t)
    BY <1>2
  <1>4. b = t[Len(t)] /\ b \in Blocks /\ b \in Held(k)
    BY <1>1, <1>3 DEF Last, Held, ToSet
  <1>5. h \in Hashes /\ h # NoHash /\ h[2] = Len(t)
    BY <1>2, <1>3, HashFacts
  <1>6. m.ref[b] # 0 /\ m.ref[b] <= 1 /\ m.ref[b] \in Nat
    BY <1>1, <1>4, HeldInUse DEF Private
  <1>7. m.ref[b] = 1
    BY <1>6
  <1>8. ASSUME NEW j \in Clients, b \in Held(j), j # k PROVE FALSE
    <2> DEFINE S == {i \in Clients : b \in Held(i)}
    <2>1. S \in SUBSET Clients /\ k \in S /\ j \in S \ {k}
      BY <1>4, <1>8
    <2>2. m.ref[b] = Cardinality(S) + (IF b \in {} THEN 1 ELSE 0)
      BY <1>1, <1>4 DEF Refs
    <2> HIDE DEF S
    <2>3. S \ {k} \in SUBSET Clients /\ S \ {k} # {}
      BY <2>1
    <2>4. Cardinality(S \ {k}) # 0 /\ Cardinality(S \ {k}) \in Nat
      BY <2>3, CountApart
    <2>5. Cardinality(S) = Cardinality(S \ {k}) + 1
      BY <2>1, CountApart
    <2> QED BY <1>7, <2>2, <2>4, <2>5
  <1>9. ASSUME NEW p \in 1..Len(t), p # Len(t)
        PROVE  m.hash[t[p]] = Hash(c, p) /\ t[p] # b /\ m.hash[t[p]] # h
    <2>1. m.hash[t[p]] = Hash(c, p)
      BY <1>1, <1>9 DEF Content
    <2>2. p \in 1..Depth
      BY <1>2
    <2>3. Hash(c, p) # NoHash /\ Hash(c, p)[2] = p
      BY <1>2, <2>2, HashFacts
    <2> QED BY <1>5, <1>9, <2>1, <2>3
  <1> QED BY <1>1, <1>2, <1>3, <1>4, <1>5, <1>7, <1>8, <1>9

\* promote_to_immutable_block, where the content is not cached.
LEMMA CachePromotes ==
    ASSUME CacheInv, NEW k \in Clients, Grow(k), UNCHANGED kinds,
           Holders(m, Hash(tables[k].chain, Len(tables[k].blocks))) = {}
    PROVE  CacheInv'
  <1> DEFINE t == tables[k].blocks
             b == Last(t)
             h == Hash(tables[k].chain, Len(t))
  <1>1. /\ m.ok /\ t # <<>> /\ m.hash[b] = NoHash
        /\ m' = [m EXCEPT !.hash[b] = h] /\ UNCHANGED <<tables, clock>>
    BY DEF Grow
  <1>2. /\ t \in Seq(Blocks) /\ Len(t) \in 1..Depth
        /\ b \in Blocks /\ b = t[Len(t)]
        /\ h \in Hashes /\ h # NoHash /\ m.ref[b] = 1
        /\ \A j \in Clients : b \in Held(j) => j = k
        /\ \A p \in 1..Len(t) : p # Len(t) => t[p] # b
    BY <1>1, Unfinished
  <1>3. /\ StateOK(m) /\ Covers(m) /\ Unique(m) /\ tables \in [Clients -> Tables]
        /\ Refs(m, Clients, {}) /\ Private(m) /\ Contents(m)
        /\ m \in State /\ m.hash \in [Blocks -> Hashes \cup {NoHash}]
        /\ IsFiniteSet(DOMAIN m.heap)
    BY <1>1, CacheFacts, StateFields
  <1> HIDE DEF b, h
  <1>4. /\ m'.hash = [m.hash EXCEPT ![b] = h] /\ m'.ref = m.ref /\ m'.last = m.last
        /\ m'.heap = m.heap /\ m'.ok = m.ok /\ m' \in State
    BY <1>1, <1>2, <1>3 DEF State
  <1>5. StateOK(m')
    BY <1>3, <1>4 DEF StateOK
  <1>6. Covers(m')
    <2> SUFFICES ASSUME NEW d \in FreeTable(m') PROVE Entry(m', d) \in DOMAIN m'.heap
      BY DEF Covers
    <2>1. d \in Blocks /\ m.ref[d] = 0 /\ m'.hash[d] # NoHash
      BY <1>4 DEF FreeTable, Free
    <2>2. m'.hash[d] = m.hash[d]
      BY <1>2, <1>3, <1>4, <2>1
    <2>3. d \in FreeTable(m) /\ Entry(m', d) = Entry(m, d)
      BY <1>4, <2>1, <2>2 DEF FreeTable, Free, Entry
    <2> QED BY <1>3, <1>4, <2>3 DEF Covers
  <1>7. Unique(m')
    <2> SUFFICES ASSUME NEW x \in Blocks, NEW y \in Blocks,
                        m'.hash[x] = m'.hash[y], m'.hash[x] # NoHash
                 PROVE  x = y
      BY DEF Unique
    <2>1. \A z \in Blocks : m'.hash[z] = IF z = b THEN h ELSE m.hash[z]
      BY <1>2, <1>3, <1>4
    <2>2. \A z \in Blocks : m.hash[z] # h
      BY DEF Holders, h, t
    <2> QED BY <1>3, <2>1, <2>2 DEF Unique
  <1>8. Refs(m, Clients, {})'
    <2>1. \A j \in Clients : Held(j)' = Held(j)
      BY <1>1 DEF Held
    <2>2. ASSUME NEW x \in Blocks
          PROVE  {j \in Clients : x \in Held(j)'} = {j \in Clients : x \in Held(j)}
      BY <2>1
    <2> QED BY <1>3, <1>4, <2>2 DEF Refs
  <1>9. Private(m')
    <2>1. \A z \in Blocks : m'.hash[z] = IF z = b THEN h ELSE m.hash[z]
      BY <1>2, <1>3, <1>4
    <2> QED BY <1>2, <1>3, <1>4, <2>1 DEF Private
  <1>10. Contents(m)'
    <2> SUFFICES ASSUME NEW j \in Clients
                 PROVE  Content(m', tables[j].blocks, tables[j].chain)
      BY <1>1 DEF Contents
    <2> DEFINE u == tables[j].blocks
    <2>1. Content(m, u, tables[j].chain) /\ u \in Seq(Blocks)
      BY <1>3, CacheFacts DEF Contents
    <2>2. CASE j = k
      <3>1. m'.hash[u[Len(u)]] = Hash(tables[j].chain, Len(u))
        BY <1>2, <1>3, <1>4, <2>2 DEF h
      <3>2. \A p \in 1..Len(u) : p # Len(u) => m'.hash[u[p]] = m.hash[u[p]]
        BY <1>2, <1>3, <1>4, <2>1, <2>2
      <3> HIDE DEF u
      <3> QED BY <2>1, <3>1, <3>2 DEF Content, u
    <2>3. CASE j # k
      <3>1. b \notin Held(j)
        BY <1>2, <2>3
      <3>2. \A p \in 1..Len(u) : u[p] # b /\ u[p] \in Blocks
        BY <2>1, <3>1 DEF Held, ToSet
      <3>3. \A p \in 1..Len(u) : m'.hash[u[p]] = m.hash[u[p]]
        BY <1>3, <1>4, <3>2
      <3> HIDE DEF u
      <3> QED BY <2>1, <3>3 DEF Content, u
    <2> QED BY <2>2, <2>3
  <1> QED BY <1>1, <1>3, <1>5, <1>6, <1>7, <1>8, <1>9, <1>10 DEF CacheInv

\* promote_to_immutable_block, where block d holds the content already.
Joins(k, d) ==
    LET t == tables[k].blocks
        b == Last(t)
    IN  /\ m.hash[d] = Hash(tables[k].chain, Len(t)) /\ d # b /\ d \notin Held(k)
        /\ StateOK(m') /\ Covers(m') /\ Unique(m') /\ m'.hash = m.hash /\ m'.ok = m.ok
        /\ \A x \in Blocks : m'.ref[x] = m.ref[x] - (IF x = b THEN 1 ELSE 0)
                                                  + (IF x = d THEN 1 ELSE 0)
        /\ \A x \in Blocks : m'.last[x] = IF x = d /\ m.ref[d] = 0 THEN NoStamp ELSE m.last[x]
        /\ DOMAIN m'.heap \subseteq DOMAIN m.heap
        /\ tables' = [tables EXCEPT ![k].blocks = Append(Front(t), d)]

\* The unfinished block is freed and the twin is reused.
LEMMA GrowJoins ==
    ASSUME CacheInv, NEW k \in Clients, Grow(k),
           Holders(m, Hash(tables[k].chain, Len(tables[k].blocks))) # {}
    PROVE  \E d \in Blocks : Joins(k, d)
  <1> DEFINE t == tables[k].blocks
             b == Last(t)
             h == Hash(tables[k].chain, Len(t))
             d == CHOOSE x \in Holders(m, h) : TRUE
             s == FreeBlock(m, b)
             a == [s |-> s, table |-> Front(t)]
             r == Reuse(a, d)
  <1>1. /\ m.ok /\ t # <<>> /\ m.hash[b] = NoHash
        /\ m' = r.s /\ tables' = [tables EXCEPT ![k].blocks = r.table]
    BY DEF Grow
  <1>2. /\ t \in Seq(Blocks) /\ Len(t) \in 1..Depth
        /\ b \in Blocks /\ b = t[Len(t)] /\ h \in Hashes /\ h # NoHash /\ m.ref[b] = 1
        /\ \A p \in 1..Len(t) : p # Len(t) => m.hash[t[p]] # h
    BY <1>1, Unfinished
  <1>3. StateOK(m) /\ Covers(m) /\ Unique(m) /\ m \in State /\ m.ref \in [Blocks -> Nat]
        /\ m.hash \in [Blocks -> Hashes \cup {NoHash}] /\ m.last \in [Blocks -> Int]
    BY CacheFacts, StateFields
  <1>4. d \in Holders(m, h)
    OBVIOUS
  <1>5. d \in Blocks /\ m.hash[d] = h
    BY <1>4 DEF Holders
  <1>6. d # b /\ d \notin Held(k)
    <2> HIDE DEF d, b, h, t
    <2>1. d # b
      BY <1>1, <1>2, <1>5
    <2>2. ASSUME NEW p \in 1..Len(t) PROVE t[p] # d
      BY <1>2, <1>5, <2>1
    <2>3. Held(k) = {t[p] : p \in 1..Len(t)}
      BY <1>2 DEF Held, ToSet, t
    <2> QED BY <2>1, <2>2, <2>3
  <1>7. Frees(m, s, {b})
    BY <1>2, <1>3, FreeBlockFacts
  <1>8. s.heap = m.heap
    <2>1. [m EXCEPT !.ref[b] = @ - 1].hash = m.hash /\ [m EXCEPT !.ref[b] = @ - 1].heap = m.heap
      BY <1>3 DEF State
    <2> QED BY <1>1, <2>1 DEF FreeBlock
  <1> HIDE DEF s, d, b, h
  <1>9. StateOK(s) /\ s.hash = m.hash /\ s.last = m.last /\ s.ok = m.ok /\ Covers(s)
        /\ \A x \in Blocks : s.ref[x] = m.ref[x] - (IF x = b THEN 1 ELSE 0)
    BY <1>7 DEF Frees
  <1>10. Unique(s) /\ s.hash[d] # NoHash
    BY <1>2, <1>3, <1>5, <1>9 DEF Unique
  <1>11. Front(t) \in Seq(Blocks)
    BY <1>2 DEF Front
  <1>12. a \in Allocs /\ a.s = s /\ a.table = Front(t)
    BY <1>9, <1>11, StateFields DEF Allocs
  <1> HIDE DEF a
  <1>13. StateOK(r.s) /\ r.table = Append(Front(t), d) /\ Grabs(s, r.s, h, d)
    <2>1. StateOK(r.s) /\ r.table = Append(a.table, d) /\ Grabs(a.s, r.s, a.s.hash[d], d)
      BY <1>5, <1>9, <1>10, <1>12, ReuseFacts
    <2> QED BY <1>5, <1>9, <1>12, <2>1
  <1> HIDE DEF r
  <1>14. Covers(m') /\ Unique(m')
    <2>1. h \in Hashes \cup {NoHash}
      BY <1>2
    <2>2. Covers(r.s) /\ Unique(r.s)
      BY <1>5, <1>9, <1>10, <1>13, <2>1, GrabKeeps
    <2> QED BY <1>1, <2>2
  <1>15. s.ref \in [Blocks -> Nat] /\ s.hash \in [Blocks -> Hashes \cup {NoHash}]
         /\ s.last \in [Blocks -> Int]
    BY <1>9, StateFields
  <1>16. m'.hash = m.hash
    BY <1>1, <1>5, <1>9, <1>13, <1>15 DEF Grabs
  <1>17. ASSUME NEW x \in Blocks
         PROVE  /\ m'.ref[x] = m.ref[x] - (IF x = b THEN 1 ELSE 0) + (IF x = d THEN 1 ELSE 0)
                /\ m'.last[x] = IF x = d /\ m.ref[d] = 0 THEN NoStamp ELSE m.last[x]
    <2>1. m'.ref[x] = IF x = d THEN s.ref[x] + 1 ELSE s.ref[x]
      BY <1>1, <1>13, <1>15 DEF Grabs
    <2>2. s.ref[x] = m.ref[x] - (IF x = b THEN 1 ELSE 0) /\ s.ref[d] = m.ref[d]
          /\ m.ref[x] \in Nat /\ s.ref[x] \in Nat
      BY <1>3, <1>5, <1>6, <1>9, <1>15
    <2>3. m'.last[x] = IF x = d /\ s.ref[d] = 0 THEN NoStamp ELSE s.last[x]
      BY <1>1, <1>13, <1>15 DEF Grabs
    <2>4. m'.ref[x] = m.ref[x] - (IF x = b THEN 1 ELSE 0) + (IF x = d THEN 1 ELSE 0)
      BY <2>1, <2>2
    <2> QED BY <1>9, <2>2, <2>3, <2>4
  <1>18. DOMAIN m'.heap \subseteq DOMAIN m.heap /\ m'.ok = m.ok
    BY <1>1, <1>8, <1>9, <1>13 DEF Grabs
  <1>19. StateOK(m') /\ tables' = [tables EXCEPT ![k].blocks = Append(Front(t), d)]
    BY <1>1, <1>13
  <1>20. m.hash[d] = Hash(tables[k].chain, Len(t)) /\ b = Last(t)
    BY <1>5 DEF h, b
  <1>21. Joins(k, d)
    BY <1>6, <1>14, <1>16, <1>17, <1>18, <1>19, <1>20 DEF Joins
  <1> QED BY <1>5, <1>21

\* The table, after its last block was replaced by d.
LEMMA JoinedTable ==
    ASSUME CacheInv, m.ok, NEW k \in Clients, tables[k].blocks # <<>>,
           NEW d \in Blocks, Joins(k, d), m.hash[Last(tables[k].blocks)] = NoHash
    PROVE  LET t == tables[k].blocks
               u == tables'[k].blocks
           IN  /\ u \in Seq(Blocks) /\ Len(u) = Len(t) /\ u[Len(t)] = d
               /\ \A p \in 1..Len(t) : p # Len(t) => u[p] = t[p]
               /\ Held(k)' = (Held(k) \ {Last(t)}) \cup {d}
               /\ tables' \in [Clients -> Tables]
               /\ tables'[k].chain = tables[k].chain /\ tables'[k].stamp = tables[k].stamp
               /\ \A j \in Clients : j # k => tables'[j] = tables[j] /\ Held(j)' = Held(j)
  <1> DEFINE t == tables[k].blocks
             b == Last(t)
             u == Append(Front(t), d)
  <1>1. /\ t \in Seq(Blocks) /\ Len(t) \in 1..Depth /\ b \in Blocks /\ b = t[Len(t)]
        /\ \A p \in 1..Len(t) : p # Len(t) => t[p] # b
    BY Unfinished
  <1>2. tables' = [tables EXCEPT ![k].blocks = u] /\ tables \in [Clients -> Tables]
    BY CacheFacts DEF Joins
  <1>3. Front(t) \in Seq(Blocks) /\ Len(Front(t)) = Len(t) - 1
        /\ \A p \in 1..(Len(t) - 1) : Front(t)[p] = t[p]
    BY <1>1 DEF Front
  <1>4. u \in Seq(Blocks) /\ Len(u) = Len(t) /\ u[Len(t)] = d
        /\ \A p \in 1..(Len(t) - 1) : u[p] = t[p]
    <2>1. Len(t) \in Nat /\ Len(t) # 0
      BY <1>1
    <2> QED BY <1>3, <2>1
  <1>5. \A p \in 1..Len(t) : p # Len(t) => p \in 1..(Len(t) - 1)
    BY <1>1
  <1>6. \A p \in 1..Len(t) : p # Len(t) => u[p] = t[p]
    BY <1>4, <1>5
  <1> HIDE DEF u, t
  <1>7. tables'[k].blocks = u /\ tables'[k].chain = tables[k].chain
        /\ tables'[k].stamp = tables[k].stamp
        /\ \A j \in Clients : j # k => tables'[j] = tables[j]
    BY <1>2 DEF Tables
  <1>8. tables' \in [Clients -> Tables]
    BY <1>2, <1>4 DEF Tables
  <1>9. Held(k) = ToSet(t)
    BY DEF Held, t
  <1>10. Held(k)' = ToSet(u)
    BY <1>7 DEF Held
  <1>11. DOMAIN u = 1..Len(t) /\ DOMAIN t = 1..Len(t) /\ Len(t) \in 1..Len(t)
    BY <1>1, <1>4
  <1>12. ToSet(u) = (ToSet(t) \ {b}) \cup {d}
    <2>1. ASSUME NEW x \in ToSet(u) PROVE x \in (ToSet(t) \ {b}) \cup {d}
      <3>1. PICK p \in 1..Len(t) : x = u[p]
        BY <1>11 DEF ToSet
      <3> QED BY <1>1, <1>4, <1>6, <1>11, <3>1 DEF ToSet
    <2>2. ASSUME NEW x \in ToSet(t), x # b PROVE x \in ToSet(u)
      <3>1. PICK p \in 1..Len(t) : x = t[p]
        BY <1>11 DEF ToSet
      <3> QED BY <1>1, <1>6, <1>11, <2>2, <3>1 DEF ToSet
    <2>3. d \in ToSet(u)
      BY <1>4, <1>11 DEF ToSet
    <2> QED BY <2>1, <2>2, <2>3
  <1>13. \A j \in Clients : j # k => Held(j)' = Held(j)
    BY <1>7 DEF Held
  <1> QED BY <1>4, <1>6, <1>7, <1>8, <1>9, <1>10, <1>12, <1>13 DEF t

\* promote_to_immutable_block, where the content is cached.
LEMMA CacheJoins ==
    ASSUME CacheInv, NEW k \in Clients, Grow(k), UNCHANGED kinds,
           Holders(m, Hash(tables[k].chain, Len(tables[k].blocks))) # {}
    PROVE  CacheInv'
  <1> DEFINE t == tables[k].blocks
             b == Last(t)
             c == tables[k].chain
  <1>1. PICK d \in Blocks : Joins(k, d)
    BY GrowJoins
  <1>2. m.ok /\ t # <<>> /\ m.hash[b] = NoHash /\ UNCHANGED clock
    BY DEF Grow
  <1>3. /\ m.hash[d] = Hash(c, Len(t)) /\ d # b /\ d \notin Held(k)
        /\ StateOK(m') /\ Covers(m') /\ Unique(m') /\ m'.hash = m.hash /\ m'.ok = m.ok
        /\ \A x \in Blocks : m'.ref[x] = m.ref[x] - (IF x = b THEN 1 ELSE 0)
                                                  + (IF x = d THEN 1 ELSE 0)
    BY <1>1 DEF Joins
  <1>4. LET u == tables'[k].blocks
        IN  /\ u \in Seq(Blocks) /\ Len(u) = Len(t) /\ u[Len(t)] = d
            /\ \A p \in 1..Len(t) : p # Len(t) => u[p] = t[p]
            /\ Held(k)' = (Held(k) \ {b}) \cup {d}
            /\ tables' \in [Clients -> Tables]
            /\ tables'[k].chain = c
            /\ \A j \in Clients : j # k => tables'[j] = tables[j] /\ Held(j)' = Held(j)
    BY <1>1, <1>2, JoinedTable
  <1>5. /\ t \in Seq(Blocks) /\ Len(t) \in 1..Depth /\ b \in Blocks /\ b \in Held(k)
        /\ Hash(c, Len(t)) # NoHash /\ m.ref[b] = 1
    BY <1>2, Unfinished
  <1>6. /\ Refs(m, Clients, {}) /\ Private(m) /\ Contents(m) /\ m.ref \in [Blocks -> Nat]
    BY <1>2, CacheFacts, StateFields
  <1> HIDE DEF b
  <1>7. ASSUME NEW x \in Blocks
        PROVE  m'.ref[x] = Cardinality({j \in Clients : x \in Held(j)'})
                           + (IF x \in {} THEN 1 ELSE 0)
    <2> DEFINE S == {j \in Clients : x \in Held(j)}
               R == {j \in Clients : x \in Held(j)'}
    <2>1. S \in SUBSET Clients /\ R \in SUBSET Clients /\ S \ {k} = R \ {k}
      BY <1>4
    <2>2. (k \in S <=> x \in Held(k)) /\ (k \in R <=> x \in (Held(k) \ {b}) \cup {d})
      BY <1>4
    <2>3. m.ref[x] = Cardinality(S) + (IF x \in {} THEN 1 ELSE 0)
      BY <1>6 DEF Refs
    <2> HIDE DEF S, R
    <2>4. /\ Cardinality(S) = Cardinality(S \ {k}) + (IF k \in S THEN 1 ELSE 0)
          /\ Cardinality(R) = Cardinality(R \ {k}) + (IF k \in R THEN 1 ELSE 0)
          /\ Cardinality(S \ {k}) \in Nat
      BY <2>1, CountApart
    <2>5. m'.ref[x] = m.ref[x] - (IF x = b THEN 1 ELSE 0) + (IF x = d THEN 1 ELSE 0)
      BY <1>3
    <2>6. Cardinality(R) = Cardinality(S \ {k}) + (IF k \in R THEN 1 ELSE 0)
      BY <2>1, <2>4
    <2>7. CASE x = b
      BY <1>3, <1>5, <2>2, <2>3, <2>4, <2>5, <2>6, <2>7 DEF R
    <2>8. CASE x = d
      BY <1>3, <1>5, <2>2, <2>3, <2>4, <2>5, <2>6, <2>8 DEF R
    <2>9. CASE x # b /\ x # d
      BY <2>2, <2>3, <2>4, <2>5, <2>6, <2>9 DEF R
    <2> QED BY <2>7, <2>8, <2>9
  <1>8. Refs(m, Clients, {})'
    BY <1>7 DEF Refs
  <1>9. Private(m')
    <2> SUFFICES ASSUME NEW x \in Blocks, m.hash[x] = NoHash PROVE m'.ref[x] <= 1
      BY <1>3 DEF Private
    <2>1. x # d
      BY <1>3, <1>5
    <2>2. m.ref[x] <= 1 /\ m.ref[x] \in Nat
      BY <1>6 DEF Private
    <2>3. m'.ref[x] = m.ref[x] - (IF x = b THEN 1 ELSE 0)
      BY <1>3, <2>1, <2>2
    <2> QED BY <2>2, <2>3
  <1>10. Contents(m)'
    <2> SUFFICES ASSUME NEW j \in Clients
                 PROVE  Content(m', tables'[j].blocks, tables'[j].chain)
      BY DEF Contents
    <2>1. CASE j # k
      BY <1>3, <1>4, <1>6, <2>1 DEF Contents, Content
    <2>2. CASE j = k
      <3> DEFINE u == tables'[k].blocks
      <3>1. Content(m, t, c) /\ c \in Chains
        BY <1>2, <1>6 DEF Contents, Content
      <3>2. /\ Len(u) = Len(t) /\ u[Len(t)] = d
            /\ \A p \in 1..Len(t) : p # Len(t) => u[p] = t[p]
        BY <1>4
      <3> HIDE DEF u, t
      <3>3. ASSUME NEW p \in 1..Len(u)
            PROVE  m'.hash[u[p]] = Hash(c, p) \/ (p = Len(u) /\ m'.hash[u[p]] = NoHash)
        BY <1>3, <3>1, <3>2 DEF Content
      <3>4. Content(m', u, c)
        BY <3>1, <3>2, <3>3 DEF Content
      <3> QED BY <1>4, <2>2, <3>4 DEF u
    <2> QED BY <2>1, <2>2
  <1>11. tables' \in [Clients -> Tables] /\ m'.ok
    BY <1>2, <1>3, <1>4
  <1>12. clock' \in Nat /\ kinds' \in Uses
    BY <1>2 DEF CacheInv
  <1> QED BY <1>3, <1>8, <1>9, <1>10, <1>11, <1>12 DEF CacheInv

\* _swap_in_cpu_prefix_if_needed: a table that is allocated and freed at once.
LEMMA CacheMatches ==
    ASSUME CacheInv, NEW c \in Chains, NEW len \in 1..Depth, Match(c, len), UNCHANGED kinds
    PROVE  CacheInv'
  <1> DEFINE n == CachedBlocks(m, c, len)
             hs == [i \in 1..n |-> Hash(c, i)]
             a == Allocate(m, hs)
  <1>1. /\ m.ok /\ Needed(hs) <= Cardinality(Free(m))
        /\ m' = IF a.s.ok THEN FreeAll(a.s, a.table) ELSE a.s
        /\ UNCHANGED <<tables, clock>>
    BY DEF Match
  <1>2. n \in Nat /\ n <= Depth
    <2>1. len \in Nat /\ Depth \in Nat
      BY BlockFacts
    <2>2. n \in 0..len
      BY <2>1, CachedBlocksFacts
    <2> HIDE DEF n
    <2> QED BY <2>1, <2>2
  <1>2a. \A p \in 1..n : hs[p] = Hash(c, p)
    OBVIOUS
  <1> HIDE DEF n
  <1>3. HashList(hs, n)
    BY <1>2, HashLists
  <1> HIDE DEF hs
  <1>4. /\ StateOK(m) /\ Covers(m) /\ Unique(m) /\ tables \in [Clients -> Tables]
        /\ Refs(m, Clients, {}) /\ Private(m) /\ m.ref \in [Blocks -> Nat]
    BY <1>1, CacheFacts, StateFields
  <1>5. Partial(m, a, hs, n, n)
    BY <1>1, <1>2, <1>3, <1>4, AllocateEnds, NeededFrom
  <1> HIDE DEF a
  <1>6. a \in Allocs /\ StateOK(a.s) /\ Covers(a.s) /\ Unique(a.s)
    BY <1>5 DEF Partial
  <1>7. CASE ~a.s.ok
    BY <1>1, <1>4, <1>6, <1>7 DEF CacheInv
  <1>8. CASE a.s.ok
    <2> DEFINE t == a.table
    <2>1. Taken(m, a, hs, n, n) /\ t \in Seq(Blocks)
      BY <1>5, <1>6, <1>8 DEF Partial, Allocs
    <2>2. Content(a.s, t, c) /\ Len(t) = n
      BY <1>2, <1>2a, <2>1 DEF Content, Taken
    <2>3. /\ t \in [1..n -> Blocks] /\ \A p, q \in 1..n : t[p] = t[q] => p = q
      BY <2>1, <2>2, TableDistinct
    <2>4. \A b \in Blocks : a.s.ref[b] = m.ref[b] + (IF b \in ToSet(t) THEN 1 ELSE 0)
      BY <2>1 DEF Taken
    <2>5. \A b \in Blocks : m.ref[b] \in Nat
      BY <1>4
    <2>6. \A p \in 1..n : t[p] \in Blocks /\ t[p] \in ToSet(t)
      BY <2>3 DEF ToSet
    <2> HIDE DEF t
    <2>7. \A p \in 1..n : a.s.ref[t[p]] # 0
      BY <2>4, <2>5, <2>6
    <2>8. Frees(a.s, FreeAll(a.s, t), ToSet(t))
      BY <1>2, <1>6, <2>3, <2>7, FreeAllFacts
    <2>9. m' = FreeAll(a.s, t)
      BY <1>1, <1>8 DEF t
    <2>10. /\ StateOK(m') /\ Covers(m') /\ m'.hash = a.s.hash
           /\ \A b \in Blocks : m'.ref[b] = a.s.ref[b] - (IF b \in ToSet(t) THEN 1 ELSE 0)
      BY <2>8, <2>9 DEF Frees
    <2>11. Unique(m')
      BY <1>6, <2>10 DEF Unique
    <2>12. \A b \in Blocks : m'.ref[b] = m.ref[b]
      BY <2>4, <2>5, <2>10
    <2>13. Refs(m, Clients, {})'
      <3>1. \A j : Held(j)' = Held(j)
        BY <1>1 DEF Held
      <3>2. \A b : {j \in Clients : b \in Held(j)'} = {j \in Clients : b \in Held(j)}
        BY <3>1
      <3> QED BY <1>4, <2>12, <3>2 DEF Refs
    <2>14. Private(m')
      <3> SUFFICES ASSUME NEW b \in Blocks, m'.hash[b] = NoHash PROVE m'.ref[b] <= 1
        BY DEF Private
      <3>1. a.s.ref[b] <= 1
        BY <2>1, <2>10 DEF Taken, Private
      <3> QED BY <2>4, <2>5, <2>12, <3>1
    <2>15. Contents(m)'
      <3>1. Contents(m')
        BY <1>1, <2>1, <2>10, ContentsKept DEF Taken
      <3> QED BY <1>1, <3>1 DEF Contents
    <2> QED BY <1>1, <1>4, <2>10, <2>11, <2>13, <2>14, <2>15 DEF CacheInv
  <1> QED BY <1>7, <1>8

\* The allocator's invariant holds in the beginning.
LEMMA CacheInit ==
    ASSUME Init
    PROVE  CacheInv
  <1>1. m \in State /\ DOMAIN m.heap = {}
    <2>1. EmptyBag \in Heaps /\ DOMAIN EmptyBag = {}
      BY HeapOfSet DEF EmptyBag
    <2> QED BY <2>1 DEF Init, State, NoStamp
  <1>2. StateOK(m) /\ m.hash = [b \in Blocks |-> NoHash] /\ m.ref = [b \in Blocks |-> 0]
    BY <1>1, FS_EmptySet DEF StateOK, Init
  <1>3. Covers(m) /\ Unique(m) /\ Private(m)
    BY <1>2 DEF Covers, Unique, Private, FreeTable, Free
  <1>4. \A k \in Clients : tables[k] = NoTable /\ tables[k].blocks = <<>> /\ Held(k) = {}
    BY DEF Init, NoTable, Held, ToSet
  <1>5. tables \in [Clients -> Tables]
    <2>1. NoTable \in Tables
      BY DEF NoTable, Tables, NoStamp
    <2> QED BY <2>1 DEF Init
  <1>6. Refs(m, Clients, {})
    <2>1. \A b \in Blocks : {k \in Clients : b \in Held(k)} = {}
      BY <1>4
    <2>2. Cardinality({}) = 0
      BY FS_EmptySet
    <2>3. \A b \in Blocks : m.ref[b] = 0
      BY <1>2
    <2> QED BY <2>1, <2>2, <2>3 DEF Refs
  <1>7. Contents(m)
    <2>1. Len(<<>>) = 0 /\ 1..0 = {} /\ 0 <= Depth
      BY BlockFacts
    <2> QED BY <1>4, <2>1 DEF Contents, Content
  <1> QED BY <1>2, <1>3, <1>5, <1>6, <1>7 DEF CacheInv, Init

\* The stamp a running request is freed with is the step's.
LEMMA BoundFacts ==
    ASSUME CacheInv, NEW k \in Clients
    PROVE  Bound(k) \in Int /\ (tables[k].stamp = NoStamp => Bound(k) = clock)
           /\ (tables[k].stamp # NoStamp => Bound(k) = tables[k].stamp)
  BY CacheFacts DEF Bound, CacheInv

\* Every step keeps the allocator's invariant.
LEMMA CacheStep ==
    ASSUME CacheInv, [Next]_vars
    PROVE  CacheInv'
  <1>1. CASE UNCHANGED vars
    BY <1>1 DEF vars, CacheInv, StateOK, Covers, Unique, Refs, Private, Contents, Content,
                Held, FreeTable, Free, Entry
  <1> USE DEF Next
  <1>2. CASE Tick /\ UNCHANGED kinds
    BY <1>2 DEF Tick, CacheInv, Refs, Contents, Held
  <1>3. CASE FreePending /\ UNCHANGED kinds
    <2>1. m.ok /\ Freed(m', Pending) /\ UNCHANGED <<kinds, clock>> /\ Pending \in SUBSET Clients
          /\ tables' = [k \in Clients |-> IF k \in Pending THEN NoTable ELSE tables[k]]
      BY <1>3, PendingFrees DEF FreePending, Pending
    <2> QED BY <2>1, CacheFreed
  <1>4. ASSUME NEW c \in Chains, NEW len \in 1..Depth, Match(c, len), UNCHANGED kinds
        PROVE  CacheInv'
    BY <1>4, CacheMatches
  <1>5. ASSUME NEW k \in Clients, Take(k), UNCHANGED kinds PROVE CacheInv'
    <2>1. PICK c \in Chains, n \in 0..(Depth - 1) :
             /\ Needed(Wanted(c, n)) <= Cardinality(Free(m))
             /\ m' = Allocate(m, Wanted(c, n)).s
             /\ tables' = IF Allocate(m, Wanted(c, n)).s.ok
                          THEN [tables EXCEPT ![k] = [blocks |-> Allocate(m, Wanted(c, n)).table,
                                    chain |-> c, stamp |-> NoStamp]]
                          ELSE tables
      BY <1>5 DEF Take
    <2>2. m.ok /\ tables[k] = NoTable /\ UNCHANGED <<kinds, clock>>
      BY <1>5 DEF Take
    <2>3. n \in Nat /\ n < Depth /\ n + 1 \in Nat /\ n + 1 <= Depth
      BY BlockFacts
    <2>4. HashList(Wanted(c, n), n + 1)
          /\ \A p \in 1..(n + 1) : Wanted(c, n)[p] = Hash(c, p)
                \/ (p = n + 1 /\ Wanted(c, n)[p] = NoHash)
      BY <2>3, HashLists
    <2>5. NoStamp \in Int
      BY DEF NoStamp
    <2> QED BY <2>1, <2>2, <2>3, <2>4, <2>5, CacheGetsTable
  <1>6. ASSUME NEW k \in Clients, SwapOut(k), UNCHANGED kinds PROVE CacheInv'
    <2> DEFINE hs(c, n) == [i \in 1..n |-> Hash(c, i)]
    <2>1. PICK c \in Chains, n \in 1..Depth :
             /\ Needed(hs(c, n)) <= Cardinality(Free(m))
             /\ m' = Allocate(m, hs(c, n)).s
             /\ tables' = IF Allocate(m, hs(c, n)).s.ok
                          THEN [tables EXCEPT ![k] = [blocks |-> Allocate(m, hs(c, n)).table,
                                    chain |-> c, stamp |-> clock]]
                          ELSE tables
      BY <1>6 DEF SwapOut
    <2>2. m.ok /\ tables[k] = NoTable /\ UNCHANGED <<kinds, clock>> /\ clock \in Int
      BY <1>6 DEF SwapOut, CacheInv
    <2>3. n \in Nat /\ n <= Depth
      BY BlockFacts
    <2>4. HashList(hs(c, n), n) /\ \A p \in 1..n : hs(c, n)[p] = Hash(c, p)
      BY <2>3, HashLists
    <2> HIDE DEF hs
    <2> QED BY <2>1, <2>2, <2>3, <2>4, CacheGetsTable
  <1>7. ASSUME NEW k \in Clients, Grow(k), UNCHANGED kinds PROVE CacheInv'
    BY <1>7, CachePromotes, CacheJoins
  <1>8. ASSUME NEW k \in Clients, NEW v, Drop(k, v), v = Bound(k), m.ok, UNCHANGED <<kinds, clock>>
        PROVE  CacheInv'
    <2>1. Bound(k) \in Int /\ Drop(k, Bound(k))
      BY <1>8, BoundFacts
    <2>2. Freed(m', {k}) /\ {k} \in SUBSET Clients
          /\ tables' = [j \in Clients |-> IF j \in {k} THEN NoTable ELSE tables[j]]
      BY <1>8, <2>1, DropFrees
    <2> QED BY <1>8, <2>2, CacheFreed
  <1>9. ASSUME NEW k \in Clients, Finish(k), UNCHANGED kinds PROVE CacheInv'
    <2>1. Drop(k, clock) /\ clock = Bound(k) /\ m.ok /\ UNCHANGED <<kinds, clock>>
      BY <1>9, BoundFacts DEF Finish
    <2> QED BY <1>8, <2>1
  <1>10. ASSUME NEW k \in Clients, DropRetained(k), UNCHANGED kinds PROVE CacheInv'
    <2>1. Drop(k, tables[k].stamp) /\ tables[k].stamp = Bound(k) /\ m.ok
          /\ UNCHANGED <<kinds, clock>>
      BY <1>10, BoundFacts DEF DropRetained
    <2> QED BY <1>8, <2>1
  <1>11. ASSUME NEW k \in Clients, Retain(k), UNCHANGED kinds PROVE CacheInv'
    <2>1. /\ tables' = [tables EXCEPT ![k].stamp = clock] /\ m' = m /\ clock' = clock
          /\ tables \in [Clients -> Tables] /\ clock \in Int
      BY <1>11 DEF Retain, CacheInv
    <2>2. tables' \in [Clients -> Tables]
      BY <2>1 DEF Tables
    <2>3. \A j \in Clients : tables'[j].blocks = tables[j].blocks
                             /\ tables'[j].chain = tables[j].chain
      BY <2>1 DEF Tables
    <2>4. \A b : {j \in Clients : b \in Held(j)'} = {j \in Clients : b \in Held(j)}
      BY <2>3 DEF Held
    <2> QED BY <1>11, <2>1, <2>2, <2>3, <2>4 DEF CacheInv, Refs, Contents
  <1> QED BY <1>1, <1>2, <1>3, <1>4, <1>5, <1>6, <1>7, <1>9, <1>10, <1>11

\* The allocator's invariant: each block has one reference per table it is in,
\* a table holds what its chain says, and the queue has an entry for each free
\* block.
THEOREM CacheInvariant == Spec => []CacheInv
  <1>1. Init => CacheInv
    BY CacheInit
  <1>2. CacheInv /\ [Next]_vars => CacheInv'
    BY CacheStep
  <1> QED BY <1>1, <1>2, PTL DEF Spec

\* HeapCovers: evict never runs out of entries while a cached block is free.
THEOREM HeapAlwaysCovers == Spec => []HeapCovers
  <1>1. CacheInv => HeapCovers
    BY DEF CacheInv, Covers, HeapCovers, BagToSet
  <1> QED BY <1>1, CacheInvariant, PTL
-----------------------------------------------------------------------------
(***************************************************************************)
(* The lazy queue is exact where tables are stamped before they are freed. *)
(*                                                                         *)
(* An outdated entry that names a free block with its last access would be *)
(* popped for it.  Every outdated entry is older than the stamp its block  *)
(* will be freed with: entries are pushed with stamps of earlier steps,    *)
(* and a block changes its content only while a step schedules.            *)
(***************************************************************************)
\* A current entry is its block's.
LEMMA LiveEntry ==
    ASSUME NEW s, StateOK(s), Settled(s), Past(s), NEW e \in DOMAIN s.heap, Current(s, e)
    PROVE  e = Entry(s, e[3])
  <1>1. e \in Entries /\ e[3] \in FreeTable(s) /\ s.last[e[3]] = e[1]
    BY StateFields DEF Current
  <1>2. e[1] \in Int /\ e = <<e[1], e[2], e[3], e[4]>>
    BY <1>1 DEF Entries
  <1>3. Fresh(s, e[3], s.last[e[3]])
    BY <1>1 DEF Settled
  <1>4. e[4] # s.hash[e[3]] => e[1] < s.last[e[3]]
    BY <1>3 DEF Fresh
  <1>5. e[4] = s.hash[e[3]]
    BY <1>1, <1>2, <1>4
  <1>6. e[2] = -s.hash[e[3]][2]
    BY <1>5 DEF Past
  <1> QED BY <1>1, <1>2, <1>5, <1>6 DEF Entry

\* What evict pops, then: the oldest of the free blocks, then the deepest.
LEMMA PoppedExact ==
    ASSUME NEW s, StateOK(s), Covers(s), FreeTable(s) # {}, Settled(s), Past(s)
    PROVE  LET b == Popped(s)[3]
           IN  /\ b \in FreeTable(s) /\ Popped(s)[4] = s.hash[b]
               /\ \A d \in FreeTable(s) :
                     \/ s.last[b] < s.last[d]
                     \/ s.last[b] = s.last[d] /\ s.hash[b][2] > s.hash[d][2]
                     \/ s.last[b] = s.last[d] /\ s.hash[b][2] = s.hash[d][2] /\ b <= d
  <1> DEFINE e == Popped(s)
             b == e[3]
  <1>1. e \in DOMAIN s.heap /\ e \in Entries /\ Current(s, e)
        /\ \A f \in DOMAIN s.heap : Current(s, f) => ~Before(f, e)
    BY PoppedFacts
  <1>2. e = Entry(s, b) /\ b \in FreeTable(s)
    BY <1>1, LiveEntry DEF Current
  <1> HIDE DEF e
  <1>3. e[1] = s.last[b] /\ e[2] = -s.hash[b][2] /\ e[4] = s.hash[b] /\ s.hash[b] \in Hashes
        /\ b \in Blocks
    BY <1>2, EntryFacts
  <1>4. ASSUME NEW d \in FreeTable(s)
        PROVE  \/ s.last[b] < s.last[d]
               \/ s.last[b] = s.last[d] /\ s.hash[b][2] > s.hash[d][2]
               \/ s.last[b] = s.last[d] /\ s.hash[b][2] = s.hash[d][2] /\ b <= d
    <2> DEFINE f == Entry(s, d)
    <2>1. f \in DOMAIN s.heap /\ f \in Entries
          /\ f[1] = s.last[d] /\ f[2] = -s.hash[d][2] /\ f[3] = d /\ s.hash[d] \in Hashes
      BY EntryFacts DEF Covers
    <2>2. ~Before(f, e)
      BY <1>1, <2>1 DEF Current
    <2> HIDE DEF f
    <2>3. /\ s.hash[b][2] \in Int /\ s.hash[d][2] \in Int
      BY <1>3, <2>1, HashPair
    <2>4. e[1] \in Int /\ f[1] \in Int /\ e[3] \in Int /\ f[3] \in Int
      BY <1>1, <2>1, EntryParts
    <2>5. ~(s.last[d] < s.last[b])
          /\ ~(s.last[d] = s.last[b] /\ -s.hash[d][2] < -s.hash[b][2])
          /\ ~(s.last[d] = s.last[b] /\ -s.hash[d][2] = -s.hash[b][2] /\ d < b)
      BY <1>3, <2>1, <2>2 DEF Before
    <2>6. s.last[b] \in Int /\ s.last[d] \in Int /\ b \in Int /\ d \in Int
      BY <1>3, <2>1, <2>4
    <2> QED BY <2>3, <2>5, <2>6
  <1> QED BY <1>2, <1>3, <1>4 DEF e

\* The lazy queue evicts the block that EngineCache takes for the oldest.
LEMMA QueueExact ==
    ASSUME CacheInv, Queue, FreeTable(m) # {}
    PROVE  Popped(m)[3] = Oldest(m) /\ Popped(m)[4] = m.hash[Oldest(m)]
  <1> DEFINE b == Popped(m)[3]
             old == {x \in FreeTable(m) : \A c \in FreeTable(m) : m.last[x] <= m.last[c]}
             deep == {x \in old : \A c \in old : m.hash[x][2] >= m.hash[c][2]}
  <1>1. StateOK(m) /\ Covers(m) /\ Settled(m) /\ Past(m)
    BY CacheFacts DEF Queue
  <1>2. /\ b \in FreeTable(m) /\ Popped(m)[4] = m.hash[b]
        /\ \A d \in FreeTable(m) :
              \/ m.last[b] < m.last[d]
              \/ m.last[b] = m.last[d] /\ m.hash[b][2] > m.hash[d][2]
              \/ m.last[b] = m.last[d] /\ m.hash[b][2] = m.hash[d][2] /\ b <= d
    BY <1>1, PoppedExact
  <1>3. \A d \in FreeTable(m) : m.last[d] \in Int /\ m.hash[d][2] \in Int /\ d \in Nat
    <2>1. m.last \in [Blocks -> Int]
      BY <1>1, StateFields
    <2>2. \A d \in FreeTable(m) : d \in Blocks /\ m.hash[d] \in Hashes
      BY <1>1, EntryFacts
    <2>3. Blocks \subseteq Nat
      BY BlockFacts
    <2> QED BY <2>1, <2>2, <2>3, HashPair
  <1> HIDE DEF b
  <1>4. b \in old
    BY <1>2, <1>3
  <1>5. \A d \in old : d \in FreeTable(m) /\ m.last[d] = m.last[b]
    BY <1>2, <1>3
  <1>6. b \in deep
    <2> HIDE DEF old
    <2> QED BY <1>2, <1>3, <1>4, <1>5
  <1>7. \A d \in deep : d \in Nat /\ b <= d
    <2>1. \A d \in deep : d \in old /\ m.hash[d][2] >= m.hash[b][2]
      BY <1>4
    <2> HIDE DEF old, deep
    <2> QED BY <1>2, <1>3, <1>5, <2>1
  <1>8. Min(deep) = b
    <2> HIDE DEF deep
    <2>1. ASSUME NEW x \in deep, \A y \in deep : x <= y PROVE x = b
      BY <1>3, <1>2, <1>6, <1>7, <2>1
    <2>2. Min(deep) \in deep /\ \A y \in deep : Min(deep) <= y
      BY <1>6, <1>7, Zenon DEF Min
    <2> QED BY <2>1, <2>2
  <1>9. Oldest(m) = Min(deep)
    BY DEF Oldest
  <1> QED BY <1>2, <1>8, <1>9 DEF b

\* Settled, where a block is grabbed.
LEMMA GrabSettled ==
    ASSUME NEW s, StateOK(s), NEW t, NEW h, NEW b \in Blocks, Grabs(s, t, h, b), Settled(s)
    PROVE  Settled(t)
  <1>1. s.ref \in [Blocks -> Nat] /\ s.hash \in [Blocks -> Hashes \cup {NoHash}]
        /\ s.last \in [Blocks -> Int]
    BY StateFields
  <1> SUFFICES ASSUME NEW d \in FreeTable(t), NEW e \in DOMAIN t.heap,
                      e[3] = d, e[4] # t.hash[d]
               PROVE  e[1] < t.last[d]
    BY DEF Settled, Fresh
  <1>2. d \in Blocks /\ t.ref[d] = 0 /\ t.hash[d] # NoHash
    BY DEF FreeTable, Free
  <1>3. d # b
    BY <1>1, <1>2 DEF Grabs
  <1>4. s.ref[d] = 0 /\ s.hash[d] = t.hash[d] /\ s.last[d] = t.last[d]
    BY <1>1, <1>2, <1>3 DEF Grabs
  <1>5. d \in FreeTable(s) /\ e \in DOMAIN s.heap
    BY <1>2, <1>4 DEF FreeTable, Free, Grabs
  <1> QED BY <1>4, <1>5 DEF Settled, Fresh

\* Along an allocation nothing fails, and the queue stays in order.
LEMMA QueueRun ==
    ASSUME CacheInv, Queue, NEW n \in Nat, NEW hs, NEW run, AllocRun(run, m, hs, n)
    PROVE  \A i \in 0..n : /\ run[i].s.ok /\ Settled(run[i].s)
                           /\ DOMAIN run[i].s.heap \subseteq DOMAIN m.heap
  <1> DEFINE good(i) == /\ run[i].s.ok /\ Settled(run[i].s)
                        /\ DOMAIN run[i].s.heap \subseteq DOMAIN m.heap
             S == {i \in 0..n : good(i)}
  <1>1. good(0)
    BY DEF AllocRun, Queue
  <1>2. ASSUME NEW i \in 1..n, good(i - 1) PROVE good(i)
    <2> DEFINE s == run[i - 1].s
               t == run[i].s
    <2>1. AllocStep(run[i - 1], run[i], hs[i])
      BY DEF AllocRun
    <2>2. Partial(m, run[i - 1], hs, i - 1, n)
      <3>1. i - 1 \in 0..n
        OBVIOUS
      <3> QED BY <3>1 DEF AllocRun
    <2>3. StateOK(s) /\ Covers(s) /\ Settled(s) /\ s.ok /\ DOMAIN s.heap \subseteq DOMAIN m.heap
      BY <1>2, <2>2 DEF Partial
    <2>4. Past(s)
      BY <2>3 DEF Queue, Past
    <2>5. Fails(s, t) \/ \E b \in Blocks : Grabs(s, t, hs[i], b)
      BY <2>1, <2>3 DEF AllocStep
    <2> HIDE DEF s, t
    <2>6. ~Fails(s, t)
      BY <2>3, <2>4, PoppedExact DEF Fails
    <2>7. PICK b \in Blocks : Grabs(s, t, hs[i], b)
      BY <2>5, <2>6
    <2>8. t.ok /\ DOMAIN t.heap \subseteq DOMAIN m.heap
      BY <2>3, <2>7 DEF Grabs
    <2>9. Settled(t)
      BY <2>3, <2>7, GrabSettled
    <2> QED BY <2>8, <2>9 DEF t
  <1>3. \A i \in 0..n : i \in S
    <2> HIDE DEF good
    <2>1. 0 \in S
      BY <1>1
    <2>2. \A i \in 1..n : i - 1 \in S => i \in S
      BY <1>2
    <2> HIDE DEF S
    <2> QED BY <2>1, <2>2, UpTo
  <1> QED BY <1>3

\* Numbers of the present state.
LEMMA ClockFacts ==
    ASSUME CacheInv
    PROVE  /\ clock \in Nat /\ Latest \in Int
           /\ \A k \in Clients : tables[k].stamp \in Int /\ Bound(k) \in Int
           /\ \A e \in DOMAIN m.heap : e[1] \in Int /\ e[3] \in Blocks /\ e[4] \in Hashes
  <1>1. clock \in Nat /\ Latest \in Int
    BY DEF CacheInv, Latest
  <1>2. \A e \in DOMAIN m.heap : e \in Entries
    BY CacheFacts, StateFields
  <1> QED BY <1>1, <1>2, CacheFacts, BoundFacts, EntryParts

\* The queue, after a table was allocated.
LEMMA QueueGetsTable ==
    ASSUME CacheInv, Queue, NEW k \in Clients, tables[k] = NoTable,
           NEW c \in Chains, NEW n \in Nat, NEW hs, HashList(hs, n),
           Needed(hs) <= Cardinality(Free(m)), NEW v \in {NoStamp, clock},
           m' = Allocate(m, hs).s,
           tables' = IF Allocate(m, hs).s.ok
                     THEN [tables EXCEPT ![k] = [blocks |-> Allocate(m, hs).table,
                                                 chain |-> c, stamp |-> v]]
                     ELSE tables,
           UNCHANGED <<kinds, clock>>,
           Latest = clock - 1, Latest' = Latest,
           phase' = "finish" \/ (phase' = phase /\ v = NoStamp)
    PROVE  Queue'
  <1> DEFINE a == Allocate(m, hs)
  <1>1. /\ m.ok /\ Settled(m) /\ Ahead(m) /\ Past(m) /\ Stamps
        /\ StateOK(m) /\ Covers(m) /\ Unique(m) /\ Private(m) /\ tables \in [Clients -> Tables]
        /\ Refs(m, Clients, {})
    BY CacheFacts DEF Queue
  <1>2. PICK run : AllocRun(run, m, hs, n)
    BY <1>1, AllocateRuns, NeededFrom
  <1>3. a.s.ok /\ Settled(a.s) /\ DOMAIN a.s.heap \subseteq DOMAIN m.heap
    <2>1. run[n] = a /\ n \in 0..n
      BY <1>2 DEF AllocRun
    <2> HIDE DEF a
    <2> QED BY <1>2, <2>1, QueueRun
  <1>4. Taken(m, a, hs, n, n)
    <2>1. run[n] = a /\ n \in 0..n /\ Partial(m, run[n], hs, n, n)
      BY <1>2 DEF AllocRun
    <2> QED BY <1>3, <2>1 DEF Partial
  <1> DEFINE new == [blocks |-> a.table, chain |-> c, stamp |-> v]
  <1>5. tables' = [tables EXCEPT ![k] = new] /\ m' = a.s
    BY <1>3
  <1> HIDE DEF a, new
  <1>6. tables'[k] = new /\ \A j \in Clients : j # k => tables'[j] = tables[j]
    BY <1>1, <1>5
  <1>7. /\ clock \in Nat /\ \A j \in Clients : tables[j].stamp \in Int /\ Bound(j) \in Int
        /\ \A e \in DOMAIN m.heap : e[1] \in Int
    BY ClockFacts
  <1>8. \A e \in DOMAIN m'.heap : e[1] <= clock - 1 /\ e[2] = -e[4][2] /\ e[1] \in Int
    BY <1>1, <1>3, <1>5, <1>7 DEF Past
  <1>9. Past(m)'
    BY <1>8 DEF Past
  <1>10. Settled(m')
    BY <1>3, <1>5
  <1>11. Stamps'
    <2> SUFFICES ASSUME NEW j \in Clients
                 PROVE  tables'[j].stamp <= IF phase' = "schedule" THEN clock' - 1 ELSE clock'
      BY DEF Stamps
    <2>1. CASE j = k
      BY <1>6, <1>7, <2>1 DEF new, NoStamp
    <2>2. CASE j # k
      <3>1. tables'[j].stamp = tables[j].stamp /\ tables[j].stamp \in Int
            /\ tables[j].stamp <= IF phase = "schedule" THEN clock - 1 ELSE clock
        BY <1>1, <1>6, <1>7, <2>2 DEF Stamps
      <3> QED BY <1>7, <3>1
    <2> QED BY <2>1, <2>2
  <1>12. Ahead(m)'
    <2> SUFFICES ASSUME NEW j \in Clients, NEW b \in Held(j)', NEW e \in DOMAIN m'.heap,
                        e[3] = b, e[4] # m'.hash[b]
                 PROVE  e[1] < Bound(j)'
      BY DEF Ahead, Fresh
    <2>1. CASE j = k
      <3>1. Bound(j)' = clock
        BY <1>6, <2>1 DEF Bound, new
      <3> QED BY <1>7, <1>8, <3>1
    <2>2. CASE j # k
      <3>1. Bound(j)' = Bound(j) /\ b \in Held(j)
        BY <1>6, <2>2 DEF Bound, Held
      <3>2. b \in Blocks /\ m.ref[b] # 0
        BY <1>1, <3>1, CacheFacts, HeldInUse
      <3>3. m'.hash[b] = m.hash[b] /\ e \in DOMAIN m.heap
        BY <1>3, <1>4, <1>5, <3>2 DEF Taken
      <3>4. e[1] < Bound(j)
        BY <1>1, <3>1, <3>3 DEF Ahead, Fresh
      <3> QED BY <3>1, <3>4
    <2> QED BY <2>1, <2>2
  <1>13. m'.ok
    BY <1>3, <1>5
  <1> QED BY <1>9, <1>10, <1>11, <1>12, <1>13 DEF Queue

\* The queue, after an unfinished block was filled.
LEMMA QueueGrows ==
    ASSUME CacheInv, Queue, NEW k \in Clients, Grow(k), UNCHANGED kinds
    PROVE  Queue'
  <1> DEFINE t == tables[k].blocks
             b == Last(t)
             h == Hash(tables[k].chain, Len(t))
  <1>1. /\ m.ok /\ Settled(m) /\ Ahead(m) /\ Past(m) /\ Stamps /\ StateOK(m)
        /\ tables \in [Clients -> Tables]
    BY CacheFacts DEF Queue
  <1>2. /\ phase = "schedule" /\ t # <<>> /\ tables[k].stamp = NoStamp /\ m.hash[b] = NoHash
        /\ UNCHANGED <<clock, phase>> /\ Latest' = Latest
    BY DEF Grow, Latest
  <1>3. /\ b \in Blocks /\ m.ref[b] = 1 /\ h # NoHash
    BY <1>1, <1>2, Unfinished
  <1>4. /\ clock \in Nat /\ \A e \in DOMAIN m.heap : e[1] \in Int /\ e[3] \in Blocks /\ e[4] \in Hashes
    BY ClockFacts
  <1>5. m \in State /\ m.hash \in [Blocks -> Hashes \cup {NoHash}] /\ m.ref \in [Blocks -> Nat]
    BY <1>1, StateFields
  <1>6. CASE Holders(m, h) = {}
    <2>1. m' = [m EXCEPT !.hash[b] = h] /\ tables' = tables
      BY <1>6 DEF Grow
    <2> HIDE DEF b, h
    <2>2. /\ m'.ref = m.ref /\ m'.last = m.last /\ m'.heap = m.heap /\ m'.ok = m.ok
          /\ m'.hash = [m.hash EXCEPT ![b] = h]
      BY <1>5, <2>1 DEF State
    <2>3. \A x \in Blocks : m'.hash[x] = IF x = b THEN h ELSE m.hash[x]
      BY <1>5, <2>2
    <2>4. ASSUME NEW e \in DOMAIN m'.heap, e[4] # m'.hash[e[3]]
          PROVE  e \in DOMAIN m.heap /\ e[4] # m.hash[e[3]]
      <3>1. e \in DOMAIN m.heap /\ e[3] \in Blocks /\ e[4] # NoHash
        BY <1>4, <2>2, HashPair
      <3> QED BY <1>2, <2>3, <2>4, <3>1
    <2>5. \A d \in FreeTable(m') : d \in FreeTable(m)
      BY <1>3, <2>2, <2>3 DEF FreeTable, Free
    <2>6. Settled(m')
      BY <1>1, <2>2, <2>4, <2>5 DEF Settled, Fresh
    <2>7. Ahead(m)'
      <3>1. \A j : Held(j)' = Held(j) /\ Bound(j)' = Bound(j)
        BY <1>2, <2>1 DEF Held, Bound
      <3> QED BY <1>1, <2>4, <3>1 DEF Ahead, Fresh
    <2>8. Past(m)' /\ Stamps'
      BY <1>1, <1>2, <2>1, <2>2 DEF Past, Stamps
    <2> QED BY <1>1, <2>2, <2>6, <2>7, <2>8 DEF Queue
  <1>7. CASE Holders(m, h) # {}
    <2>1. PICK d \in Blocks : Joins(k, d)
      BY <1>7, GrowJoins
    <2>2. /\ m.hash[d] = h /\ d # b /\ m'.hash = m.hash /\ m'.ok = m.ok
          /\ \A x \in Blocks : m'.ref[x] = m.ref[x] - (IF x = b THEN 1 ELSE 0)
                                                    + (IF x = d THEN 1 ELSE 0)
          /\ \A x \in Blocks : m'.last[x] = IF x = d /\ m.ref[d] = 0 THEN NoStamp ELSE m.last[x]
          /\ DOMAIN m'.heap \subseteq DOMAIN m.heap
      BY <2>1 DEF Joins
    <2>3. /\ Held(k)' = (Held(k) \ {b}) \cup {d}
          /\ tables'[k].stamp = tables[k].stamp
          /\ \A j \in Clients : j # k => tables'[j] = tables[j] /\ Held(j)' = Held(j)
      BY <1>1, <1>2, <2>1, JoinedTable
    <2> HIDE DEF b, h
    <2>4. ASSUME NEW x \in FreeTable(m') PROVE x \in FreeTable(m) /\ m'.last[x] = m.last[x]
      <3>1. x \in Blocks /\ m'.ref[x] = 0 /\ m.hash[x] # NoHash /\ m.ref[x] \in Nat
        BY <1>5, <2>2, <2>4 DEF FreeTable, Free
      <3>2. x # b
        BY <1>2, <3>1
      <3>3. x # d /\ m.ref[x] = 0
        BY <2>2, <3>1, <3>2
      <3> QED BY <2>2, <3>1, <3>3 DEF FreeTable, Free
    <2>5. Settled(m')
      BY <1>1, <2>2, <2>4 DEF Settled, Fresh
    <2>6. ASSUME NEW j \in Clients, NEW x \in Held(j)', NEW e \in DOMAIN m'.heap,
                 e[3] = x, e[4] # m'.hash[x]
          PROVE  e[1] < Bound(j)'
      <3>1. CASE j = k
        <4>1. Bound(j)' = clock
          BY <1>2, <2>3, <3>1 DEF Bound
        <4>2. e[1] <= clock - 1 /\ e[1] \in Int
          BY <1>1, <1>2, <1>4, <2>2 DEF Past, Latest
        <4> QED BY <1>4, <4>1, <4>2
      <3>2. CASE j # k
        <4>1. Bound(j)' = Bound(j) /\ x \in Held(j) /\ e \in DOMAIN m.heap
          BY <1>2, <2>2, <2>3, <2>6, <3>2 DEF Bound
        <4> QED BY <1>1, <2>2, <2>6, <4>1 DEF Ahead, Fresh
      <3> QED BY <3>1, <3>2
    <2>7. Ahead(m)'
      BY <2>6 DEF Ahead, Fresh
    <2>8. Past(m)'
      BY <1>1, <1>2, <2>2 DEF Past
    <2>9. Stamps'
      BY <1>1, <1>2, <2>3 DEF Stamps
    <2> QED BY <1>1, <2>2, <2>5, <2>7, <2>8, <2>9 DEF Queue
  <1> QED BY <1>6, <1>7

\* A block that is free after D's tables were freed was free before, or gets the
\* stamp of one of them.
LEMMA FreedBlock ==
    ASSUME CacheInv, m.ok, NEW D \in SUBSET Clients, Freed(m', D),
           NEW d \in Blocks, m'.ref[d] = 0
    PROVE  \/ m.ref[d] = 0 /\ m'.last[d] = m.last[d]
           \/ \E k \in D : d \in Held(k) /\ m'.last[d] = Bound(k)
  <1>1. Refs(m, Clients, {}) /\ Refs(m', Clients \ D, {})
    BY CacheFacts DEF Freed
  <1>2. CASE m'.last[d] = m.last[d] /\ \A k \in D : d \notin Held(k)
    <2>1. Clients \ D \in SUBSET Clients
      OBVIOUS
    <2>2. \A k \in Clients \ D : d \notin Held(k)
      BY <1>1, <2>1, HeldInUse
    <2>3. m.ref[d] = 0
      BY <1>1, <1>2, <2>2, HeldInUse
    <2> QED BY <1>2, <2>3
  <1> QED BY <1>2 DEF Freed

\* The queue, after tables were freed.
LEMMA QueueFreed ==
    ASSUME CacheInv, Queue, NEW D \in SUBSET Clients, Freed(m', D),
           tables' = [k \in Clients |-> IF k \in D THEN NoTable ELSE tables[k]],
           UNCHANGED <<kinds, clock>>, phase' \in {phase, "finish"},
           \A k \in D : Bound(k) <= Latest', Latest <= Latest'
    PROVE  Queue'
  <1>1. /\ m.ok /\ Settled(m) /\ Ahead(m) /\ Past(m) /\ Stamps /\ StateOK(m) /\ Covers(m)
        /\ Refs(m, Clients, {})
    BY CacheFacts DEF Queue
  <1>2. /\ StateOK(m') /\ m'.hash = m.hash /\ m'.ok = m.ok /\ Refs(m', Clients \ D, {})
    BY DEF Freed
  <1>3. /\ clock \in Nat /\ Latest \in Int /\ Latest' \in Int
        /\ \A k \in Clients : tables[k].stamp \in Int /\ Bound(k) \in Int
        /\ \A e \in DOMAIN m.heap : e[1] \in Int /\ e[3] \in Blocks /\ e[4] \in Hashes
    BY ClockFacts DEF Latest
  <1>4. ASSUME NEW d \in FreeTable(m')
        PROVE  \/ d \in FreeTable(m) /\ m'.last[d] = m.last[d] /\ Entry(m', d) = Entry(m, d)
               \/ \E k \in D : d \in Held(k) /\ m'.last[d] = Bound(k)
    <2>1. d \in Blocks /\ m'.ref[d] = 0 /\ m.hash[d] # NoHash
      BY <1>2, <1>4 DEF FreeTable, Free
    <2>2. CASE m.ref[d] = 0 /\ m'.last[d] = m.last[d]
      BY <1>2, <2>1, <2>2 DEF FreeTable, Free, Entry
    <2> QED BY <1>1, <2>1, <2>2, FreedBlock
  <1>5. ASSUME NEW d \in FreeTable(m')
        PROVE  /\ Entry(m', d)[1] = m'.last[d] /\ Entry(m', d)[3] = d
               /\ Entry(m', d)[4] = m'.hash[d] /\ Entry(m', d)[2] = -m'.hash[d][2]
    BY DEF Entry
  <1>6. ASSUME NEW e \in DOMAIN m'.heap, e[4] # m'.hash[e[3]]
        PROVE  e \in DOMAIN m.heap
    BY <1>5, <1>6 DEF Freed
  <1>7. Settled(m')
    <2> SUFFICES ASSUME NEW d \in FreeTable(m'), NEW e \in DOMAIN m'.heap,
                        e[3] = d, e[4] # m'.hash[d]
                 PROVE  e[1] < m'.last[d]
      BY DEF Settled, Fresh
    <2>1. e \in DOMAIN m.heap /\ e[4] # m.hash[d]
      BY <1>2, <1>6
    <2>2. CASE d \in FreeTable(m) /\ m'.last[d] = m.last[d]
      BY <1>1, <2>1, <2>2 DEF Settled, Fresh
    <2>3. ASSUME NEW k \in D, d \in Held(k), m'.last[d] = Bound(k) PROVE e[1] < m'.last[d]
      BY <1>1, <2>1, <2>3 DEF Ahead, Fresh
    <2> QED BY <1>4, <2>2, <2>3
  <1>8. Past(m)'
    <2> SUFFICES ASSUME NEW e \in DOMAIN m'.heap
                 PROVE  e[1] <= Latest' /\ e[2] = -e[4][2]
      BY DEF Past
    <2>1. ASSUME e \in DOMAIN m.heap PROVE e[1] <= Latest' /\ e[2] = -e[4][2]
      <3>1. e[1] <= Latest /\ e[2] = -e[4][2] /\ e[1] \in Int
        BY <1>1, <1>3, <2>1 DEF Past
      <3> QED BY <1>3, <3>1
    <2>2. ASSUME NEW d \in FreeTable(m'), e = Entry(m', d) PROVE e[1] <= Latest' /\ e[2] = -e[4][2]
      <3>1. CASE d \in FreeTable(m) /\ Entry(m', d) = Entry(m, d)
        BY <1>1, <2>1, <2>2, <3>1 DEF Covers
      <3>2. CASE \E k \in D : d \in Held(k) /\ m'.last[d] = Bound(k)
        BY <1>5, <2>2, <3>2
      <3> QED BY <1>4, <3>1, <3>2
    <2> QED BY <2>1, <2>2 DEF Freed
  <1>9. \A k \in Clients : IF k \in D THEN Held(k)' = {} ELSE Held(k)' = Held(k) /\ Bound(k)' = Bound(k)
    BY DEF Held, Bound, ToSet, NoTable
  <1>10. Ahead(m)'
    <2> SUFFICES ASSUME NEW k \in Clients, NEW b \in Held(k)', NEW e \in DOMAIN m'.heap,
                        e[3] = b, e[4] # m'.hash[b]
                 PROVE  e[1] < Bound(k)'
      BY DEF Ahead, Fresh
    <2>1. e \in DOMAIN m.heap /\ e[4] # m.hash[b] /\ b \in Held(k) /\ Bound(k)' = Bound(k)
      BY <1>2, <1>6, <1>9
    <2> QED BY <1>1, <2>1 DEF Ahead, Fresh
  <1>11. Stamps'
    <2> SUFFICES ASSUME NEW k \in Clients
                 PROVE  tables'[k].stamp <= IF phase' = "schedule" THEN clock' - 1 ELSE clock'
      BY DEF Stamps
    <2>1. tables[k].stamp <= IF phase = "schedule" THEN clock - 1 ELSE clock
      BY <1>1 DEF Stamps
    <2>2. tables'[k].stamp = IF k \in D THEN -1 ELSE tables[k].stamp
      BY DEF NoTable, NoStamp
    <2> QED BY <1>3, <2>1, <2>2
  <1> QED BY <1>1, <1>2, <1>7, <1>8, <1>10, <1>11 DEF Queue

\* The queue is in order in the beginning.
LEMMA QueueInit ==
    ASSUME Init
    PROVE  Queue
  <1>1. m.ok /\ DOMAIN m.heap = {}
    BY HeapOfSet DEF Init, EmptyBag
  <1>2. Stamps
    BY DEF Init, Stamps, NoTable, NoStamp
  <1> QED BY <1>1, <1>2 DEF Queue, Settled, Ahead, Past, Fresh

\* A step of the engine keeps the queue in order: the stamps only grow.
LEMMA QueueLater ==
    ASSUME CacheInv, Queue, m' = m, kinds' = kinds,
           \A k \in Clients : tables'[k].blocks = tables[k].blocks,
           \A k \in Clients : Bound(k) <= Bound(k)' /\ Bound(k)' \in Int,
           Latest <= Latest', Latest' \in Int, Stamps'
    PROVE  Queue'
  <1>1. m.ok /\ Settled(m) /\ Ahead(m) /\ Past(m)
    BY DEF Queue
  <1>2. /\ Latest \in Int /\ \A k \in Clients : Bound(k) \in Int
        /\ \A e \in DOMAIN m.heap : e[1] \in Int
    BY ClockFacts
  <1>3. Past(m)'
    <2> SUFFICES ASSUME NEW e \in DOMAIN m.heap PROVE e[1] <= Latest' /\ e[2] = -e[4][2]
      BY DEF Past
    <2>1. e[1] <= Latest /\ e[2] = -e[4][2] /\ e[1] \in Int
      BY <1>1, <1>2 DEF Past
    <2> QED BY <1>2, <2>1
  <1>4. Ahead(m)'
    <2> SUFFICES ASSUME NEW k \in Clients, NEW b \in Held(k)', NEW e \in DOMAIN m.heap,
                        e[3] = b, e[4] # m.hash[b]
                 PROVE  e[1] < Bound(k)'
      BY DEF Ahead, Fresh
    <2>1. b \in Held(k)
      BY DEF Held
    <2>2. e[1] < Bound(k) /\ e[1] \in Int /\ Bound(k) \in Int /\ Bound(k) <= Bound(k)'
          /\ Bound(k)' \in Int
      BY <1>1, <1>2, <2>1 DEF Ahead, Fresh
    <2> QED BY <2>2
  <1> QED BY <1>1, <1>3, <1>4 DEF Queue

\* Every step keeps the queue in order.
LEMMA QueueStep ==
    ASSUME CacheInv, Queue, [Next]_vars, "match" \notin kinds
    PROVE  Queue'
  <1>0. /\ clock \in Nat /\ m.ok /\ Stamps
        /\ kinds \subseteq {"finish", "retain"} \/ kinds \subseteq {"swap", "match"}
    BY CacheAssumption DEF CacheInv, Queue
  <1>1. CASE UNCHANGED vars
    BY <1>1 DEF vars, Queue, Settled, Ahead, Past, Stamps, Fresh, Held, Bound, Latest,
                FreeTable, Free
  <1>2. CASE Tick /\ UNCHANGED kinds
    <2>1. m' = m /\ tables' = tables /\ kinds' = kinds /\ phase = "finish"
          /\ clock' = clock + 1 /\ phase' = "schedule"
      BY <1>2 DEF Tick
    <2>2. Latest <= Latest' /\ Latest' \in Int
      BY <1>0, <2>1 DEF Latest
    <2>3. \A k \in Clients : tables[k].stamp \in Int
      BY ClockFacts
    <2>4. \A k \in Clients : Bound(k) <= Bound(k)' /\ Bound(k)' \in Int
      BY <1>0, <2>1, <2>3 DEF Bound
    <2>5. Stamps'
      BY <1>0, <2>1, <2>3 DEF Stamps
    <2> QED BY <2>1, <2>2, <2>4, <2>5, QueueLater
  <1>3. CASE FreePending /\ UNCHANGED kinds
    <2>1. Freed(m', Pending) /\ UNCHANGED <<kinds, clock, phase>> /\ Pending \in SUBSET Clients
          /\ tables' = [k \in Clients |-> IF k \in Pending THEN NoTable ELSE tables[k]]
          /\ "swap" \in kinds
      BY <1>3, PendingFrees DEF FreePending, Pending
    <2>2. Latest = clock - 1 /\ Latest' = clock - 1 /\ Latest <= Latest'
      BY <1>0, <2>1 DEF Latest
    <2>3. ASSUME NEW k \in Pending PROVE Bound(k) <= Latest'
      <3>1. k \in Clients /\ tables[k].stamp # NoStamp /\ tables[k].stamp # clock
            /\ Bound(k) = tables[k].stamp
        BY DEF Pending, Bound
      <3>2. tables[k].stamp \in Int
        BY <3>1, ClockFacts
      <3>3. tables[k].stamp <= IF phase = "schedule" THEN clock - 1 ELSE clock
        BY <1>0, <3>1 DEF Stamps
      <3> QED BY <1>0, <2>2, <3>1, <3>2, <3>3
    <2> QED BY <2>1, <2>2, <2>3, QueueFreed
  <1>4. ASSUME NEW c \in Chains, NEW len \in 1..Depth, Match(c, len) PROVE FALSE
    BY <1>4 DEF Match
  <1>5. ASSUME NEW k \in Clients, Take(k), UNCHANGED kinds PROVE Queue'
    <2>1. PICK c \in Chains, n \in 0..(Depth - 1) :
             /\ Needed(Wanted(c, n)) <= Cardinality(Free(m))
             /\ m' = Allocate(m, Wanted(c, n)).s
             /\ tables' = IF Allocate(m, Wanted(c, n)).s.ok
                          THEN [tables EXCEPT ![k] = [blocks |-> Allocate(m, Wanted(c, n)).table,
                                    chain |-> c, stamp |-> NoStamp]]
                          ELSE tables
      BY <1>5 DEF Take
    <2>2. tables[k] = NoTable /\ UNCHANGED <<kinds, clock, phase>> /\ phase = "schedule"
      BY <1>5 DEF Take
    <2>3. n \in Nat /\ n < Depth /\ n + 1 \in Nat
      BY BlockFacts
    <2>4. HashList(Wanted(c, n), n + 1)
      BY <2>3, HashLists
    <2>5. Latest = clock - 1 /\ Latest' = Latest
      BY <2>2 DEF Latest
    <2>6. NoStamp \in {NoStamp, clock}
      OBVIOUS
    <2> QED BY <2>1, <2>2, <2>3, <2>4, <2>5, <2>6, QueueGetsTable
  <1>6. ASSUME NEW k \in Clients, SwapOut(k), UNCHANGED kinds PROVE Queue'
    <2> DEFINE hs(c, n) == [i \in 1..n |-> Hash(c, i)]
    <2>1. PICK c \in Chains, n \in 1..Depth :
             /\ Needed(hs(c, n)) <= Cardinality(Free(m))
             /\ m' = Allocate(m, hs(c, n)).s
             /\ tables' = IF Allocate(m, hs(c, n)).s.ok
                          THEN [tables EXCEPT ![k] = [blocks |-> Allocate(m, hs(c, n)).table,
                                    chain |-> c, stamp |-> clock]]
                          ELSE tables
      BY <1>6 DEF SwapOut
    <2>2. tables[k] = NoTable /\ UNCHANGED <<kinds, clock>> /\ phase' = "finish"
          /\ "swap" \in kinds
      BY <1>6 DEF SwapOut
    <2>3. n \in Nat /\ n <= Depth
      BY BlockFacts
    <2>4. HashList(hs(c, n), n)
      BY <2>3, HashLists
    <2>5. Latest = clock - 1 /\ Latest' = Latest /\ clock \in {NoStamp, clock}
      BY <2>2 DEF Latest
    <2> HIDE DEF hs
    <2> QED BY <2>1, <2>2, <2>3, <2>4, <2>5, QueueGetsTable
  <1>7. ASSUME NEW k \in Clients, Grow(k), UNCHANGED kinds PROVE Queue'
    BY <1>7, QueueGrows
  <1>8. ASSUME NEW k \in Clients, NEW v, Drop(k, v), v = Bound(k), UNCHANGED <<kinds, clock>>,
               phase' \in {phase, "finish"}, Bound(k) <= Latest', Latest <= Latest'
        PROVE  Queue'
    <2>1. Bound(k) \in Int /\ Drop(k, Bound(k))
      BY <1>8, BoundFacts
    <2>2. Freed(m', {k}) /\ {k} \in SUBSET Clients
          /\ tables' = [j \in Clients |-> IF j \in {k} THEN NoTable ELSE tables[j]]
      BY <1>0, <2>1, DropFrees
    <2>3. \A j \in {k} : Bound(j) <= Latest'
      BY <1>8
    <2> QED BY <1>8, <2>2, <2>3, QueueFreed
  <1>9. ASSUME NEW k \in Clients, Finish(k), UNCHANGED kinds PROVE Queue'
    <2>1. Drop(k, clock) /\ clock = Bound(k) /\ UNCHANGED <<kinds, clock>> /\ phase' = "finish"
          /\ "swap" \notin kinds
      BY <1>0, <1>9, BoundFacts DEF Finish
    <2>2. Latest' = clock /\ Latest <= Latest' /\ Bound(k) <= Latest'
      BY <1>0, <2>1 DEF Latest
    <2> QED BY <1>8, <2>1, <2>2
  <1>10. ASSUME NEW k \in Clients, DropRetained(k), UNCHANGED kinds PROVE Queue'
    <2>1. Drop(k, tables[k].stamp) /\ tables[k].stamp = Bound(k)
          /\ UNCHANGED <<kinds, clock, phase>> /\ "swap" \notin kinds
      BY <1>0, <1>10, BoundFacts DEF DropRetained
    <2>2. tables[k].stamp \in Int /\ tables[k].stamp <= IF phase = "schedule" THEN clock - 1 ELSE clock
      BY <1>0, ClockFacts DEF Stamps
    <2>3. Bound(k) <= Latest' /\ Latest <= Latest'
      BY <1>0, <2>1, <2>2 DEF Latest
    <2> QED BY <1>8, <2>1, <2>3
  <1>11. ASSUME NEW k \in Clients, Retain(k), UNCHANGED kinds PROVE Queue'
    <2>1. /\ tables' = [tables EXCEPT ![k].stamp = clock] /\ m' = m /\ clock' = clock
          /\ phase' = "finish" /\ tables[k].stamp = NoStamp
          /\ tables \in [Clients -> Tables]
      BY <1>11 DEF Retain, CacheInv
    <2>2. \A j \in Clients : /\ tables'[j].blocks = tables[j].blocks
                             /\ tables'[j].stamp = IF j = k THEN clock ELSE tables[j].stamp
                             /\ tables[j].stamp \in Int
      BY <2>1 DEF Tables
    <2>3. \A j \in Clients : Bound(j) <= Bound(j)' /\ Bound(j)' \in Int
      BY <1>0, <2>1, <2>2 DEF Bound
    <2>4. Latest <= Latest' /\ Latest' \in Int
      BY <1>0, <1>11, <2>1 DEF Latest
    <2>5. Stamps'
      BY <1>0, <2>1, <2>2 DEF Stamps
    <2> QED BY <1>11, <2>1, <2>2, <2>3, <2>4, <2>5, QueueLater
  <1> QED BY <1>1, <1>2, <1>3, <1>4, <1>5, <1>6, <1>7, <1>9, <1>10, <1>11 DEF Next

\* The queue's invariant: where no table is freed unstamped, the allocator's
\* sanity checks hold and an outdated entry is older than its block's stamp.
THEOREM QueueInvariant == Spec => []QueueInv
  <1>1. Init => QueueInv
    BY QueueInit DEF QueueInv
  <1>2. CacheInv /\ QueueInv /\ [Next]_vars => QueueInv'
    <2>1. [Next]_vars => kinds' = kinds
      BY DEF Next, vars
    <2> QED BY <2>1, QueueStep DEF QueueInv
  <1> QED BY <1>1, <1>2, CacheInvariant, PTL DEF Spec

\* LazyHeapExact: the lazy queue of LRUEvictor evicts the oldest, then deepest,
\* free block.
THEOREM QueueStaysExact == Spec => []LazyHeapExact
  <1>1. CacheInv /\ QueueInv => LazyHeapExact
    BY QueueExact DEF QueueInv, LazyHeapExact
  <1> QED BY <1>1, CacheInvariant, QueueInvariant, PTL
-----------------------------------------------------------------------------
(***************************************************************************)
(* Where requests free their blocks when they finish, what is cached is    *)
(* closed under predecessors.  A block in use has its own in the tables it *)
(* is in.  Those of a free block were last accessed with it or later, and  *)
(* are less deep: evict pops it before any of them.                        *)
(***************************************************************************)
\* The predecessors of a chain's block are the chain's.
LEMMA PriorFacts ==
    ASSUME NEW c \in Chains, NEW p \in 1..Depth, NEW i \in 1..(p - 1)
    PROVE  Prior(Hash(c, p), i) = Hash(c, i) /\ i \in 1..Depth
  <1>1. Depth \in Nat /\ Fork \in Int
    BY BlockFacts
  <1>2. Hash(c, p)[1] = IF p <= Fork THEN "all" ELSE c
    BY DEF Hash
  <1>3. CASE i <= Fork
    BY <1>1, <1>3 DEF Prior, Hash
  <1>4. CASE ~(i <= Fork)
    <2>1. ~(p <= Fork)
      BY <1>1, <1>4
    <2>2. Hash(c, p)[1] = c
      BY <1>2, <2>1
    <2> QED BY <1>1, <1>4, <2>2 DEF Prior, Hash
  <1> QED BY <1>3, <1>4

\* A predecessor is less deep, and is the hash of a full block.
LEMMA PriorDepth ==
    ASSUME NEW h, NEW i
    PROVE  Prior(h, i)[2] = i /\ Prior(h, i) # NoHash
  BY DEF Prior, NoHash

\* A grabbed block leaves what is cached closed: it was a hit, or the block that
\* evict popped, which leads no free one.
LEMMA GrabClosed ==
    ASSUME NEW s, StateOK(s), Covers(s), Settled(s), Past(s), Closed(s),
           NEW t, NEW h, NEW b \in Blocks, Grabs(s, t, h, b)
    PROVE  Closed(t)
  <1>1. s.ref \in [Blocks -> Nat] /\ s.hash \in [Blocks -> Hashes \cup {NoHash}]
        /\ s.last \in [Blocks -> Int]
    BY StateFields
  <1> SUFFICES ASSUME NEW d \in FreeTable(t), NEW i \in 1..(t.hash[d][2] - 1)
               PROVE  \E x \in Blocks : Leads(t, x, d, i)
    BY DEF Closed
  <1>2. d \in Blocks /\ t.ref[d] = 0 /\ t.hash[d] # NoHash
    BY DEF FreeTable, Free
  <1>3. d # b
    BY <1>1, <1>2 DEF Grabs
  <1>4. s.ref[d] = 0 /\ s.hash[d] = t.hash[d] /\ s.last[d] = t.last[d]
    BY <1>1, <1>2, <1>3 DEF Grabs
  <1>5. d \in FreeTable(s)
    BY <1>2, <1>4 DEF FreeTable, Free
  <1>6. PICK x \in Blocks : Leads(s, x, d, i)
    BY <1>4, <1>5 DEF Closed
  <1>7. s.hash[x] = Prior(s.hash[d], i) /\ (s.ref[x] = 0 => s.last[d] <= s.last[x])
    BY <1>6 DEF Leads
  <1>8. CASE x # b
    <2>1. t.ref[x] = s.ref[x] /\ t.hash[x] = s.hash[x] /\ t.last[x] = s.last[x]
      BY <1>1, <1>8 DEF Grabs
    <2>2. Leads(t, x, d, i)
      BY <1>4, <1>7, <2>1 DEF Leads
    <2> QED BY <2>2
  <1>9. CASE x = b /\ s.hash[b] = h
    <2>1. t.hash[b] = h /\ t.ref[b] # 0
      BY <1>1 DEF Grabs
    <2>2. Leads(t, b, d, i)
      BY <1>4, <1>7, <1>9, <2>1 DEF Leads
    <2> QED BY <2>2
  <1>10. CASE x = b /\ s.hash[b] # h
    <2>1. s.hash[b] # NoHash /\ s.hash[b][2] = i
      BY <1>7, <1>10, PriorDepth
    <2>2. FreeTable(s) # {} /\ b = Popped(s)[3]
      BY <1>10, <2>1 DEF Grabs
    <2>3. /\ b \in FreeTable(s)
          /\ \/ s.last[b] < s.last[d]
             \/ s.last[b] = s.last[d] /\ s.hash[b][2] >= s.hash[d][2]
      <3>1. s.hash[b][2] \in Int /\ s.hash[d][2] \in Int
        BY <1>1, <1>2, <1>4, <2>1, HashPair
      <3> QED BY <1>5, <2>2, <3>1, PoppedExact
    <2>4. s.last[d] <= s.last[b]
      BY <1>7, <1>10, <2>3 DEF FreeTable, Free
    <2>5. s.hash[d][2] \in Int /\ s.last[d] \in Int /\ s.last[b] \in Int
      BY <1>1, <1>2, <1>4, HashPair
    <2>6. i \in Int /\ i < s.hash[d][2]
      BY <1>4, <2>5
    <2> QED BY <2>1, <2>3, <2>4, <2>5, <2>6
  <1> QED BY <1>8, <1>9, <1>10

\* So does an allocation.
LEMMA ClosedRun ==
    ASSUME CacheInv, Queue, Closed(m), Recent(m),
           NEW n \in Nat, NEW hs, NEW run, AllocRun(run, m, hs, n)
    PROVE  \A i \in 0..n : Closed(run[i].s) /\ Recent(run[i].s)
  <1> DEFINE good(i) == Closed(run[i].s) /\ Recent(run[i].s)
             S == {i \in 0..n : good(i)}
  <1>1. good(0)
    BY DEF AllocRun
  <1>2. ASSUME NEW i \in 1..n, good(i - 1) PROVE good(i)
    <2> DEFINE s == run[i - 1].s
               t == run[i].s
    <2>0. i - 1 \in 0..n /\ i \in 0..n
      OBVIOUS
    <2>1. AllocStep(run[i - 1], run[i], hs[i]) /\ Partial(m, run[i - 1], hs, i - 1, n)
      BY <2>0 DEF AllocRun
    <2>2. /\ s.ok /\ Settled(s) /\ DOMAIN s.heap \subseteq DOMAIN m.heap /\ t.ok
      BY <2>0, QueueRun
    <2>3. StateOK(s) /\ Covers(s) /\ Closed(s) /\ Recent(s)
      BY <1>2, <2>1 DEF Partial
    <2>4. Past(s)
      BY <2>2 DEF Queue, Past
    <2>5. ~Fails(s, t)
      <3> HIDE DEF s, t
      <3> QED BY <2>2, <2>3, <2>4, PoppedExact DEF Fails
    <2>6. PICK b \in Blocks : Grabs(s, t, hs[i], b)
      BY <2>1, <2>2, <2>5 DEF AllocStep
    <2> HIDE DEF s, t
    <2>7. Closed(t)
      BY <2>2, <2>3, <2>4, <2>6, GrabClosed
    <2>8. Recent(t)
      <3> SUFFICES ASSUME NEW x \in Blocks PROVE t.last[x] <= clock
        BY DEF Recent
      <3>1. s.last \in [Blocks -> Int]
        BY <2>3, StateFields
      <3>2. t.last[x] = s.last[x] \/ t.last[x] = -1
        BY <2>6, <3>1 DEF Grabs, NoStamp
      <3>3. s.last[x] <= clock /\ clock \in Nat
        BY <2>3 DEF Recent, CacheInv
      <3> QED BY <3>2, <3>3
    <2> QED BY <2>7, <2>8 DEF t
  <1>3. \A i \in 0..n : i \in S
    <2> HIDE DEF good
    <2>1. 0 \in S
      BY <1>1
    <2>2. \A i \in 1..n : i - 1 \in S => i \in S
      BY <1>2
    <2> HIDE DEF S
    <2> QED BY <2>1, <2>2, UpTo
  <1> QED BY <1>3

\* A block in a table, and the table's block i.
LEMMA TableLeads ==
    ASSUME CacheInv, m.ok, NEW k \in Clients, NEW b \in Held(k), m.hash[b] # NoHash,
           NEW i \in 1..(m.hash[b][2] - 1)
    PROVE  \E d \in Held(k) : d \in Blocks /\ m.hash[d] = Prior(m.hash[b], i)
  <1> DEFINE t == tables[k].blocks
             c == tables[k].chain
  <1>1. t \in Seq(Blocks) /\ Content(m, t, c) /\ Held(k) = ToSet(t)
    BY CacheFacts DEF Contents, Held
  <1>2. t \in [1..Len(t) -> Blocks] /\ Len(t) \in Nat
    BY <1>1
  <1> HIDE DEF t, c
  <1>3. PICK p \in 1..Len(t) : b = t[p]
    BY <1>1, <1>2 DEF ToSet
  <1>4. m.hash[b] = Hash(c, p) /\ c \in Chains /\ Len(t) <= Depth
    <2>1. t # <<>>
      BY <1>2, <1>3
    <2> QED BY <1>1, <1>3, <2>1 DEF Content
  <1>5. p \in 1..Depth
    BY <1>2, <1>4, BlockFacts
  <1>6. m.hash[b][2] = p
    BY <1>4, <1>5, HashFacts
  <1>7. i \in 1..(p - 1)
    BY <1>6
  <1>8. i \in 1..Len(t) /\ i # Len(t)
    <2>1. Len(t) \in Nat
      BY <1>2
    <2> QED BY <1>7, <2>1
  <1>9. m.hash[t[i]] = Hash(c, i)
    BY <1>1, <1>8 DEF Content
  <1>10. Prior(m.hash[b], i) = Hash(c, i)
    BY <1>4, <1>5, <1>7, PriorFacts
  <1>11. t[i] \in Blocks /\ t[i] \in Held(k)
    BY <1>1, <1>2, <1>8 DEF ToSet
  <1> QED BY <1>9, <1>10, <1>11

\* A free block's predecessors, after an unfinished block was filled.
LEMMA ClosedGrows ==
    ASSUME CacheInv, m.ok, Closed(m), Recent(m), NEW k \in Clients, Grow(k)
    PROVE  Closed(m') /\ Recent(m)'
  <1> DEFINE t == tables[k].blocks
             b == Last(t)
             h == Hash(tables[k].chain, Len(t))
  <1>1. t # <<>> /\ m.hash[b] = NoHash /\ clock' = clock
    BY DEF Grow
  <1>2. b \in Blocks /\ m.ref[b] = 1
    BY <1>1, Unfinished
  <1>3. /\ m \in State /\ m.hash \in [Blocks -> Hashes \cup {NoHash}] /\ m.ref \in [Blocks -> Nat]
        /\ m.last \in [Blocks -> Int] /\ clock \in Nat
    BY CacheFacts, StateFields DEF CacheInv
  <1>4. ASSUME \A x \in Blocks : m.hash[x] # NoHash =>
                  /\ m'.hash[x] = m.hash[x]
                  /\ m'.ref[x] = 0 => m.ref[x] = 0 /\ m'.last[x] = m.last[x],
               \A x \in FreeTable(m') : x \in FreeTable(m)
        PROVE  Closed(m')
    <2> SUFFICES ASSUME NEW y \in FreeTable(m'), NEW i \in 1..(m'.hash[y][2] - 1)
                 PROVE  \E x \in Blocks : Leads(m', x, y, i)
      BY DEF Closed
    <2>1. y \in FreeTable(m) /\ y \in Blocks /\ m.hash[y] # NoHash /\ m'.ref[y] = 0
      BY <1>4 DEF FreeTable, Free
    <2>2. m'.hash[y] = m.hash[y] /\ m'.last[y] = m.last[y]
      BY <1>4, <2>1
    <2>3. PICK x \in Blocks : Leads(m, x, y, i)
      BY <2>1, <2>2 DEF Closed
    <2>4. m.hash[x] # NoHash
      BY <2>3, PriorDepth DEF Leads
    <2>5. Leads(m', x, y, i)
      BY <1>4, <2>2, <2>3, <2>4 DEF Leads
    <2> QED BY <2>5
  <1>5. CASE Holders(m, h) = {}
    <2>1. m' = [m EXCEPT !.hash[b] = h]
      BY <1>5 DEF Grow
    <2> HIDE DEF b, h
    <2>2. m'.ref = m.ref /\ m'.last = m.last /\ m'.hash = [m.hash EXCEPT ![b] = h]
      BY <1>3, <2>1 DEF State
    <2>3. \A x \in Blocks : m'.hash[x] = IF x = b THEN h ELSE m.hash[x]
      BY <1>3, <2>2
    <2>4. \A x \in FreeTable(m') : x \in FreeTable(m)
      BY <1>2, <2>2, <2>3 DEF FreeTable, Free
    <2>5. Closed(m')
      BY <1>1, <1>4, <2>2, <2>3, <2>4
    <2>6. Recent(m)'
      BY <1>1, <2>2 DEF Recent
    <2> QED BY <2>5, <2>6
  <1>6. CASE Holders(m, h) # {}
    <2>1. PICK d \in Blocks : Joins(k, d)
      BY <1>6, GrowJoins
    <2>2. /\ d # b /\ m'.hash = m.hash
          /\ \A x \in Blocks : m'.ref[x] = m.ref[x] - (IF x = b THEN 1 ELSE 0)
                                                    + (IF x = d THEN 1 ELSE 0)
          /\ \A x \in Blocks : m'.last[x] = IF x = d /\ m.ref[d] = 0 THEN NoStamp ELSE m.last[x]
      BY <2>1 DEF Joins
    <2> HIDE DEF b, h
    <2>3. ASSUME NEW x \in Blocks, m.hash[x] # NoHash, m'.ref[x] = 0
          PROVE  m.ref[x] = 0 /\ m'.last[x] = m.last[x]
      <3>1. x # b /\ m.ref[x] \in Nat
        BY <1>1, <1>3, <2>3
      <3>2. x # d /\ m.ref[x] = 0
        BY <2>2, <2>3, <3>1
      <3> QED BY <2>2, <3>2
    <2>4. \A x \in FreeTable(m') : x \in FreeTable(m)
      BY <2>2, <2>3 DEF FreeTable, Free
    <2>5. Closed(m')
      BY <1>4, <2>2, <2>3, <2>4
    <2>6. Recent(m)'
      <3> SUFFICES ASSUME NEW x \in Blocks PROVE m'.last[x] <= clock
        BY <1>1 DEF Recent
      <3>1. m.last[x] <= clock /\ (m'.last[x] = m.last[x] \/ m'.last[x] = -1)
        BY <2>2 DEF Recent, NoStamp
      <3> QED BY <1>3, <3>1
    <2> QED BY <2>5, <2>6
  <1> QED BY <1>5, <1>6

\* A free block's predecessors, after a request finished: its blocks get the
\* latest stamp, all of them.
LEMMA ClosedFinishes ==
    ASSUME CacheInv, m.ok, Closed(m), Recent(m), NEW k \in Clients, Finish(k)
    PROVE  Closed(m') /\ Recent(m)'
  <1>1. Drop(k, clock) /\ clock' = clock /\ Bound(k) = clock
    BY BoundFacts DEF Finish
  <1>2. Freed(m', {k}) /\ {k} \in SUBSET Clients
    BY <1>1, BoundFacts, DropFrees
  <1>3. /\ m'.hash = m.hash /\ clock \in Nat /\ m.last \in [Blocks -> Int]
        /\ m'.last \in [Blocks -> Int]
    BY <1>2, CacheFacts, StateFields DEF Freed, CacheInv
  <1>4. \A b \in Blocks : /\ m'.last[b] = m.last[b] \/ m'.last[b] = clock
                          /\ b \in Held(k) => m'.last[b] = clock
    BY <1>1, <1>2 DEF Freed
  <1>5. Recent(m)'
    BY <1>1, <1>3, <1>4 DEF Recent
  <1>6. ASSUME NEW b \in Blocks, m'.ref[b] = 0
        PROVE  (m.ref[b] = 0 /\ m'.last[b] = m.last[b]) \/ (b \in Held(k) /\ m'.last[b] = clock)
    BY <1>1, <1>2, <1>6, FreedBlock
  <1>7. ASSUME NEW b \in FreeTable(m'), NEW i \in 1..(m'.hash[b][2] - 1)
        PROVE  \E d \in Blocks : Leads(m', d, b, i)
    <2>1. b \in Blocks /\ m'.ref[b] = 0 /\ m.hash[b] # NoHash /\ i \in 1..(m.hash[b][2] - 1)
      BY <1>3, <1>7 DEF FreeTable, Free
    <2>2. CASE m.ref[b] = 0 /\ m'.last[b] = m.last[b]
      <3>1. b \in FreeTable(m)
        BY <2>1, <2>2 DEF FreeTable, Free
      <3>2. PICK d \in Blocks : Leads(m, d, b, i)
        BY <2>1, <3>1 DEF Closed
      <3>3. m'.hash[d] = Prior(m'.hash[b], i)
        BY <1>3, <3>2 DEF Leads
      <3>4. ASSUME m'.ref[d] = 0 PROVE m'.last[b] <= m'.last[d]
        <4>1. CASE m.ref[d] = 0 /\ m'.last[d] = m.last[d]
          BY <2>2, <3>2, <4>1 DEF Leads
        <4>2. CASE m'.last[d] = clock
          BY <2>1, <2>2, <4>2 DEF Recent
        <4> QED BY <1>6, <3>4, <4>1, <4>2
      <3>5. Leads(m', d, b, i)
        BY <3>3, <3>4 DEF Leads
      <3> QED BY <3>5
    <2>3. CASE b \in Held(k) /\ m'.last[b] = clock
      <3>1. PICK d \in Held(k) : d \in Blocks /\ m.hash[d] = Prior(m.hash[b], i)
        BY <2>1, <2>3, TableLeads
      <3>2. m'.last[d] = clock /\ m'.last[b] <= m'.last[d]
        BY <1>3, <1>4, <2>3, <3>1
      <3>3. Leads(m', d, b, i)
        BY <1>3, <3>1, <3>2 DEF Leads
      <3> QED BY <3>1, <3>3
    <2> QED BY <1>6, <2>1, <2>2, <2>3
  <1>8. Closed(m')
    BY <1>7 DEF Closed
  <1> QED BY <1>5, <1>8

\* Every step keeps what is cached closed.
LEMMA ClosedStep ==
    ASSUME CacheInv, Queue, Closed(m), Recent(m), [Next]_vars, kinds = {"finish"}
    PROVE  Closed(m') /\ Recent(m)'
  <1>0. m.ok /\ clock \in Nat /\ m.last \in [Blocks -> Int]
    BY CacheFacts, StateFields DEF CacheInv, Queue
  <1>1. CASE UNCHANGED vars
    BY <1>1 DEF vars, Recent
  <1>2. CASE Tick
    BY <1>0, <1>2 DEF Tick, Recent
  <1>3. ASSUME NEW k \in Clients, Take(k) PROVE Closed(m') /\ Recent(m)'
    <2>1. PICK c \in Chains, n \in 0..(Depth - 1) :
             /\ Needed(Wanted(c, n)) <= Cardinality(Free(m))
             /\ m' = Allocate(m, Wanted(c, n)).s
      BY <1>3 DEF Take
    <2> DEFINE hs == Wanted(c, n)
               l == n + 1
    <2>2. n \in Nat /\ n < Depth /\ l \in Nat /\ clock' = clock
      BY <1>3, BlockFacts DEF Take
    <2>3. HashList(hs, l)
      BY <2>2, HashLists
    <2>4. StateOK(m) /\ Covers(m) /\ Unique(m) /\ Private(m)
      BY <1>0, CacheFacts
    <2> HIDE DEF hs, l
    <2>5. PICK run : AllocRun(run, m, hs, l)
      BY <1>0, <2>1, <2>2, <2>3, <2>4, AllocateRuns, NeededFrom DEF hs
    <2>6. l \in 0..l /\ run[l].s = m'
      BY <2>1, <2>2, <2>5 DEF AllocRun, hs
    <2>7. Closed(m') /\ Recent(m')
      BY <2>2, <2>5, <2>6, ClosedRun
    <2> QED BY <2>2, <2>7 DEF Recent
  <1>4. ASSUME NEW k \in Clients, Grow(k) PROVE Closed(m') /\ Recent(m)'
    BY <1>0, <1>4, ClosedGrows
  <1>5. ASSUME NEW k \in Clients, Finish(k) PROVE Closed(m') /\ Recent(m)'
    BY <1>0, <1>5, ClosedFinishes
  <1>6. ~FreePending /\ (\A c \in Chains, len \in 1..Depth : ~Match(c, len))
        /\ \A k \in Clients : ~Retain(k) /\ ~DropRetained(k) /\ ~SwapOut(k)
    BY DEF FreePending, Match, Retain, DropRetained, SwapOut
  <1> QED BY <1>1, <1>2, <1>3, <1>4, <1>5, <1>6 DEF Next

\* The closure's invariant: where requests only finish, the predecessors of a
\* free block are cached, in use or freed no earlier.
THEOREM ClosedInvariant == Spec => []ClosedInv
  <1>1. Init => ClosedInv
    <2>1. Init => FreeTable(m) = {}
      BY DEF Init, FreeTable, Free
    <2>2. Init => Recent(m)
      BY DEF Init, Recent, NoStamp
    <2> QED BY <2>1, <2>2 DEF ClosedInv, Closed
  <1>2. CacheInv /\ QueueInv /\ ClosedInv /\ [Next]_vars => ClosedInv'
    <2>1. [Next]_vars => kinds' = kinds
      BY DEF Next, vars
    <2> QED BY <2>1, ClosedStep DEF ClosedInv, QueueInv
  <1> QED BY <1>1, <1>2, CacheInvariant, QueueInvariant, PTL DEF Spec

\* A cached block's predecessors are cached.
LEMMA CachedBefore ==
    ASSUME CacheInv, QueueInv, ClosedInv, kinds = {"finish"},
           NEW c \in Chains, NEW j \in 1..Depth, NEW i \in 1..j,
           Holders(m, Hash(c, j)) # {}
    PROVE  Holders(m, Hash(c, i)) # {}
  <1>1. m.ok /\ Closed(m) /\ Refs(m, Clients, {}) /\ m.ref \in [Blocks -> Nat]
    BY CacheFacts, StateFields DEF QueueInv, Queue, ClosedInv
  <1>2. PICK b \in Blocks : m.hash[b] = Hash(c, j)
    BY DEF Holders
  <1>3. m.hash[b] # NoHash /\ m.hash[b][2] = j
    BY <1>2, HashFacts
  <1>4. CASE i = j
    BY <1>4
  <1>5. CASE i # j
    <2>1. i \in 1..(j - 1) /\ i \in 1..(m.hash[b][2] - 1)
      BY <1>3, <1>5
    <2>2. Prior(m.hash[b], i) = Hash(c, i)
      BY <1>2, <2>1, PriorFacts
    <2>3. \E d \in Blocks : m.hash[d] = Prior(m.hash[b], i)
      <3>1. CASE m.ref[b] = 0
        <4>1. b \in FreeTable(m)
          BY <1>3, <3>1 DEF FreeTable, Free
        <4> QED BY <1>1, <2>1, <4>1 DEF Closed, Leads
      <3>2. CASE m.ref[b] # 0
        <4>1. PICK k \in Clients : b \in Held(k)
          BY <1>1, <3>2, HeldInUse
        <4> QED BY <1>1, <1>3, <2>1, <4>1, TableLeads
      <3> QED BY <3>1, <3>2
    <2> QED BY <2>2, <2>3 DEF Holders
  <1> QED BY <1>4, <1>5

\* PrefixClosed: no hash is cached twice, and where requests free their blocks
\* when they finish the predecessors of a cached block are cached.
THEOREM CacheStaysClosed == Spec => []PrefixClosed
  <1>1. CacheInv /\ QueueInv /\ ClosedInv => PrefixClosed
    BY CachedBefore DEF PrefixClosed, CacheInv, Unique
  <1> QED BY <1>1, CacheInvariant, QueueInvariant, ClosedInvariant, PTL

\* BisectExact: there, find_cached_blocks_prefix finds the longest cached prefix.
THEOREM BisectStaysExact == Spec => []BisectExact
  <1>1. ASSUME CacheInv, QueueInv, ClosedInv PROVE BisectExact
    <2> SUFFICES ASSUME kinds = {"finish"}, NEW c \in Chains, NEW len \in 1..Depth
                 PROVE  CachedBlocks(m, c, len) = Max({n \in 0..len :
                            \A i \in 1..n : Holders(m, Hash(c, i)) # {}})
      BY DEF BisectExact
    <2> DEFINE x == CachedBlocks(m, c, len)
               S == {n \in 0..len : \A i \in 1..n : Holders(m, Hash(c, i)) # {}}
    <2>1. len \in Nat /\ \A j \in 1..len : j \in 1..Depth
      BY BlockFacts
    <2>2. \A j \in 1..len : \A i \in 1..j : Hit(m, c, j) => Hit(m, c, i)
      BY <1>1, <2>1, CachedBefore DEF Hit
    <2>3. x \in 0..len /\ \A i \in 1..len : Hit(m, c, i) <=> i <= x
      BY <2>1, <2>2, CachedBlocksFacts
    <2> HIDE DEF x
    <2>4. x \in S
      BY <2>1, <2>3 DEF Hit
    <2>5. ASSUME NEW n \in S PROVE n \in 0..len /\ n <= x
      <3>1. n \in 0..len /\ \A i \in 1..n : Hit(m, c, i)
        BY DEF Hit
      <3>2. CASE n = 0
        BY <2>3, <3>2
      <3>3. CASE n # 0
        <4>1. n \in 1..n /\ n \in 1..len
          BY <3>1, <3>3
        <4> QED BY <2>3, <3>1, <4>1
      <3> QED BY <3>1, <3>2, <3>3
    <2> HIDE DEF S
    <2>6. ASSUME NEW y \in S, \A z \in S : y >= z PROVE y = x
      BY <2>3, <2>4, <2>5, <2>6
    <2>7. \A z \in S : x >= z
      BY <2>3, <2>5
    <2>8. Max(S) \in S /\ \A z \in S : Max(S) >= z
      BY <2>4, <2>7, Zenon DEF Max
    <2>9. Max(S) = x
      BY <2>6, <2>8
    <2> QED BY <2>9 DEF S, x
  <1> QED BY <1>1, CacheInvariant, QueueInvariant, ClosedInvariant, PTL
=============================================================================
