------------------------- MODULE EngineCacheProofs -------------------------
(***************************************************************************)
(* The engine's ownership of KV blocks, for every configuration, workload  *)
(* and block size: reference counts are exact, only live sequences own     *)
(* blocks, and tables are content addressed.                               *)
(*                                                                         *)
(* The allocators' part of the invariant, Core, is about values: the       *)
(* allocator state m, every sequence's table, filled slots and computed    *)
(* tokens, and the references l that no table accounts for.  Whatever the  *)
(* engine does to blocks is a sequence of five small moves on these (grab, *)
(* drop, orphan, adopt, mark): a table is orphaned into l before it is     *)
(* taken apart, and a new one is adopted out of l.                         *)
(***************************************************************************)
EXTENDS EngineCache, Induction, FiniteSetTheorems, TLAPS

Phases == {"idle", "running", "prefill", "scheduled", "worker", "process",
           "finish", "overrun", "noswap", "nofree"}
Devices == {Gpu, Cpu}
Pairs == Blocks \X Blocks
Mems == [ref : [Blocks -> Nat], hash : [Blocks -> HashSet],
         comp : SUBSET Blocks, last : [Blocks -> Int]]
SeqRecs == [status : Statuses, len : Nat, computed : Nat, memo : Int, skip : Nat,
            slots : Nat, table : Seq(Blocks), last : Int]
Outs == [chunk : [Seqs -> Nat], decodes : Seq(Seqs), prefills : Seq(Seqs),
         fresh : Seq(Seqs), preempted : Seq(Seqs), used : Int,
         swapIn : Seq(Pairs), swapOut : Seq(Pairs)]
Pendings == [copies : Seq(Pairs), seqs : Seq(Seqs)]

\* The allocators by themselves: computed blocks are in use, a device caches a
\* hash once, and an unfilled block has at most one reference.
Sound(m) ==
    /\ m \in Mems
    /\ \A b \in m.comp : m.ref[b] > 0
    /\ \A dev \in Devices : \A b, c \in dev :
          m.hash[b] # NoHash /\ m.hash[b] = m.hash[c] => b = c
    /\ \A b \in Blocks : m.hash[b] = NoHash => m.ref[b] <= 1

\* The content of the i-th block of s when n slots are filled.
Content(s, n, i) == IF i * BlockSize <= n THEN Hash(s, i) ELSE NoHash

\* s's table is t, n of its slots are filled and c of its tokens computed.
Seated(m, s, t, n, c) ==
    /\ IsInjective(t)
    /\ \A i \in DOMAIN t :
          /\ m.hash[t[i]] = Content(s, n, i)
          /\ i * BlockSize <= c /\ t[i] \in Gpu => t[i] \in m.comp

Having(tables, b) == {s \in Seqs : b \in ToSet(tables[s])}
Accounted(m, tables, l) ==
    \A b \in Blocks : m.ref[b] = Cardinality(Having(tables, b)) + l[b]

Core(m, tables, slots, computed, l) ==
    /\ Sound(m)
    /\ tables \in [Seqs -> Seq(Blocks)] /\ l \in [Blocks -> Nat]
    /\ \A s \in Seqs : Seated(m, s, tables[s], slots[s], computed[s])
    /\ Accounted(m, tables, l)

Tables(sq) == [s \in Seqs |-> sq[s].table]
Slots(sq) == [s \in Seqs |-> sq[s].slots]

\* While the worker runs, and until its results are processed, the tokens of
\* the batch already count as computed.
Batched(o) == ToSet(o.decodes) \cup ToSet(o.prefills) \cup ToSet(o.fresh)
Computed(p, sq, o) ==
    [s \in Seqs |->
        IF p \in {"worker", "process"} /\ s \in Batched(o)
        THEN Least(sq[s].len, sq[s].computed + o.chunk[s]) ELSE sq[s].computed]

Shape(p, t, sq, w, r, o, pe, e) ==
    /\ p \in Phases
    /\ t \in [Blocks -> [1..BlockSize -> HashSet]]
    /\ sq \in [Seqs -> SeqRecs]
    /\ \A s \in Seqs : sq[s].computed <= sq[s].len /\ info[s].prompt <= sq[s].len
    /\ w \in Seq(Seqs) /\ r \in Seq(Seqs)
    /\ o \in Outs /\ pe \in Pendings
    /\ e \in [Keys -> Seqs \cup {None}]

Active(q) == q.status \in {"prefill", "decode"}

\* The table has room for the filled slots, and no block too many; at most one
\* token has no slot yet.
Fitted(q) ==
    /\ q.table # <<>>
    /\ (Len(q.table) - 1) * BlockSize < q.slots
    /\ q.slots <= Len(q.table) * BlockSize
    /\ q.slots <= q.len /\ q.len <= q.slots + 1
    /\ q.computed <= q.slots

\* Whoever has blocks is active, retained, being swapped out or just finished.
Owned(p, sq, r, pe, e) ==
    \A s \in Seqs : sq[s].table # <<>> =>
        \/ Active(sq[s])
        \/ e[info[s].key] = s
        \/ s \in ToSet(pe.seqs)
        \/ p = "finish" /\ s \in ToSet(r) /\ sq[s].status = "finished"

\* Active and just finished sequences have the blocks their tokens need.
Fitting(sq, r) ==
    /\ \A s \in Seqs : /\ Active(sq[s]) => Fitted(sq[s])
                       /\ sq[s].status = "new" => sq[s].computed = 0
    /\ \A s \in ToSet(r) : sq[s].status = "finished" =>
          Fitted(sq[s]) /\ sq[s].computed = sq[s].slots

\* Sequences being swapped out have finished, and have left the GPU.
Leaving(sq, r, pe) ==
    /\ IsInjective(pe.seqs)
    /\ \A s \in ToSet(pe.seqs) :
          sq[s].status = "finished" /\ s \notin ToSet(r) /\ ToSet(sq[s].table) \subseteq Cpu
    /\ \A s \in Seqs : s \notin ToSet(pe.seqs) => ToSet(sq[s].table) \subseteq Gpu

\* A retained entry's owner has finished, and has its blocks.
Retained(sq, r, pe, e) ==
    \A k \in Keys : e[k] # None =>
        /\ info[e[k]].key = k
        /\ sq[e[k]].status = "finished" /\ sq[e[k]].table # <<>>
        /\ e[k] \notin ToSet(r) /\ e[k] \notin ToSet(pe.seqs)

Owners(p, sq, r, pe, e) ==
    Owned(p, sq, r, pe, e) /\ Fitting(sq, r) /\ Leaving(sq, r, pe) /\ Retained(sq, r, pe, e)

Scheduling == {"running", "prefill", "scheduled", "noswap", "nofree"}

\* While a step is scheduled, a sequence is in one queue or one output list.
Apart(sq, w, r, o) ==
    /\ IsInjective(o.decodes) /\ IsInjective(o.prefills)
    /\ IsInjective(o.fresh) /\ IsInjective(o.preempted)
    /\ ToSet(o.prefills) \cap ToSet(o.fresh) = {}
    /\ Batched(o) \cap ToSet(r) = {}
    /\ ToSet(o.preempted) \cap ToSet(w) = {}
    /\ \A s \in ToSet(o.decodes) : sq[s].status = "decode"
    /\ \A s \in ToSet(o.prefills) \cup ToSet(o.fresh) : sq[s].status = "prefill"
    /\ \A s \in ToSet(o.preempted) : sq[s].status = "waiting"

Queues(p, sq, w, r, o) ==
    /\ IsInjective(w) /\ IsInjective(r)
    /\ \A s \in ToSet(w) : sq[s].status = "waiting"
    /\ \A s \in ToSet(r) : Active(sq[s]) \/ (p = "finish" /\ sq[s].status = "finished")
    /\ p \in Scheduling => Apart(sq, w, r, o)
    /\ p \in {"worker", "process"} => Batched(o) \subseteq ToSet(r)
    /\ p \in Scheduling \cup {"worker", "process"} =>
          \A s \in Batched(o) : sq[s].slots = sq[s].len
    /\ p = "finish" => \E s \in ToSet(r) : sq[s].status = "finished"

EngineInv ==
    /\ conf \in Conf /\ info \in [Seqs -> Job]
    /\ Shape(phase, kv, seq, waiting, running, out, pending, entries)
    /\ Core(mem, Tables(seq), Slots(seq), Computed(phase, seq, out), lost)
    /\ Owners(phase, seq, running, pending, entries)
    /\ Queues(phase, seq, waiting, running, out)
-----------------------------------------------------------------------------
(***************************************************************************)
(* The configuration and the workload never change.                        *)
(***************************************************************************)
Setting == conf \in Conf /\ info \in [Seqs -> Job]

Settled(p, t, m, sq, w, r, o, pe, e, l) ==
    /\ Shape(p, t, sq, w, r, o, pe, e)
    /\ Core(m, Tables(sq), Slots(sq), Computed(p, sq, o), l)
    /\ Owners(p, sq, r, pe, e)
    /\ Queues(p, sq, w, r, o)

\* What is derived from the configuration and the workload stays what it is.
LEMMA SameSetting ==
    ASSUME conf' = conf, info' = info
    PROVE  /\ Gpu' = Gpu /\ Cpu' = Cpu /\ Blocks' = Blocks /\ Devices' = Devices
           /\ Keys' = Keys /\ HashSet' = HashSet /\ Pairs' = Pairs
           /\ Mems' = Mems /\ SeqRecs' = SeqRecs /\ Outs' = Outs /\ Pendings' = Pendings
  <1>1. Gpu' = Gpu /\ Cpu' = Cpu /\ Keys' = Keys
    BY DEF Gpu, Cpu, Keys
  <1>2. Blocks' = Blocks /\ Devices' = Devices /\ HashSet' = HashSet
    BY <1>1 DEF Blocks, Devices, HashSet
  <1>3. Pairs' = Pairs
    BY <1>2 DEF Pairs
  <1> QED BY <1>1, <1>2, <1>3 DEF Mems, SeqRecs, Outs, Pendings

\* The invariant after a step is about the next values and the same setting.
LEMMA InvAfter ==
    ASSUME Setting, conf' = conf, info' = info,
           Settled(phase', kv', mem', seq', waiting', running', out', pending',
                   entries', lost')
    PROVE  EngineInv'
  <1>1. /\ Gpu' = Gpu /\ Cpu' = Cpu /\ Blocks' = Blocks /\ Devices' = Devices
        /\ Keys' = Keys /\ HashSet' = HashSet /\ Pairs' = Pairs
        /\ Mems' = Mems /\ SeqRecs' = SeqRecs /\ Outs' = Outs /\ Pendings' = Pendings
    BY SameSetting
  <1>2. Shape(phase, kv, seq, waiting, running, out, pending, entries)'
    BY <1>1 DEF Settled, Shape
  <1>3. Core(mem, Tables(seq), Slots(seq), Computed(phase, seq, out), lost)'
    <2>1. Sound(mem)'
      BY <1>1 DEF Settled, Core, Sound
    <2>2. Accounted(mem, Tables(seq), lost)'
      BY <1>1 DEF Settled, Core, Accounted, Tables, Having
    <2>3. \A s \in Seqs : Seated(mem, s, Tables(seq)[s], Slots(seq)[s],
                                 Computed(phase, seq, out)[s])'
      BY <1>1 DEF Settled, Core, Seated, Tables, Slots, Computed, Content, Hash, Batched
    <2> QED BY <1>1, <2>1, <2>2, <2>3 DEF Settled, Core, Tables, Slots, Computed, Batched
  <1>4. Owners(phase, seq, running, pending, entries)'
    BY <1>1 DEF Settled, Owners, Owned, Fitting, Leaving, Retained
  <1>5. Queues(phase, seq, waiting, running, out)'
    BY <1>1 DEF Settled, Queues, Apart
  <1> QED BY <1>2, <1>3, <1>4, <1>5 DEF EngineInv, Setting
-----------------------------------------------------------------------------
(***************************************************************************)
(* Blocks, hashes and time stamps.                                         *)
(***************************************************************************)
\* The two devices share no block.
LEMMA BlockFacts ==
    ASSUME Setting
    PROVE  /\ Gpu \subseteq Blocks /\ Cpu \subseteq Blocks /\ Blocks = Gpu \cup Cpu
           /\ Gpu \cap Cpu = {} /\ Blocks \subseteq Nat /\ Gpu # {}
           /\ \A dev \in Devices : dev \subseteq Blocks /\ IsFiniteSet(dev)
           /\ IsFiniteSet(Blocks) /\ Gpu \in Devices /\ Cpu \in Devices
  <1>1. /\ conf.gpu \in Nat \ {0} /\ conf.cpu \in Nat
        /\ conf.gpu \in Int /\ conf.gpu + 1 \in Int /\ conf.gpu + conf.cpu \in Int
        /\ 1 \in Int
    BY DEF Setting, Conf
  <1>2. IsFiniteSet(Gpu) /\ IsFiniteSet(Cpu)
    BY <1>1, FS_Interval DEF Gpu, Cpu
  <1>3. IsFiniteSet(Blocks)
    BY <1>2, FS_Union DEF Blocks
  <1>4. Gpu \cap Cpu = {} /\ Blocks \subseteq Nat /\ Gpu # {}
    BY <1>1 DEF Gpu, Cpu, Blocks
  <1> QED BY <1>2, <1>3, <1>4 DEF Blocks, Devices

\* Content hashes.
LEMMA HashFacts ==
    ASSUME Setting
    PROVE  /\ \A s \in Seqs : \A i \in Nat \ {0} :
                 Hash(s, i) \in HashSet /\ Hash(s, i) # NoHash
           /\ \A s \in Seqs : \A i, j \in Nat \ {0} : Hash(s, i) = Hash(s, j) => i = j
           /\ NoHash \in HashSet
           /\ \A h \in HashSet : h # NoHash => h[2] \in Nat
           /\ \A s \in Seqs : info[s].key \in Keys /\ info[s] \in Job
  <1>1. \A s \in Seqs : info[s].key \in Keys /\ info[s] \in Job
    BY DEF Setting, Keys
  <1>2. ASSUME NEW s \in Seqs, NEW i \in Nat \ {0}
        PROVE  /\ Hash(s, i) \in (Keys \cup Seqs) \X (Nat \ {0})
               /\ Hash(s, i)[2] = i /\ Hash(s, i) # NoHash
    BY <1>1 DEF Hash, NoHash
  <1>3. NoHash \in HashSet /\ \A h \in HashSet : h # NoHash => h[2] \in Nat
    BY DEF HashSet
  <1>4. \A s \in Seqs : \A i \in Nat \ {0} : Hash(s, i) \in HashSet /\ Hash(s, i) # NoHash
    BY <1>2 DEF HashSet
  <1>5. \A s \in Seqs : \A i, j \in Nat \ {0} : Hash(s, i) = Hash(s, j) => i = j
    BY <1>2
  <1> QED BY <1>1, <1>3, <1>4, <1>5
-----------------------------------------------------------------------------
(***************************************************************************)
(* The moves that keep Core.  References that no table accounts for are    *)
(* counted in l.                                                           *)
(***************************************************************************)
More(l, S) == [b \in Blocks |-> IF b \in S THEN l[b] + 1 ELSE l[b]]
Fewer(l, S) == [b \in Blocks |-> IF b \in S THEN l[b] - 1 ELSE l[b]]

\* More references.
LEMMA MoreFewer ==
    ASSUME NEW l \in [Blocks -> Nat], NEW A
    PROVE  /\ More(l, A) \in [Blocks -> Nat] /\ More(l, {}) = l
           /\ \A b \in Blocks \cap A : More(l, A)[b] >= 1
           /\ \A b \in Blocks : More(l, A)[b] = IF b \in A THEN l[b] + 1 ELSE l[b]
  <1>1. More(l, A) \in [Blocks -> Nat] /\ More(l, {}) = l
    BY DEF More
  <1>2. \A b \in Blocks : More(l, A)[b] = IF b \in A THEN l[b] + 1 ELSE l[b]
    BY DEF More
  <1> QED BY <1>1, <1>2

\* More references in two steps.
LEMMA MoreMore ==
    ASSUME NEW l \in [Blocks -> Nat], NEW A, NEW B, A \cap B = {}
    PROVE  More(More(l, A), B) = More(l, A \cup B)
  <1>1. \A b \in Blocks : (IF b \in B THEN More(l, A)[b] + 1 ELSE More(l, A)[b])
                          = IF b \in A \cup B THEN l[b] + 1 ELSE l[b]
    BY MoreFewer
  <1> QED BY <1>1 DEF More

\* Some of them fewer again.
LEMMA FewerMore ==
    ASSUME NEW l \in [Blocks -> Nat], NEW A, NEW B \in SUBSET A
    PROVE  Fewer(More(l, A), B) = More(l, A \ B)
  <1>1. \A b \in Blocks : (IF b \in B THEN More(l, A)[b] - 1 ELSE More(l, A)[b])
                          = IF b \in A \ B THEN l[b] + 1 ELSE l[b]
    BY MoreFewer
  <1>2. Fewer(More(l, A), B) =
          [b \in Blocks |-> IF b \in B THEN More(l, A)[b] - 1 ELSE More(l, A)[b]]
    BY DEF Fewer
  <1>3. More(l, A \ B) = [b \in Blocks |-> IF b \in A \ B THEN l[b] + 1 ELSE l[b]]
    BY DEF More
  <1> QED BY <1>1, <1>2, <1>3

\* The sequences that have a block are finitely many; a block whose references
\* are all in l is in no table.
LEMMA CoreRefs ==
    ASSUME Setting, NEW m, NEW T, NEW n, NEW c, NEW l, Core(m, T, n, c, l)
    PROVE  /\ \A b \in Blocks : /\ m.ref[b] \in Nat /\ l[b] \in Nat /\ l[b] <= m.ref[b]
                                /\ Having(T, b) # {} <=> m.ref[b] > l[b]
           /\ \A s \in Seqs : \A b \in ToSet(T[s]) : b \in Blocks /\ m.ref[b] > l[b]
           /\ \A b \in Blocks : IsFiniteSet(Having(T, b))
  <1>1. \A b \in Blocks : m.ref[b] \in Nat /\ l[b] \in Nat
    BY DEF Core, Sound, Mems
  <1>2. ASSUME NEW b \in Blocks
        PROVE  /\ IsFiniteSet(Having(T, b)) /\ Cardinality(Having(T, b)) \in Nat
               /\ Cardinality(Having(T, b)) = 0 <=> Having(T, b) = {}
    <2>1. IsFiniteSet(Seqs) /\ Having(T, b) \in SUBSET Seqs
      BY EngineAssumption DEF Having
    <2>2. IsFiniteSet(Having(T, b))
      BY <2>1, FS_Subset
    <2> QED BY <2>2, FS_CardinalityType, FS_EmptySet
  <1>3. ASSUME NEW b \in Blocks
        PROVE  l[b] <= m.ref[b] /\ (Having(T, b) # {} <=> m.ref[b] > l[b])
    <2>1. m.ref[b] = Cardinality(Having(T, b)) + l[b]
      BY DEF Core, Accounted
    <2> QED BY <1>1, <1>2, <2>1
  <1>4. ASSUME NEW s \in Seqs, NEW b \in ToSet(T[s])
        PROVE  b \in Blocks /\ m.ref[b] > l[b]
    <2>1. T[s] \in Seq(Blocks)
      BY DEF Core
    <2>2. b \in Blocks
      BY <2>1, ElementsIn
    <2>3. s \in Having(T, b)
      BY DEF Having
    <2> QED BY <1>3, <2>2, <2>3
  <1> QED BY <1>1, <1>2, <1>3, <1>4

\* Core after a change of the allocators and of l, when the tables stay.
LEMMA CoreKeeps ==
    ASSUME Setting, NEW m, NEW T, NEW n, NEW c, NEW l, Core(m, T, n, c, l),
           NEW m2, Sound(m2), NEW l2 \in [Blocks -> Nat],
           \A b \in Blocks : m2.ref[b] - l2[b] = m.ref[b] - l[b],
           \A b \in Blocks : m.ref[b] > l[b] =>
               /\ m2.hash[b] = m.hash[b]
               /\ b \in m.comp => b \in m2.comp
    PROVE  Core(m2, T, n, c, l2)
  <1>1. Accounted(m2, T, l2)
    <2> SUFFICES ASSUME NEW b \in Blocks
                 PROVE  m2.ref[b] = Cardinality(Having(T, b)) + l2[b]
      BY DEF Accounted
    <2>1. m.ref[b] = Cardinality(Having(T, b)) + l[b] /\ IsFiniteSet(Having(T, b))
      <3>1. Accounted(m, T, l)
        BY DEF Core
      <3>2. m.ref[b] = Cardinality(Having(T, b)) + l[b]
        BY <3>1 DEF Accounted
      <3>3. IsFiniteSet(Having(T, b))
        BY CoreRefs
      <3> QED BY <3>2, <3>3
    <2>2. Cardinality(Having(T, b)) \in Nat
      BY <2>1, FS_CardinalityType
    <2>3. m2.ref[b] \in Nat /\ m.ref[b] \in Nat /\ l[b] \in Nat /\ l2[b] \in Nat
      BY CoreRefs DEF Sound, Mems
    <2> QED BY <2>1, <2>2, <2>3
  <1>2. ASSUME NEW s \in Seqs PROVE Seated(m2, s, T[s], n[s], c[s])
    <2>1. Seated(m, s, T[s], n[s], c[s]) /\ T[s] \in Seq(Blocks)
      BY DEF Core
    <2>2. ASSUME NEW i \in DOMAIN T[s]
          PROVE  /\ m2.hash[T[s][i]] = m.hash[T[s][i]]
                 /\ T[s][i] \in m.comp => T[s][i] \in m2.comp
      <3>1. T[s][i] \in ToSet(T[s])
        BY DEF ToSet
      <3>2. T[s][i] \in Blocks /\ m.ref[T[s][i]] > l[T[s][i]]
        BY <3>1, CoreRefs
      <3> QED BY <3>2
    <2> QED BY <2>1, <2>2 DEF Seated
  <1> QED BY <1>1, <1>2 DEF Core

\* Block b of dev gets a reference for content h: it was free, or it is the one
\* that dev caches for h.
Gains(m, m2, dev, b, h) ==
    /\ m2 \in Mems /\ b \in dev
    /\ m2.ref[b] = m.ref[b] + 1 /\ m2.hash[b] = h
    /\ \A x \in Blocks \ {b} : m2.ref[x] = m.ref[x] /\ m2.hash[x] = m.hash[x]
    /\ m.comp \subseteq m2.comp /\ m2.comp \subseteq m.comp \cup {b}
    /\ m.ref[b] = 0 \/ (m.hash[b] = h /\ h # NoHash)
    /\ h # NoHash => \A x \in dev : m.hash[x] = h => x = b

\* A gained reference is one that no table accounts for yet.
LEMMA CoreGrab ==
    ASSUME Setting, NEW m, NEW T, NEW n, NEW c, NEW l, Core(m, T, n, c, l),
           NEW dev \in Devices, NEW b, NEW h, NEW m2, Gains(m, m2, dev, b, h)
    PROVE  Core(m2, T, n, c, More(l, {b})) /\ b \in Blocks
  <1>1. /\ b \in Blocks /\ m \in Mems /\ m2 \in Mems
        /\ \A x \in Blocks : m.ref[x] \in Nat /\ m2.ref[x] \in Nat
    BY BlockFacts DEF Gains, Core, Sound, Mems
  <1>2. Sound(m2)
    <2>1. \A x \in m2.comp : m2.ref[x] > 0
      <3>1. m2.comp \subseteq Blocks
        BY <1>1 DEF Mems
      <3>2. \A x \in m.comp : m.ref[x] > 0
        BY DEF Core, Sound
      <3> QED BY <1>1, <3>1, <3>2 DEF Gains
    <2>2. ASSUME NEW d \in Devices, NEW x \in d, NEW y \in d,
                 m2.hash[x] # NoHash, m2.hash[x] = m2.hash[y]
          PROVE  x = y
      <3>1. x \in Blocks /\ y \in Blocks
        BY BlockFacts
      <3>2. m.hash[x] # NoHash /\ m.hash[x] = m.hash[y] => x = y
        BY DEF Core, Sound
      <3>3. d # dev => x # b /\ y # b
        BY BlockFacts DEF Devices, Gains
      <3> QED BY <2>2, <3>1, <3>2, <3>3 DEF Gains
    <2>3. \A x \in Blocks : m2.hash[x] = NoHash => m2.ref[x] <= 1
      <3>1. \A x \in Blocks : m.hash[x] = NoHash => m.ref[x] <= 1
        BY DEF Core, Sound
      <3> QED BY <1>1, <3>1 DEF Gains
    <2> QED BY <1>1, <2>1, <2>2, <2>3 DEF Sound
  <1>3. l \in [Blocks -> Nat]
    BY DEF Core
  <1>4. More(l, {b}) \in [Blocks -> Nat]
        /\ \A x \in Blocks : More(l, {b})[x] = IF x = b THEN l[x] + 1 ELSE l[x]
    BY <1>3, MoreFewer DEF More
  <1>5. \A x \in Blocks : m2.ref[x] - More(l, {b})[x] = m.ref[x] - l[x]
    <2> SUFFICES ASSUME NEW x \in Blocks
                 PROVE  m2.ref[x] - More(l, {b})[x] = m.ref[x] - l[x]
      OBVIOUS
    <2>1. m2.ref[x] = IF x = b THEN m.ref[x] + 1 ELSE m.ref[x]
      BY DEF Gains
    <2>2. m.ref[x] \in Nat /\ l[x] \in Nat
      BY <1>1, <1>3
    <2>3. More(l, {b})[x] = IF x = b THEN l[x] + 1 ELSE l[x]
      BY ONLY <1>4
    <2> HIDE DEF More
    <2>4. CASE x = b
      BY <2>1, <2>2, <2>3, <2>4
    <2>5. CASE x # b
      BY <2>1, <2>2, <2>3, <2>5
    <2> QED BY <2>4, <2>5
  <1>6. \A x \in Blocks : m.ref[x] > l[x] =>
            m2.hash[x] = m.hash[x] /\ (x \in m.comp => x \in m2.comp)
    <2>1. m.ref[b] = 0 => ~(m.ref[b] > l[b])
      BY <1>1, <1>3
    <2> QED BY <2>1 DEF Gains
  <1> QED BY <1>1, <1>2, <1>4, <1>5, <1>6, CoreKeeps

\* References that no table accounts for are given back.
LEMMA CoreDrop ==
    ASSUME Setting, NEW m, NEW T, NEW n, NEW c, NEW l, Core(m, T, n, c, l),
           NEW S \in SUBSET Blocks, \A b \in S : l[b] >= 1
    PROVE  Core(Release(m, S), T, n, c, Fewer(l, S))
  <1> DEFINE gone == {b \in S : m.ref[b] = 1}
             ref == [b \in Blocks |-> IF b \in S THEN m.ref[b] - 1 ELSE m.ref[b]]
             comp == m.comp \ gone
             last == [b \in Blocks |-> IF b \in S /\ m.ref[b] = 1 /\ m.hash[b] = NoHash
                                       THEN NoStamp ELSE m.last[b]]
             r == [m EXCEPT !.ref = ref, !.comp = comp, !.last = last]
             l2 == Fewer(l, S)
  <1>1. /\ m \in Mems /\ l \in [Blocks -> Nat]
        /\ \A b \in Blocks : m.ref[b] \in Nat /\ l[b] \in Nat /\ l[b] <= m.ref[b]
    <2>1. m \in Mems /\ l \in [Blocks -> Nat]
      BY DEF Core, Sound
    <2> QED BY <2>1, CoreRefs
  <1>2. /\ m.hash \in [Blocks -> HashSet] /\ m.comp \subseteq Blocks
        /\ m.last \in [Blocks -> Int] /\ m.ref \in [Blocks -> Nat]
    BY <1>1 DEF Mems
  <1>3. /\ Release(m, S) = r
        /\ \A b \in Blocks : ref[b] = IF b \in S THEN m.ref[b] - 1 ELSE m.ref[b]
        /\ ref \in [Blocks -> Nat] /\ last \in [Blocks -> Int] /\ comp \in SUBSET Blocks
    <2>1. Release(m, S) = r
      BY DEF Release
    <2>2. \A b \in S : m.ref[b] - 1 \in Nat
      BY <1>1
    <2>3. ref \in [Blocks -> Nat]
      BY <1>1, <2>2
    <2>4. last \in [Blocks -> Int]
      BY <1>2 DEF NoStamp
    <2> QED BY <1>2, <2>1, <2>3, <2>4
  <1> HIDE DEF ref, last
  <1>10. r.ref = ref /\ r.hash = m.hash /\ r.comp = comp /\ r \in Mems
    <2> HIDE DEF comp
    <2> QED BY <1>1, <1>3 DEF Mems
  <1> HIDE DEF r
  <1>4. \A b \in Blocks : /\ r.ref[b] = IF b \in S THEN m.ref[b] - 1 ELSE m.ref[b]
                          /\ r.ref[b] \in Nat
                          /\ l2[b] = IF b \in S THEN l[b] - 1 ELSE l[b]
                          /\ l2[b] \in Nat
    BY <1>1, <1>3, <1>10 DEF Fewer
  <1>6. Sound(r)
    <2>1. \A b \in r.comp : r.ref[b] > 0
      <3>1. \A b \in m.comp : m.ref[b] > 0
        BY DEF Core, Sound
      <3> QED BY <1>1, <1>2, <1>4, <1>10, <3>1
    <2>2. \A b \in Blocks : r.hash[b] = NoHash => r.ref[b] <= 1
      <3>1. \A b \in Blocks : m.hash[b] = NoHash => m.ref[b] <= 1
        BY DEF Core, Sound
      <3> QED BY <1>1, <1>4, <1>10, <3>1
    <2>3. \A dev \in Devices : \A b, d \in dev :
              r.hash[b] # NoHash /\ r.hash[b] = r.hash[d] => b = d
      BY <1>10 DEF Core, Sound
    <2> QED BY <1>10, <2>1, <2>2, <2>3 DEF Sound
  <1>7. l2 \in [Blocks -> Nat]
    BY <1>4 DEF Fewer
  <1>8. \A b \in Blocks : r.ref[b] - l2[b] = m.ref[b] - l[b]
    BY ONLY <1>1, <1>4
  <1>9. \A b \in Blocks : m.ref[b] > l[b] =>
            r.hash[b] = m.hash[b] /\ (b \in m.comp => b \in r.comp)
    BY <1>1, <1>10
  <1> HIDE DEF l2
  <1>11. Core(r, T, n, c, l2)
    BY <1>6, <1>7, <1>8, <1>9, CoreKeeps
  <1> QED BY <1>3, <1>11 DEF l2

\* Computed marks and time stamps do not matter to Core, as long as computed
\* blocks are in use.
Marks(m, m2) ==
    /\ m2 \in Mems /\ m2.ref = m.ref /\ m2.hash = m.hash
    /\ m.comp \subseteq m2.comp /\ \A b \in m2.comp : m.ref[b] > 0

\* Marking blocks as computed keeps Core, when only blocks in use are marked.
LEMMA CoreMark ==
    ASSUME Setting, NEW m, NEW T, NEW n, NEW c, NEW l, Core(m, T, n, c, l),
           NEW m2, Marks(m, m2)
    PROVE  Core(m2, T, n, c, l)
  <1>1. Sound(m2) /\ l \in [Blocks -> Nat]
    BY DEF Core, Sound, Marks
  <1>2. \A b \in Blocks : m2.ref[b] - l[b] = m.ref[b] - l[b]
    BY DEF Marks
  <1>3. \A b \in Blocks : m.ref[b] > l[b] =>
            m2.hash[b] = m.hash[b] /\ (b \in m.comp => b \in m2.comp)
    BY DEF Marks
  <1> QED BY <1>1, <1>2, <1>3, CoreKeeps

\* Time stamps.
LEMMA TouchMarks ==
    ASSUME NEW m \in Mems, \A b \in m.comp : m.ref[b] > 0, NEW S, NEW t \in Int
    PROVE  Marks(m, Touch(m, S, t))
  <1> DEFINE last == [b \in Blocks |-> IF b \in S THEN t ELSE m.last[b]]
             r == [m EXCEPT !.last = last]
  <1>1. r = Touch(m, S, t)
    BY DEF Touch
  <1>2. last \in [Blocks -> Int]
    BY DEF Mems
  <1> HIDE DEF last
  <1>3. r \in Mems /\ r.ref = m.ref /\ r.hash = m.hash /\ r.comp = m.comp
    BY <1>2 DEF Mems
  <1> HIDE DEF r
  <1> QED BY <1>1, <1>3 DEF Marks

\* Blocks in use count as computed.
LEMMA CompMarks ==
    ASSUME NEW m \in Mems, \A b \in m.comp : m.ref[b] > 0,
           NEW S \in SUBSET Blocks, \A b \in S : m.ref[b] > 0
    PROVE  Marks(m, [m EXCEPT !.comp = @ \cup S])
  <1> DEFINE comp == m.comp \cup S
             r == [m EXCEPT !.comp = comp]
  <1>1. comp \in SUBSET Blocks
    BY DEF Mems
  <1> HIDE DEF comp
  <1>2. r \in Mems /\ r.ref = m.ref /\ r.hash = m.hash /\ r.comp = comp
    BY <1>1 DEF Mems
  <1> HIDE DEF r
  <1>3. Marks(m, r)
    BY <1>2 DEF Marks, comp
  <1> QED BY <1>3 DEF comp, r

\* f and g differ at s only.
Alike(f, g, s) == \A x \in Seqs \ {s} : f[x] = g[x]

\* The table of s is forgotten: its references are accounted for by l.
LEMMA CoreOrphan ==
    ASSUME Setting, NEW m, NEW T, NEW n, NEW c, NEW l, Core(m, T, n, c, l),
           NEW s \in Seqs, NEW T2 \in [Seqs -> Seq(Blocks)], NEW n2, NEW c2,
           T2[s] = <<>>, Alike(T, T2, s), Alike(n, n2, s), Alike(c, c2, s)
    PROVE  Core(m, T2, n2, c2, More(l, ToSet(T[s])))
  <1> DEFINE S == ToSet(T[s])
             l2 == More(l, S)
  <1>1. l \in [Blocks -> Nat] /\ Sound(m)
    BY DEF Core
  <1>2. l2 \in [Blocks -> Nat] /\ \A b \in Blocks : l2[b] = IF b \in S THEN l[b] + 1 ELSE l[b]
    <2> HIDE DEF S
    <2> QED BY <1>1 DEF More
  <1>3. ToSet(T2[s]) = {}
    BY DEF ToSet
  <1>4. ASSUME NEW b \in Blocks
        PROVE  m.ref[b] = Cardinality(Having(T2, b)) + l2[b]
    <2> DEFINE H == Having(T, b)
    <2>1. Having(T2, b) = H \ {s} /\ (s \in H <=> b \in S)
      BY <1>3 DEF Having, Alike
    <2>2. m.ref[b] = Cardinality(H) + l[b] /\ IsFiniteSet(H) /\ l[b] \in Nat
      BY <1>1, CoreRefs DEF Core, Accounted
    <2> HIDE DEF H, S, l2
    <2>3. Cardinality(H) \in Nat
          /\ Cardinality(H \ {s}) = IF s \in H THEN Cardinality(H) - 1 ELSE Cardinality(H)
      BY <2>2, FS_CardinalityType, FS_RemoveElement
    <2>4. CASE b \in S
      <3>1. l2[b] = l[b] + 1 /\ Cardinality(Having(T2, b)) = Cardinality(H) - 1
        BY <1>2, <2>1, <2>3, <2>4
      <3> QED BY ONLY <2>2, <2>3, <3>1
    <2>5. CASE b \notin S
      <3>1. l2[b] = l[b] /\ Cardinality(Having(T2, b)) = Cardinality(H)
        BY <1>2, <2>1, <2>3, <2>5
      <3> QED BY <2>2, <2>3, <3>1
    <2> QED BY <2>4, <2>5
  <1>5. ASSUME NEW x \in Seqs PROVE Seated(m, x, T2[x], n2[x], c2[x])
    <2>1. CASE x = s
      BY <2>1 DEF Seated, IsInjective
    <2>2. CASE x # s
      BY <2>2 DEF Alike, Core
    <2> QED BY <2>1, <2>2
  <1> HIDE DEF l2
  <1>6. Core(m, T2, n2, c2, l2)
    BY <1>1, <1>2, <1>4, <1>5 DEF Core, Accounted
  <1> QED BY <1>6 DEF l2

\* References of l become the table of s.
LEMMA CoreAdopt ==
    ASSUME Setting, NEW m, NEW T, NEW n, NEW c, NEW l, Core(m, T, n, c, l),
           NEW s \in Seqs, NEW T2 \in [Seqs -> Seq(Blocks)], NEW n2, NEW c2,
           T[s] = <<>>, Alike(T, T2, s), Alike(n, n2, s), Alike(c, c2, s),
           \A b \in ToSet(T2[s]) : l[b] >= 1, Seated(m, s, T2[s], n2[s], c2[s])
    PROVE  Core(m, T2, n2, c2, Fewer(l, ToSet(T2[s])))
  <1> DEFINE S == ToSet(T2[s])
             l2 == Fewer(l, S)
  <1>1. l \in [Blocks -> Nat] /\ Sound(m)
    BY DEF Core
  <1>2. l2 \in [Blocks -> Nat] /\ \A b \in Blocks : l2[b] = IF b \in S THEN l[b] - 1 ELSE l[b]
    <2>1. \A b \in Blocks : (IF b \in S THEN l[b] - 1 ELSE l[b]) \in Nat
      <3> HIDE DEF S
      <3>1. \A b \in S : l[b] >= 1
        BY DEF S
      <3> QED BY <1>1, <3>1
    <2> HIDE DEF S
    <2> QED BY <2>1 DEF Fewer
  <1>3. ToSet(T[s]) = {}
    BY DEF ToSet
  <1>4. ASSUME NEW b \in Blocks
        PROVE  m.ref[b] = Cardinality(Having(T2, b)) + l2[b]
    <2> DEFINE H == Having(T, b)
    <2>1. Having(T2, b) = (IF b \in S THEN H \cup {s} ELSE H) /\ s \notin H
      BY <1>3 DEF Having, Alike
    <2>2. m.ref[b] = Cardinality(H) + l[b] /\ IsFiniteSet(H) /\ l[b] \in Nat
      BY <1>1, CoreRefs DEF Core, Accounted
    <2> HIDE DEF H, S, l2
    <2>3. Cardinality(H) \in Nat /\ Cardinality(H \cup {s}) = Cardinality(H) + 1
      BY <2>1, <2>2, FS_CardinalityType, FS_AddElement
    <2>4. CASE b \in S
      <3>1. l2[b] = l[b] - 1 /\ Cardinality(Having(T2, b)) = Cardinality(H) + 1
        BY <1>2, <2>1, <2>3, <2>4
      <3>2. \A i, j \in Nat : i + j = (i + 1) + (j - 1)
        OBVIOUS
      <3> QED BY <2>2, <2>3, <3>1, <3>2, Zenon
    <2>5. CASE b \notin S
      <3>1. l2[b] = l[b] /\ Cardinality(Having(T2, b)) = Cardinality(H)
        BY <1>2, <2>1, <2>3, <2>5
      <3> QED BY <2>2, <2>3, <3>1
    <2> QED BY <2>4, <2>5
  <1>5. ASSUME NEW x \in Seqs PROVE Seated(m, x, T2[x], n2[x], c2[x])
    BY DEF Alike, Core
  <1> HIDE DEF l2
  <1>6. Core(m, T2, n2, c2, l2)
    BY <1>1, <1>2, <1>4, <1>5 DEF Core, Accounted
  <1> QED BY <1>6 DEF l2

\* Block b, which has no content and is in no table, becomes the block for h.
LEMMA CoreRehash ==
    ASSUME Setting, NEW m, NEW T, NEW n, NEW c, NEW l, Core(m, T, n, c, l),
           NEW dev \in Devices, NEW b \in dev, m.hash[b] = NoHash, l[b] >= 1,
           NEW h \in HashSet, Holders(m, dev, h) = {}
    PROVE  Core([m EXCEPT !.hash = [m.hash EXCEPT ![b] = h]], T, n, c, l)
  <1> DEFINE hash == [m.hash EXCEPT ![b] = h]
             r == [m EXCEPT !.hash = hash]
  <1>1. m \in Mems /\ Sound(m) /\ l \in [Blocks -> Nat] /\ b \in Blocks
    BY BlockFacts DEF Core, Sound
  <1>2. /\ hash \in [Blocks -> HashSet] /\ hash[b] = h
        /\ \A x \in Blocks : x # b => hash[x] = m.hash[x]
    BY <1>1 DEF Mems
  <1> HIDE DEF hash
  <1>3. r \in Mems /\ r.ref = m.ref /\ r.hash = hash /\ r.comp = m.comp
    BY <1>1, <1>2 DEF Mems
  <1> HIDE DEF r
  <1>4. m.ref[b] <= 1 /\ ~(m.ref[b] > l[b])
    <2>1. m.ref[b] <= 1
      BY <1>1 DEF Sound
    <2>2. m.ref[b] \in Nat /\ l[b] \in Nat
      BY <1>1, CoreRefs
    <2> QED BY <2>1, <2>2
  <1>5. Sound(r)
    <2>1. ASSUME NEW d \in Devices, NEW x \in d, NEW y \in d,
                 hash[x] # NoHash, hash[x] = hash[y]
          PROVE  x = y
      <3>1. x \in Blocks /\ y \in Blocks
        BY BlockFacts
      <3>2. m.hash[x] # NoHash /\ m.hash[x] = m.hash[y] => x = y
        BY <1>1 DEF Sound
      <3>3. d # dev => x # b /\ y # b
        BY BlockFacts DEF Devices
      <3>4. d = dev => m.hash[x] # h /\ m.hash[y] # h
        BY DEF Holders
      <3> QED BY <1>2, <2>1, <3>1, <3>2, <3>3, <3>4
    <2>2. \A x \in Blocks : hash[x] = NoHash => m.ref[x] <= 1
      BY <1>1, <1>2, <1>4 DEF Sound
    <2> QED BY <1>1, <1>3, <2>1, <2>2 DEF Sound
  <1>6. \A x \in Blocks : r.ref[x] - l[x] = m.ref[x] - l[x]
    BY <1>3
  <1>7. \A x \in Blocks : m.ref[x] > l[x] =>
            r.hash[x] = m.hash[x] /\ (x \in m.comp => x \in r.comp)
    BY <1>2, <1>3, <1>4
  <1>8. Core(r, T, n, c, l)
    BY <1>1, <1>5, <1>6, <1>7, CoreKeeps
  <1> QED BY <1>8 DEF r, hash
-----------------------------------------------------------------------------
(***************************************************************************)
(* Allocation.                                                             *)
(***************************************************************************)
\* The eviction order finds a block.
LEMMA OldestIn ==
    ASSUME Setting, NEW m \in Mems, NEW S \in SUBSET Blocks, S # {},
           \A b \in S : m.hash[b] # NoHash
    PROVE  Oldest(m, S) \in S
  <1> DEFINE stale == {b \in S : \A c \in S : m.last[b] <= m.last[c]}
             deep == {b \in stale : \A c \in stale : m.hash[b][2] >= m.hash[c][2]}
             R == {x \in S \X S : m.last[x[1]] <= m.last[x[2]]}
             D == {x \in stale \X stale : m.hash[x[1]][2] >= m.hash[x[2]][2]}
  <1>1. IsFiniteSet(S) /\ IsFiniteSet(stale)
    <2>1. S \in SUBSET Blocks /\ stale \in SUBSET Blocks
      OBVIOUS
    <2> HIDE DEF stale
    <2> QED BY <2>1, BlockFacts, FS_Subset
  <1>2. \A x \in S : m.last[x] \in Int /\ m.hash[x][2] \in Int
    BY HashFacts DEF Mems
  <1>3. stale # {}
    <2>1. \A x, y \in S : <<x, y>> \in R <=> m.last[x] <= m.last[y]
      OBVIOUS
    <2> HIDE DEF R
    <2>2. /\ \A x, y \in S : <<x, y>> \in R \/ <<y, x>> \in R
          /\ \A x, y, z \in S : <<x, y>> \in R /\ <<y, z>> \in R => <<x, z>> \in R
      BY <1>2, <2>1
    <2>3. \E x \in S : \A y \in S : <<x, y>> \in R
      BY <1>1, <2>2, FiniteLeast
    <2> QED BY <2>1, <2>3
  <1>4. deep # {}
    <2>1. \A x, y \in stale : <<x, y>> \in D <=> m.hash[x][2] >= m.hash[y][2]
      OBVIOUS
    <2>2. \A x \in stale : x \in S
      OBVIOUS
    <2> HIDE DEF D, stale
    <2>3. /\ \A x, y \in stale : <<x, y>> \in D \/ <<y, x>> \in D
          /\ \A x, y, z \in stale : <<x, y>> \in D /\ <<y, z>> \in D => <<x, z>> \in D
      BY <1>2, <2>1, <2>2
    <2>4. \E x \in stale : \A y \in stale : <<x, y>> \in D
      BY <1>1, <1>3, <2>3, FiniteLeast
    <2> QED BY <2>1, <2>4
  <1>5. Oldest(m, S) = Min(deep)
    BY DEF Oldest
  <1>6. deep \subseteq S /\ deep \subseteq Nat
    BY BlockFacts
  <1> HIDE DEF deep
  <1>7. Min(deep) \in deep
    BY <1>4, <1>6, MinNat
  <1> QED BY <1>5, <1>6, <1>7

Accs == [m : Mems, dev : Devices, table : Seq(Blocks), ok : BOOLEAN]

\* r is a after one more block, which is for content h.
Joins(a, r, h) ==
    /\ r \in Accs /\ r.dev = a.dev /\ r.ok
    /\ \E b \in a.dev : Gains(a.m, r.m, a.dev, b, h) /\ r.table = Append(a.table, b)

\* r is a after the device ran out of blocks.
Fails(a, r) ==
    r \in Accs /\ r.m = a.m /\ r.dev = a.dev /\ r.table = a.table /\ ~r.ok

\* A free block joins the table under construction: BlockAllocator.allocate.
LEMMA TakeFacts ==
    ASSUME Setting, NEW a \in Accs, Sound(a.m), a.ok,
           NEW b \in a.dev, a.m.ref[b] = 0, NEW h \in HashSet,
           h = NoHash \/ Holders(a.m, a.dev, h) = {}
    PROVE  Joins(a, Take(a, b, h), h)
  <1> DEFINE m == a.m
             ref == [m.ref EXCEPT ![b] = 1]
             hash == [m.hash EXCEPT ![b] = h]
             last == [m.last EXCEPT ![b] = NoStamp]
             m2 == [m EXCEPT !.ref = ref, !.hash = hash, !.last = last]
             table == Append(a.table, b)
             r == [a EXCEPT !.m = m2, !.table = table]
  <1>1. m \in Mems /\ a.dev \in Devices /\ a.table \in Seq(Blocks) /\ b \in Blocks
    BY BlockFacts DEF Accs
  <1>2. Take(a, b, h) = r
    BY ONLY <1>1 DEF Take, Accs, Mems
  <1>3. /\ ref \in [Blocks -> Nat] /\ hash \in [Blocks -> HashSet]
        /\ last \in [Blocks -> Int] /\ table \in Seq(Blocks)
        /\ ref[b] = 1 /\ hash[b] = h
        /\ \A x \in Blocks \ {b} : ref[x] = m.ref[x] /\ hash[x] = m.hash[x]
    BY <1>1 DEF Mems, NoStamp
  <1> HIDE DEF ref, hash, last
  <1>4. m2 \in Mems /\ m2.ref = ref /\ m2.hash = hash /\ m2.comp = m.comp
    BY <1>1, <1>3 DEF Mems
  <1> HIDE DEF m2, table
  <1>5. r \in Accs /\ r.m = m2 /\ r.dev = a.dev /\ r.table = table /\ r.ok = a.ok
    BY <1>3, <1>4 DEF Accs
  <1> HIDE DEF r
  <1>6. Gains(m, m2, a.dev, b, h)
    BY <1>3, <1>4 DEF Gains, Holders
  <1> QED BY <1>2, <1>5, <1>6 DEF Joins, table

\* A block that is not shared comes from the free ones, and fails without one.
LEMMA NewBlockFacts ==
    ASSUME Setting, NEW a \in Accs, Sound(a.m), a.ok, NEW h \in HashSet,
           h = NoHash \/ Holders(a.m, a.dev, h) = {}
    PROVE  /\ FreeIn(a.m, a.dev) # {} => Joins(a, NewBlock(a, h), h)
           /\ FreeIn(a.m, a.dev) = {} => Fails(a, NewBlock(a, h))
  <1> DEFINE free == FreeIn(a.m, a.dev)
             plain == Holders(a.m, free, NoHash)
             b == IF plain # {} THEN Min(plain) ELSE Oldest(a.m, free)
  <1>1. /\ free \subseteq a.dev /\ free \subseteq Blocks /\ plain \subseteq free
        /\ plain \subseteq Nat /\ a.m \in Mems
    BY BlockFacts DEF FreeIn, Holders, Accs
  <1>2. ASSUME free # {} PROVE Joins(a, NewBlock(a, h), h)
    <2>1. plain # {} => Min(plain) \in plain
      <3> HIDE DEF plain
      <3> QED BY <1>1, MinNat
    <2>2. plain = {} => Oldest(a.m, free) \in free
      <3>1. plain = {} => \A x \in free : a.m.hash[x] # NoHash
        BY DEF Holders
      <3>2. free \in SUBSET Blocks
        BY <1>1
      <3> HIDE DEF free, plain
      <3> QED BY <1>1, <1>2, <3>1, <3>2, OldestIn
    <2>3. b \in free
      <3> HIDE DEF free, plain
      <3> QED BY <1>1, <2>1, <2>2
    <2>4. NewBlock(a, h) = Take(a, b, h)
      BY <1>2 DEF NewBlock
    <2> HIDE DEF b
    <2>5. b \in a.dev /\ a.m.ref[b] = 0
      BY <2>3 DEF FreeIn
    <2> QED BY <2>4, <2>5, TakeFacts
  <1>3. ASSUME free = {} PROVE Fails(a, NewBlock(a, h))
    <2>1. NewBlock(a, h) = [a EXCEPT !.ok = FALSE]
      BY <1>3 DEF NewBlock
    <2> QED BY <2>1 DEF Fails, Accs
  <1> QED BY <1>2, <1>3

\* A block that caches the content joins the table: the prefix caching hit.
LEMMA ReuseFacts ==
    ASSUME Setting, NEW a \in Accs, Sound(a.m), a.ok,
           NEW b \in a.dev, NEW h, a.m.hash[b] = h, h # NoHash
    PROVE  Joins(a, Reuse(a, b), h)
  <1> DEFINE m == a.m
             back == m.ref[b] = 0
             ref == [m.ref EXCEPT ![b] = m.ref[b] + 1]
             comp == IF back THEN m.comp \cup {b} ELSE m.comp
             last == [m.last EXCEPT ![b] = IF back THEN NoStamp ELSE m.last[b]]
             m2 == [m EXCEPT !.ref = ref, !.comp = comp, !.last = last]
             table == Append(a.table, b)
             r == [a EXCEPT !.m = m2, !.table = table]
  <1>1. m \in Mems /\ a.dev \in Devices /\ a.table \in Seq(Blocks) /\ b \in Blocks
    BY BlockFacts DEF Accs
  <1>2. Reuse(a, b) = r
    BY <1>1 DEF Reuse, Accs, Mems
  <1>3. /\ ref \in [Blocks -> Nat] /\ comp \in SUBSET Blocks
        /\ last \in [Blocks -> Int] /\ table \in Seq(Blocks)
        /\ ref[b] = m.ref[b] + 1
        /\ \A x \in Blocks \ {b} : ref[x] = m.ref[x]
        /\ m.comp \subseteq comp /\ comp \subseteq m.comp \cup {b}
    BY <1>1 DEF Mems, NoStamp
  <1> HIDE DEF ref, comp, last
  <1>4. m2 \in Mems /\ m2.ref = ref /\ m2.hash = m.hash /\ m2.comp = comp
    BY <1>1, <1>3 DEF Mems
  <1> HIDE DEF m2, table
  <1>5. r \in Accs /\ r.m = m2 /\ r.dev = a.dev /\ r.table = table /\ r.ok = a.ok
    BY <1>3, <1>4 DEF Accs
  <1> HIDE DEF r
  <1>6. \A x \in a.dev : m.hash[x] = h => x = b
    BY <1>1 DEF Sound
  <1>7. Gains(m, m2, a.dev, b, h)
    BY <1>3, <1>4, <1>6 DEF Gains
  <1> QED BY <1>2, <1>5, <1>7 DEF Joins, table

\* One content hash of an allocation.
LEMMA AllocateBlockFacts ==
    ASSUME Setting, NEW a \in Accs, Sound(a.m), NEW h \in HashSet
    PROVE  \/ ~a.ok /\ AllocateBlock(a, h) = a
           \/ a.ok /\ Joins(a, AllocateBlock(a, h), h)
           \/ a.ok /\ Fails(a, AllocateBlock(a, h))
  <1> DEFINE held == Holders(a.m, a.dev, h)
             b == CHOOSE x \in held : TRUE
  <1>1. CASE ~a.ok
    BY <1>1 DEF AllocateBlock
  <1>2. CASE a.ok /\ h # NoHash /\ held # {}
    <2>1. b \in held
      <3> HIDE DEF held
      <3> QED BY <1>2, Zenon
    <2>2. AllocateBlock(a, h) = Reuse(a, b)
      BY <1>2 DEF AllocateBlock
    <2> HIDE DEF b
    <2>3. b \in a.dev /\ a.m.hash[b] = h
      BY <2>1 DEF Holders
    <2> QED BY <1>2, <2>2, <2>3, ReuseFacts
  <1>3. CASE a.ok /\ ~(h # NoHash /\ held # {})
    <2>1. AllocateBlock(a, h) = NewBlock(a, h)
      BY ONLY <1>3 DEF AllocateBlock
    <2> QED BY <1>3, <2>1, NewBlockFacts
  <1> QED BY <1>1, <1>2, <1>3 DEF Accs

\* Full blocks of one content are not asked for twice.
HashList(hs, k) ==
    /\ DOMAIN hs = 1..k /\ \A i \in 1..k : hs[i] \in HashSet
    /\ \A i, j \in 1..k : hs[i] = hs[j] /\ hs[i] # NoHash => i = j

\* What a has taken for the first k hashes; the references are in l.
Grown(a, dev, hs, k, T, n, c, l) ==
    /\ a \in Accs /\ a.dev = dev /\ a.table \in Seq(dev)
    /\ IsInjective(a.table) /\ Len(a.table) <= k /\ (a.ok => Len(a.table) = k)
    /\ \A i \in 1..Len(a.table) : a.m.hash[a.table[i]] = hs[i]
    /\ Core(a.m, T, n, c, More(l, ToSet(a.table)))

\* Joining the block for the k-th hash keeps what the first k - 1 have made.
LEMMA GrownStep ==
    ASSUME Setting, NEW a, NEW r, NEW dev, NEW hs, NEW N \in Nat, NEW k \in 1..N,
           HashList(hs, N), NEW T, NEW n, NEW c, NEW l \in [Blocks -> Nat],
           Grown(a, dev, hs, k - 1, T, n, c, l), a.ok, Joins(a, r, hs[k])
    PROVE  Grown(r, dev, hs, k, T, n, c, l)
  <1> DEFINE t == a.table
             l1 == More(l, ToSet(t))
  <1>1. /\ a \in Accs /\ a.dev = dev /\ t \in Seq(dev) /\ IsInjective(t)
        /\ Len(t) = k - 1 /\ Core(a.m, T, n, c, l1) /\ dev \in Devices
        /\ \A i \in 1..(k - 1) : a.m.hash[t[i]] = hs[i]
    BY DEF Grown, Accs
  <1>2. PICK b \in dev : Gains(a.m, r.m, dev, b, hs[k]) /\ r.table = Append(t, b)
    BY <1>1 DEF Joins
  <1>3. Core(r.m, T, n, c, More(l1, {b})) /\ b \in Blocks
    <2> HIDE DEF l1
    <2> QED BY <1>1, <1>2, CoreGrab
  <1>4. ToSet(t) \subseteq dev /\ dev \subseteq Blocks /\ ToSet(t) \subseteq Blocks
    BY ONLY Setting, <1>1, ElementsIn, BlockFacts
  <1>5. b \notin ToSet(t)
    <2> SUFFICES ASSUME b \in ToSet(t) PROVE FALSE
      OBVIOUS
    <2>1. PICK j \in 1..(k - 1) : t[j] = b
      <3>1. t \in Seq(dev) /\ Len(t) = k - 1 /\ b \in ToSet(t)
        BY <1>1
      <3> HIDE DEF t
      <3>2. \E j \in 1..Len(t) : t[j] = b
        BY ONLY <3>1, ElementsIn
      <3> QED BY ONLY <3>1, <3>2
    <2>2. l1[b] >= 1 /\ l1[b] <= a.m.ref[b] /\ l1[b] \in Nat /\ a.m.ref[b] \in Nat
      <3>1. l1[b] >= 1
        BY <1>3, MoreFewer
      <3> HIDE DEF l1
      <3> QED BY <1>1, <1>3, <3>1, CoreRefs
    <2>3. a.m.hash[b] = hs[k] /\ hs[k] # NoHash
      BY <1>2, <2>2 DEF Gains
    <2>4. hs[j] = hs[k]
      BY ONLY <1>1, <2>1, <2>3
    <2>5. j \in 1..N /\ j # k
      BY <2>1
    <2> QED BY <2>3, <2>4, <2>5 DEF HashList
  <1>6. /\ r.table \in Seq(dev) /\ IsInjective(r.table) /\ Len(r.table) = k
        /\ ToSet(r.table) = ToSet(t) \cup {b}
        /\ r.table[k] = b /\ \A i \in 1..(k - 1) : r.table[i] = t[i]
    <2>1. (k - 1) + 1 = k
      OBVIOUS
    <2> QED BY <1>1, <1>2, <1>5, <2>1, AppendSet
  <1>7. Core(r.m, T, n, c, More(l, ToSet(r.table)))
    <2>1. ToSet(t) \cap {b} = {}
      BY <1>5
    <2>2. More(l1, {b}) = More(l, ToSet(t) \cup {b})
      BY <2>1, MoreMore
    <2> QED BY <1>3, <1>6, <2>2
  <1>8. ASSUME NEW i \in 1..k PROVE r.m.hash[r.table[i]] = hs[i]
    <2>1. CASE i = k
      BY <1>2, <1>6, <2>1 DEF Gains
    <2>2. CASE i # k
      <3>1. i \in 1..(k - 1)
        BY <2>2
      <3>2. r.table[i] = t[i] /\ t[i] \in ToSet(t)
        BY <1>1, <1>6, <3>1, ElementsIn
      <3>3. t[i] \in Blocks \ {b}
        BY <1>4, <1>5, <3>2
      <3>4. r.m.hash[t[i]] = a.m.hash[t[i]]
        BY <1>2, <3>3 DEF Gains
      <3>5. a.m.hash[t[i]] = hs[i]
        BY <1>1, <3>1
      <3> QED BY <3>2, <3>4, <3>5
    <2> QED BY ONLY <2>1, <2>2
  <1> QED BY <1>1, <1>6, <1>7, <1>8 DEF Grown, Joins

Allocating == INSTANCE Induction WITH Combine <- AllocateBlock

\* Allocate: the table it builds is for the first of the hashes, for all of them
\* when it succeeds.
LEMMA AllocateFacts ==
    ASSUME Setting, NEW m, NEW dev \in Devices, NEW k \in Nat, NEW hs, HashList(hs, k),
           NEW T, NEW n, NEW c, NEW l, Core(m, T, n, c, l)
    PROVE  Grown(Allocate(m, dev, hs), dev, hs, k, T, n, c, l)
  <1> DEFINE a0 == Building(m, dev, <<>>)
  <1>1. PICK run : Allocating!Runs(run, k, a0, hs)
    <2>1. DOMAIN hs = 1..k
      BY DEF HashList
    <2> QED BY <2>1, Allocating!FoldRun
  <1>2. Allocate(m, dev, hs) = Allocating!Fold(a0, hs)
    BY DEF Allocate, Allocating!Fold, FoldLeft, MapThenFoldSet, Allocating!FoldLeft,
           Allocating!MapThenFoldSet, Allocating!Max, Max
  <1>3. /\ run[0] = a0 /\ run[k] = Allocate(m, dev, hs)
        /\ \A i \in 1..k : run[i] = AllocateBlock(run[i - 1], hs[i])
    BY <1>1, <1>2 DEF Allocating!Runs
  <1>4. l \in [Blocks -> Nat] /\ m \in Mems
    BY DEF Core, Sound
  <1> DEFINE S == {i \in 0..k : Grown(run[i], dev, hs, i, T, n, c, l)}
  <1>5. 0 \in S
    <2>1. a0 \in Accs /\ a0.m = m /\ a0.dev = dev /\ a0.table = <<>> /\ a0.ok
      BY <1>4 DEF Building, Accs
    <2>2. /\ <<>> \in Seq(dev) /\ IsInjective(<<>>) /\ Len(<<>>) = 0
          /\ 1..0 = {} /\ ToSet(<<>>) = {}
      BY DEF IsInjective, ToSet
    <2>3. More(l, {}) = l
      BY <1>4, MoreFewer
    <2> HIDE DEF a0
    <2>4. /\ ToSet(a0.table) = {} /\ IsInjective(a0.table) /\ Len(a0.table) = 0
          /\ a0.table \in Seq(dev)
      BY <2>1, <2>2
    <2>5. Core(a0.m, T, n, c, More(l, ToSet(a0.table)))
      BY <2>1, <2>3, <2>4, Zenon
    <2>6. Grown(a0, dev, hs, 0, T, n, c, l)
      BY ONLY <2>1, <2>4, <2>5 DEF Grown
    <2> QED BY <1>3, <2>6
  <1>6. ASSUME NEW i \in 1..k, i - 1 \in S PROVE i \in S
    <2> DEFINE a == run[i - 1]
               r == run[i]
    <2>1. r = AllocateBlock(a, hs[i]) /\ Grown(a, dev, hs, i - 1, T, n, c, l)
      BY ONLY <1>3, <1>6
    <2>2. a \in Accs /\ Sound(a.m) /\ hs[i] \in HashSet
      BY <2>1 DEF Grown, Core, HashList
    <2> HIDE DEF a, r
    <2>3. CASE ~a.ok /\ r = a
      <3>1. Len(a.table) \in Nat
        BY <2>2 DEF Accs
      <3> QED BY <2>1, <2>3, <3>1 DEF Grown, r
    <2>4. CASE a.ok /\ Joins(a, r, hs[i])
      <3>1. Grown(r, dev, hs, i, T, n, c, l)
        BY <1>4, <2>1, <2>4, GrownStep
      <3> QED BY <3>1 DEF r
    <2>5. CASE a.ok /\ Fails(a, r)
      <3>1. Len(a.table) \in Nat
        BY <2>2 DEF Accs
      <3>2. Grown(r, dev, hs, i, T, n, c, l)
        BY ONLY <2>1, <2>5, <3>1 DEF Grown, Fails
      <3> QED BY <3>2 DEF r
    <2> QED BY <2>1, <2>2, <2>3, <2>4, <2>5, AllocateBlockFacts
  <1>7. k \in S
    <2>1. \A i \in 1..k : i - 1 \in S => i \in S
      BY <1>6
    <2>2. k \in 0..k
      OBVIOUS
    <2> HIDE DEF S
    <2> QED BY <1>5, <2>1, <2>2, UpTo
  <1> QED BY <1>3, <1>7
-----------------------------------------------------------------------------
(***************************************************************************)
(* Tokens and blocks.                                                      *)
(***************************************************************************)
\* Whole blocks keep the order of the tokens.
LEMMA Scaling ==
    ASSUME NEW x \in Int, NEW y \in Int
    PROVE  /\ x * BlockSize \in Int /\ (x <= y <=> x * BlockSize <= y * BlockSize)
           /\ x < y <=> x * BlockSize < y * BlockSize
           /\ (x + 1) * BlockSize = x * BlockSize + BlockSize
           /\ (x - 1) * BlockSize = x * BlockSize - BlockSize
           /\ x \in Nat => x * BlockSize \in Nat
  <1> DEFINE b == BlockSize
  <1>1. b \in Nat \ {0}
    BY EngineAssumption
  <1> HIDE DEF b
  <1>2. x * b \in Int /\ (x + 1) * b = x * b + b /\ (x - 1) * b = x * b - b
    BY <1>1
  <1>3. (x <= y <=> x * b <= y * b) /\ (x < y <=> x * b < y * b)
    BY <1>1
  <1>4. x \in Nat => x * b \in Nat
    BY <1>1
  <1> QED BY <1>2, <1>3, <1>4 DEF b

\* n tokens fill n \div BlockSize blocks and touch CeilDiv(n, BlockSize).
LEMMA Blocking ==
    ASSUME NEW n \in Nat
    PROVE  /\ n \div BlockSize \in Nat
           /\ \A i \in Int : i * BlockSize <= n <=> i <= n \div BlockSize
           /\ (n \div BlockSize) * BlockSize <= n
           /\ CeilDiv(n, BlockSize) \in Nat
           /\ n <= CeilDiv(n, BlockSize) * BlockSize
           /\ (CeilDiv(n, BlockSize) - 1) * BlockSize < n
           /\ \A i \in Int : n <= i * BlockSize <=> CeilDiv(n, BlockSize) <= i
           /\ n > 0 <=> CeilDiv(n, BlockSize) > 0
  <1> DEFINE b == BlockSize
             q == n \div b
             p == (-n) \div b
             k == -p
  <1>1. b \in Nat \ {0}
    BY EngineAssumption
  <1>2. q \in Nat /\ q * b <= n /\ n < q * b + b
    <2> HIDE DEF b
    <2> QED BY <1>1
  <1>3. p \in Int /\ p * b <= -n /\ -n < p * b + b
    <2>1. -n \in Int
      OBVIOUS
    <2> HIDE DEF b
    <2> QED BY ONLY <1>1, <2>1
  <1>4. k \in Int /\ k * b = -(p * b) /\ (k - 1) * b = k * b - b /\ k * b \in Int
    <2> HIDE DEF b
    <2> QED BY <1>1, <1>3
  <1>5. CeilDiv(n, b) = k
    BY DEF CeilDiv
  <1> HIDE DEF q, p, k
  <1>6. ASSUME NEW i \in Int PROVE i * b <= n <=> i <= q
    <2>1. i * b \in Int /\ (i <= q <=> i * b <= q * b) /\ (q < i <=> q + 1 <= i)
          /\ (q + 1 <= i <=> (q + 1) * b <= i * b) /\ (q + 1) * b = q * b + b
      <3>1. q \in Int /\ q + 1 \in Int
        BY <1>2
      <3>2. q < i <=> q + 1 <= i
        BY <3>1
      <3> QED BY ONLY <3>1, <3>2, Scaling DEF b
    <2>2. CASE i <= q
      <3> HIDE DEF b
      <3> QED BY ONLY <1>1, <1>2, <2>1, <2>2
    <2>3. CASE q < i
      <3>1. q * b + b <= i * b
        <4> HIDE DEF b
        <4> QED BY ONLY <1>1, <1>2, <2>1, <2>3
      <3>2. ~(i * b <= n)
        <4> HIDE DEF b
        <4>1. q * b \in Int /\ b \in Int
          BY <1>1, <1>2
        <4> QED BY ONLY <1>2, <2>1, <3>1, <4>1
      <3> QED BY ONLY <1>2, <2>3, <3>2
    <2> QED BY ONLY <1>2, <2>2, <2>3
  <1>7. n <= k * b /\ (k - 1) * b < n
    BY <1>1, <1>3, <1>4
  <1>8. ASSUME NEW i \in Int PROVE n <= i * b <=> k <= i
    <2>1. /\ i * b \in Int /\ (k <= i <=> k * b <= i * b) /\ (i < k <=> i <= k - 1)
          /\ (i <= k - 1 <=> i * b <= (k - 1) * b)
      <3>1. k - 1 \in Int /\ (i < k <=> i <= k - 1)
        BY <1>4
      <3> QED BY <1>4, <3>1, Scaling DEF b
    <2>2. (k - 1) * b \in Int
      BY <1>4, Scaling DEF b
    <2> QED BY ONLY <1>4, <1>7, <2>1, <2>2
  <1>9. k \in Nat /\ (n > 0 <=> k > 0)
    <2>1. /\ n <= 0 * b <=> k <= 0
          /\ n <= (-1) * b <=> k <= -1
          /\ 0 * b = 0 /\ (-1) * b < 0
      <3>1. 0 \in Int /\ -1 \in Int
        OBVIOUS
      <3>2. 0 * b = 0 /\ (-1) * b < 0
        <4> HIDE DEF b
        <4> QED BY <1>1
      <3> QED BY <1>8, <3>1, <3>2
    <2>2. n <= 0 <=> k <= 0
      BY <2>1, Zenon
    <2>3. ~(k <= -1)
      <3> HIDE DEF b
      <3>1. (-1) * b \in Int
        BY <1>1
      <3>2. ~(n <= (-1) * b)
        BY <2>1, <3>1
      <3> QED BY <2>1, <3>2
    <2> QED BY <1>4, <2>2, <2>3
  <1> QED BY ONLY <1>2, <1>5, <1>6, <1>7, <1>8, <1>9 DEF b, q

\* The hashes of n tokens of s.
LEMMA HashesFacts ==
    ASSUME Setting, NEW s \in Seqs, NEW n \in Nat
    PROVE  /\ HashList(Hashes(s, n), CeilDiv(n, BlockSize))
           /\ \A i \in 1..CeilDiv(n, BlockSize) : Hashes(s, n)[i] = Content(s, n, i)
  <1> DEFINE k == CeilDiv(n, BlockSize)
  <1>1. \A i \in 1..k : Hashes(s, n)[i] = Content(s, n, i)
    BY DEF Hashes, Content
  <1>2. DOMAIN Hashes(s, n) = 1..k
    BY DEF Hashes
  <1>3. \A i \in 1..k : i \in Nat \ {0}
    BY Blocking
  <1>4. \A i \in 1..k : Content(s, n, i) \in HashSet
    BY <1>3, HashFacts DEF Content
  <1>5. \A i, j \in 1..k : Content(s, n, i) = Content(s, n, j)
                           /\ Content(s, n, i) # NoHash => i = j
    BY <1>3, HashFacts DEF Content
  <1> QED BY <1>1, <1>2, <1>4, <1>5 DEF HashList

\* The cached prefix is a number of tokens.
LEMMA CachedType ==
    ASSUME NEW m, NEW dev, NEW s, NEW n \in Nat
    PROVE  CachedTokens(m, dev, s, n) \in Nat
  <1> DEFINE full == n \div BlockSize
             hits == {i \in 1..full :
                         \E b \in Holders(m, dev, Hash(s, i)) : IsComputed(m, b)}
  <1>1. full \in Nat
    BY Blocking
  <1>2. CachedTokens(m, dev, s, n) = BlockSize * BisectLeft(hits, full)
    BY DEF CachedTokens
  <1> HIDE DEF full, hits
  <1>3. BisectLeft(hits, full) \in Nat
    <2>1. BisectLeft(hits, full) \in 0..full
      BY <1>1, BisectFacts
    <2> QED BY <1>1, <2>1
  <1> HIDE DEF full, hits
  <1> DEFINE x == BisectLeft(hits, full)
  <1>4. x \in Nat
    BY <1>3
  <1> HIDE DEF x
  <1>5. BlockSize * x \in Nat
    BY <1>4, EngineAssumption
  <1> QED BY <1>2, <1>5 DEF x

\* Zip of two tables.
LEMMA ZipPairs ==
    ASSUME NEW p \in Seq(Blocks), NEW q \in Seq(Blocks)
    PROVE  Zip(p, q) \in Seq(Pairs)
  <1> DEFINE k == IF Len(p) <= Len(q) THEN Len(p) ELSE Len(q)
  <1>1. /\ k \in Nat
        /\ \A i \in 1..k : p[i] \in Blocks /\ q[i] \in Blocks
    OBVIOUS
  <1>2. Zip(p, q) = [i \in 1..k |-> <<p[i], q[i]>>]
    BY DEF Zip
  <1> HIDE DEF k
  <1> QED BY ONLY <1>1, <1>2 DEF Pairs
-----------------------------------------------------------------------------
(***************************************************************************)
(* What the block manager does with a table.                               *)
(***************************************************************************)
\* T2, n2, c2 are T, n, c after the table of s is gone.
Emptied(T, n, c, T2, n2, c2, s) ==
    /\ T2 \in [Seqs -> Seq(Blocks)] /\ T2[s] = <<>>
    /\ Alike(T, T2, s) /\ Alike(n, n2, s) /\ Alike(c, c2, s)

\* T2, n2, c2 are T, n, c after s got a table for the first x of its tokens.
Filled(T, n, c, T2, n2, c2, s, x) ==
    /\ T2 \in [Seqs -> Seq(Blocks)] /\ T[s] = <<>> /\ n2[s] = x /\ c2[s] = 0
    /\ Alike(T, T2, s) /\ Alike(n, n2, s) /\ Alike(c, c2, s)

\* Freeing a table.
LEMMA CoreFreeTable ==
    ASSUME Setting, NEW m, NEW T, NEW n, NEW c, NEW l, Core(m, T, n, c, l),
           NEW s \in Seqs, NEW stamp \in Int, NEW T2, NEW n2, NEW c2,
           Emptied(T, n, c, T2, n2, c2, s)
    PROVE  Core(FreeTable(m, T[s], stamp), T2, n2, c2, l)
  <1> DEFINE S == ToSet(T[s])
             l1 == More(l, S)
             m1 == IF stamp = NoStamp THEN m ELSE Touch(m, S, stamp)
  <1>1. l \in [Blocks -> Nat] /\ m \in Mems /\ (\A b \in m.comp : m.ref[b] > 0)
    BY DEF Core, Sound
  <1>2. Core(m, T2, n2, c2, l1)
    BY CoreOrphan DEF Emptied
  <1>3. Core(m1, T2, n2, c2, l1)
    <2>1. Core(Touch(m, S, stamp), T2, n2, c2, l1)
      <3>1. Marks(m, Touch(m, S, stamp))
        BY <1>1, TouchMarks
      <3> HIDE DEF S, l1
      <3> QED BY <1>2, <3>1, CoreMark
    <2> QED BY <1>2, <2>1
  <1>4. S \in SUBSET Blocks
    <2>1. T[s] \in Seq(Blocks)
      BY DEF Core
    <2> QED BY <2>1, ElementsIn
  <1> HIDE DEF S
  <1>5. (\A b \in S : l1[b] >= 1) /\ Fewer(l1, S) = l
    <2>1. \A b \in Blocks \cap S : l1[b] >= 1
      BY <1>1, MoreFewer
    <2>2. Fewer(l1, S) = More(l, S \ S) /\ More(l, {}) = l
      BY <1>1, MoreFewer, FewerMore
    <2>3. S \ S = {}
      OBVIOUS
    <2> QED BY <1>4, <2>1, <2>2, <2>3
  <1> HIDE DEF l1, m1
  <1>6. Core(Release(m1, S), T2, n2, c2, l)
    BY <1>3, <1>4, <1>5, CoreDrop
  <1>7. FreeTable(m, T[s], stamp) = Release(m1, S)
    BY DEF FreeTable, m1, S
  <1> QED BY <1>6, <1>7

\* Handing back references that only l has.
LEMMA CoreGiveBack ==
    ASSUME Setting, NEW m, NEW T, NEW n, NEW c, NEW l \in [Blocks -> Nat], NEW S,
           NEW D \in SUBSET S, S \subseteq Blocks, Core(m, T, n, c, More(l, S))
    PROVE  Core(Release(m, D), T, n, c, More(l, S \ D))
  <1> DEFINE l1 == More(l, S)
  <1>1. (\A b \in D : l1[b] >= 1) /\ D \in SUBSET Blocks
    <2>1. \A b \in Blocks \cap S : l1[b] >= 1
      BY MoreFewer
    <2> QED BY <2>1
  <1>2. Fewer(l1, D) = More(l, S \ D)
    BY FewerMore
  <1> HIDE DEF l1
  <1>3. Core(Release(m, D), T, n, c, Fewer(l1, D))
    BY <1>1, CoreDrop DEF l1
  <1> QED BY <1>2, <1>3

\* Blocks that l has references to may count as computed.
LEMMA CoreHeldMark ==
    ASSUME Setting, NEW m, NEW T, NEW n, NEW c, NEW l, Core(m, T, n, c, l),
           NEW S \in SUBSET Blocks, \A b \in S : m.ref[b] > 0
    PROVE  Core([m EXCEPT !.comp = @ \cup S], T, n, c, l)
  <1>1. m \in Mems /\ \A b \in m.comp : m.ref[b] > 0
    BY DEF Core, Sound
  <1>2. Marks(m, [m EXCEPT !.comp = @ \cup S])
    BY <1>1, CompMarks
  <1> QED BY <1>2, CoreMark

\* Swapping in gives back all it took, unless the CPU had no block left.
LEMMA SwapInCore ==
    ASSUME Setting, NEW m, NEW T, NEW n, NEW c, NEW l, Core(m, T, n, c, l),
           NEW s \in Seqs, NEW gpu \in Nat, NEW cpu \in Nat, NEW in,
           in = SwapInPrefix(m, s, gpu, cpu)
    PROVE  /\ in.held \subseteq Cpu /\ in.ok \in BOOLEAN /\ in.map \in Seq(Pairs)
           /\ in.ok => in.held = {}
           /\ Core(in.m, T, n, c, More(l, in.held))
  <1> DEFINE k == CeilDiv(cpu, BlockSize)
             d == gpu \div BlockSize
             hs == Hashes(s, cpu)
             tmp == Allocate(m, Cpu, hs)
             t == tmp.table
             A == ToSet(t)
  <1>1. l \in [Blocks -> Nat] /\ More(l, {}) = l
    <2>1. l \in [Blocks -> Nat]
      BY DEF Core
    <2> QED BY <2>1, MoreFewer
  <1>2. CASE cpu <= gpu
    <2>1. in = [m |-> m, map |-> <<>>, ok |-> TRUE, held |-> {}]
      BY <1>2 DEF SwapInPrefix
    <2>2. <<>> \in Seq(Pairs)
      OBVIOUS
    <2> QED BY <1>1, <2>1, <2>2
  <1>3. CASE ~(cpu <= gpu)
    <2>0. in = SwapIn(tmp, d)
      BY <1>3 DEF SwapInPrefix
    <2>1. k \in Nat /\ d \in Nat /\ HashList(hs, k) /\ Cpu \in Devices
      BY Blocking, HashesFacts, BlockFacts
    <2>2. Grown(tmp, Cpu, hs, k, T, n, c, l)
      <3> HIDE DEF k, hs
      <3> QED BY <2>1, AllocateFacts
    <2> HIDE DEF hs, tmp
    <2>3. /\ tmp \in Accs /\ t \in Seq(Cpu) /\ t \in Seq(Blocks) /\ IsInjective(t)
          /\ A \subseteq Cpu /\ A \subseteq Blocks /\ tmp.ok \in BOOLEAN
          /\ (tmp.ok => Len(t) = k) /\ Core(tmp.m, T, n, c, More(l, A))
          /\ Len(t) \in Nat /\ DOMAIN t = 1..Len(t)
      BY <2>2, ElementsIn, BlockFacts DEF Grown, Accs
    <2>4. CASE ~tmp.ok
      <3>1. in = [m |-> tmp.m, map |-> <<>>, ok |-> FALSE, held |-> A]
        BY <2>0, <2>4 DEF SwapIn
      <3>2. <<>> \in Seq(Pairs)
        OBVIOUS
      <3> QED BY <2>3, <3>1, <3>2
    <2>5. CASE tmp.ok
      <3> DEFINE moved == SubSeq(t, 1 + d, Len(t))
                 front == SubSeq(t, 1, d)
                 S == ToSet(moved)
                 F == ToSet(front)
                 r == Release(tmp.m, S)
                 gs == [i \in DOMAIN moved |-> tmp.m.hash[moved[i]]]
                 dst == Allocate(r, Gpu, gs)
                 D == ToSet(dst.table)
                 marked == [dst.m EXCEPT !.comp = @ \cup D]
      <3>1. d <= Len(t)
        <4>1. d <= k
          <5>1. d * BlockSize <= gpu /\ cpu <= k * BlockSize
            BY Blocking
          <5>2. d * BlockSize \in Int /\ k * BlockSize \in Int
            BY <2>1, Scaling
          <5>3. d * BlockSize <= k * BlockSize
            BY <1>3, <5>1, <5>2
          <5> QED BY <2>1, <5>3, Scaling
        <4> QED BY <2>3, <2>5, <4>1
      <3> HIDE DEF d, k
      <3>2. /\ moved \in Seq(Blocks) /\ IsInjective(moved) /\ S = {t[i] : i \in (1 + d)..Len(t)}
            /\ F = {t[i] : i \in 1..d}
        <4>1. /\ 1 + d \in Nat \ {0} /\ Len(t) \in Nat /\ Len(t) <= Len(t)
              /\ 1 \in Nat \ {0} /\ d \in Nat /\ d <= Len(t)
              /\ t \in Seq(Blocks) /\ IsInjective(t)
          BY <2>1, <2>3, <3>1
        <4>2. moved \in Seq(Blocks) /\ IsInjective(moved) /\ S = {t[i] : i \in (1 + d)..Len(t)}
          BY ONLY <4>1, SliceSet
        <4>3. F = {t[i] : i \in 1..d}
          BY ONLY <4>1, SliceSet
        <4> QED BY ONLY <4>2, <4>3
      <3>3. S \subseteq A /\ F = A \ S
        <4>1. A = {t[i] : i \in 1..Len(t)}
          BY <2>3 DEF ToSet
        <4>2. /\ (1 + d)..Len(t) \subseteq 1..Len(t) /\ 1..d = (1..Len(t)) \ ((1 + d)..Len(t))
          BY <2>1, <2>3, <3>1
        <4>3. \A i, j \in 1..Len(t) : t[i] = t[j] => i = j
          BY <2>3 DEF IsInjective
        <4> HIDE DEF S, F, A
        <4> QED BY <3>2, <4>1, <4>2, <4>3
      <3>4. Core(r, T, n, c, More(l, F))
        <4>1. S \in SUBSET A
          BY <3>3
        <4> HIDE DEF S, F, A
        <4>2. Core(Release(tmp.m, S), T, n, c, More(l, A \ S))
          BY <1>1, <2>3, <4>1, CoreGiveBack
        <4> QED BY <3>3, <4>2
      <3>5. HashList(gs, Len(moved)) /\ Len(moved) \in Nat
        <4>1. Len(moved) \in Nat /\ DOMAIN moved = 1..Len(moved)
              /\ \A i \in 1..Len(moved) : moved[i] \in S /\ moved[i] \in Blocks
          <5> HIDE DEF moved
          <5> QED BY <3>2, ElementsIn
        <4>2. \A i \in 1..Len(moved) : moved[i] \in Cpu
          BY <2>3, <3>3, <4>1
        <4> HIDE DEF moved, S
        <4>3. tmp.m \in Mems /\ Sound(tmp.m)
          BY <2>3 DEF Core, Sound
        <4>4. \A i \in 1..Len(moved) : gs[i] = tmp.m.hash[moved[i]] /\ gs[i] \in HashSet
          BY <4>1, <4>3 DEF Mems
        <4>5. \A i, j \in 1..Len(moved) : gs[i] = gs[j] /\ gs[i] # NoHash => i = j
          <5> SUFFICES ASSUME NEW i \in 1..Len(moved), NEW j \in 1..Len(moved),
                              gs[i] = gs[j], gs[i] # NoHash
                       PROVE  i = j
            OBVIOUS
          <5>1. moved[i] = moved[j]
            BY <2>1, <4>2, <4>3, <4>4 DEF Sound
          <5> QED BY ONLY <3>2, <4>1, <5>1 DEF IsInjective
        <4>6. DOMAIN gs = 1..Len(moved)
          BY <4>1
        <4> HIDE DEF gs
        <4> QED BY <4>1, <4>4, <4>5, <4>6 DEF HashList
      <3>6. Grown(dst, Gpu, gs, Len(moved), T, n, c, More(l, F))
        <4>1. Gpu \in Devices
          BY BlockFacts
        <4> HIDE DEF r, gs, moved, F
        <4> QED BY <3>4, <3>5, <4>1, AllocateFacts
      <3> HIDE DEF dst
      <3>7. /\ dst \in Accs /\ dst.table \in Seq(Blocks) /\ D \subseteq Gpu /\ D \subseteq Blocks
            /\ Core(dst.m, T, n, c, More(More(l, F), D))
        <4> HIDE DEF F
        <4>1. /\ dst \in Accs /\ dst.table \in Seq(Gpu)
              /\ Core(dst.m, T, n, c, More(More(l, F), D))
          BY <3>6 DEF Grown
        <4>2. dst.table \in Seq(Blocks)
          BY <4>1 DEF Accs
        <4>3. D \subseteq Gpu
          BY ONLY <4>1, ElementsIn
        <4>4. Gpu \subseteq Blocks
          BY BlockFacts
        <4> HIDE DEF D
        <4> QED BY ONLY <4>1, <4>2, <4>3, <4>4
      <3>8. F \subseteq Blocks /\ F \cap D = {}
        BY <2>3, <3>3, <3>7, BlockFacts
      <3> HIDE DEF F, D
      <3>9. Core(dst.m, T, n, c, More(l, F \cup D))
        <4>1. More(More(l, F), D) = More(l, F \cup D)
          BY ONLY <1>1, <3>8, MoreMore
        <4> QED BY <3>7, <4>1
      <3>10. Core(marked, T, n, c, More(l, F \cup D))
        <4> DEFINE l2 == More(l, F \cup D)
        <4>1. \A b \in D : l2[b] >= 1 /\ l2[b] \in Nat
          <5>1. l2 \in [Blocks -> Nat] /\ \A b \in Blocks \cap (F \cup D) : l2[b] >= 1
            BY <1>1, MoreFewer
          <5> HIDE DEF l2
          <5> QED BY <3>7, <5>1
        <4>2. Core(dst.m, T, n, c, l2)
          BY <3>9
        <4> HIDE DEF l2
        <4>3. \A b \in Blocks : dst.m.ref[b] \in Nat /\ l2[b] <= dst.m.ref[b]
          BY <4>2, CoreRefs
        <4>4. \A b \in D : dst.m.ref[b] > 0
          BY <3>7, <4>1, <4>3
        <4>5. Core(marked, T, n, c, l2)
          BY <3>7, <4>2, <4>4, CoreHeldMark
        <4> QED BY <4>5 DEF l2
      <3> HIDE DEF marked
      <3>11. Core(Release(marked, F \cup D), T, n, c, l)
        <4>1. F \cup D \in SUBSET (F \cup D) /\ F \cup D \subseteq Blocks
              /\ (F \cup D) \ (F \cup D) = {}
          BY <3>7, <3>8
        <4>2. Core(Release(marked, F \cup D), T, n, c, More(l, (F \cup D) \ (F \cup D)))
          BY <1>1, <3>10, <4>1, CoreGiveBack
        <4> QED BY ONLY <1>1, <4>1, <4>2
      <3>12. in = [m |-> Release(marked, F \cup D), map |-> Zip(moved, dst.table),
                   ok |-> TRUE, held |-> {}]
        BY <2>0, <2>5, Zenon DEF SwapIn, SwappedIn, marked, dst, F, D
      <3>13. Zip(moved, dst.table) \in Seq(Pairs)
        <4> HIDE DEF moved
        <4> QED BY <3>2, <3>7, ZipPairs
      <3> HIDE DEF moved
      <3> QED BY <1>1, <3>11, <3>12, <3>13
    <2> QED BY <2>3, <2>4, <2>5
  <1> QED BY <1>2, <1>3

\* What allocate hands back for x tokens.
Given(w, x) ==
    /\ w.table \in Seq(Gpu) /\ IsInjective(w.table)
    /\ w.held \subseteq Cpu /\ w.map \in Seq(Pairs)
    /\ w.cached \in Nat /\ w.ok \in BOOLEAN
    /\ w.ok => Len(w.table) = CeilDiv(x, BlockSize) /\ w.held = {}

\* allocate: what it took is in the table or, when the CPU ran out of blocks,
\* held for nobody.
LEMMA AllocateSeqFacts ==
    ASSUME Setting, NEW s \in Seqs, NEW x \in Nat, x = seq[s].len, NEW memoised,
           NEW T, NEW n, NEW c, NEW l, Core(mem, T, n, c, l),
           NEW w, w = AllocateSeq(s, memoised)
    PROVE  /\ Given(w, x)
           /\ Core(w.m, T, n, c, More(l, ToSet(w.table) \cup w.held))
  <1> DEFINE k == CeilDiv(x, BlockSize)
             hs == Hashes(s, x)
             a == Allocate(mem, Gpu, hs)
             m0 == IF memoised THEN mem ELSE a.m
             gpu == CachedTokens(m0, Gpu, s, x)
             cpu == CachedTokens(m0, Cpu, s, x)
             in == SwapInPrefix(a.m, s, gpu, cpu)
             A == ToSet(a.table)
  <1>1. /\ w.m = in.m /\ w.map = in.map /\ w.table = a.table /\ w.held = in.held
        /\ w.ok = (a.ok /\ in.ok) /\ w.cached = Most(gpu, cpu)
    BY DEF AllocateSeq, WithPrefix
  <1>2. gpu \in Nat /\ cpu \in Nat /\ Most(gpu, cpu) \in Nat
    <2>1. gpu \in Nat /\ cpu \in Nat
      <3> HIDE DEF m0
      <3> QED BY CachedType
    <2> HIDE DEF gpu, cpu
    <2> QED BY <2>1 DEF Most
  <1>3. k \in Nat /\ HashList(hs, k) /\ Gpu \in Devices
    BY ONLY Setting, Blocking, HashesFacts, BlockFacts
  <1>4. Grown(a, Gpu, hs, k, T, n, c, l)
    <2> HIDE DEF k, hs
    <2> QED BY <1>3, AllocateFacts
  <1> HIDE DEF hs, a, gpu, cpu
  <1>5. /\ a \in Accs /\ a.table \in Seq(Gpu) /\ IsInjective(a.table) /\ A \subseteq Gpu
        /\ (a.ok => Len(a.table) = k) /\ Core(a.m, T, n, c, More(l, A)) /\ a.ok \in BOOLEAN
    BY <1>4, ElementsIn DEF Grown, Accs
  <1>6. /\ in.held \subseteq Cpu /\ in.ok \in BOOLEAN /\ in.map \in Seq(Pairs)
        /\ in.ok => in.held = {}
        /\ Core(in.m, T, n, c, More(More(l, A), in.held))
    <2> DEFINE l1 == More(l, A)
    <2>1. Core(a.m, T, n, c, l1)
      BY <1>5
    <2> HIDE DEF l1, in
    <2>2. /\ in.held \subseteq Cpu /\ in.ok \in BOOLEAN /\ in.map \in Seq(Pairs)
          /\ in.ok => in.held = {}
          /\ Core(in.m, T, n, c, More(l1, in.held))
      BY <1>2, <2>1, SwapInCore DEF in
    <2> QED BY <2>2 DEF l1
  <1> HIDE DEF in, A, k
  <1>7. Core(in.m, T, n, c, More(l, A \cup in.held))
    <2>1. l \in [Blocks -> Nat] /\ A \cap in.held = {}
      BY <1>5, <1>6, BlockFacts DEF Core
    <2>2. More(More(l, A), in.held) = More(l, A \cup in.held)
      BY <2>1, MoreMore
    <2> QED BY <1>6, <2>2
  <1>8. ToSet(w.table) = A
    BY <1>1 DEF A
  <1>9. Given(w, x)
    BY <1>1, <1>2, <1>5, <1>6 DEF Given, k
  <1> QED BY ONLY <1>1, <1>7, <1>8, <1>9

\* When it succeeds, the table is the sequence's and nothing else is held.
LEMMA AllocateSeqSeats ==
    ASSUME Setting, NEW s \in Seqs, NEW x \in Nat, x = seq[s].len, NEW memoised,
           NEW T, NEW n, NEW c, NEW l, Core(mem, T, n, c, l),
           NEW w, w = AllocateSeq(s, memoised), w.ok,
           NEW T2, NEW n2, NEW c2, Filled(T, n, c, T2, n2, c2, s, x), T2[s] = w.table
    PROVE  Core(w.m, T2, n2, c2, l)
  <1> DEFINE k == CeilDiv(x, BlockSize)
             hs == Hashes(s, x)
             a == Allocate(mem, Gpu, hs)
             m0 == IF memoised THEN mem ELSE a.m
             gpu == CachedTokens(m0, Gpu, s, x)
             cpu == CachedTokens(m0, Cpu, s, x)
             in == SwapInPrefix(a.m, s, gpu, cpu)
             A == ToSet(a.table)
  <1>1. w.m = in.m /\ w.table = a.table /\ w.ok = (a.ok /\ in.ok)
    BY DEF AllocateSeq, WithPrefix
  <1>2. gpu \in Nat /\ cpu \in Nat
    <2> HIDE DEF m0
    <2> QED BY CachedType
  <1>3. k \in Nat /\ HashList(hs, k) /\ Gpu \in Devices
        /\ \A i \in 1..k : hs[i] = Content(s, x, i)
    BY ONLY Setting, Blocking, HashesFacts, BlockFacts
  <1>4. Grown(a, Gpu, hs, k, T, n, c, l)
    <2> HIDE DEF k, hs
    <2> QED BY <1>3, AllocateFacts
  <1> HIDE DEF hs, a, gpu, cpu
  <1>5. /\ a \in Accs /\ a.table \in Seq(Gpu) /\ IsInjective(a.table) /\ A \subseteq Gpu
        /\ Len(a.table) = k /\ Core(a.m, T, n, c, More(l, A)) /\ a.ok /\ in.ok
        /\ \A i \in 1..k : a.m.hash[a.table[i]] = hs[i]
        /\ DOMAIN a.table = 1..k
    <2>1. a.ok /\ in.ok
      BY <1>1, Zenon
    <2>2. /\ a \in Accs /\ a.table \in Seq(Gpu) /\ IsInjective(a.table)
          /\ Len(a.table) = k /\ Core(a.m, T, n, c, More(l, A))
          /\ \A i \in 1..Len(a.table) : a.m.hash[a.table[i]] = hs[i]
      BY <1>4, <2>1 DEF Grown
    <2>3. A \subseteq Gpu /\ DOMAIN a.table = 1..Len(a.table)
      BY <2>2, ElementsIn
    <2> HIDE DEF k, in, A
    <2> QED BY <2>1, <2>2, <2>3
  <1>6. Seated(a.m, s, T2[s], n2[s], c2[s])
    <2>1. \A i \in 1..k : ~(i * BlockSize <= 0)
      <3>1. 0 * BlockSize = 0
        BY EngineAssumption
      <3> QED BY <1>3, <3>1, Scaling
    <2>2. T2[s] = a.table /\ n2[s] = x /\ c2[s] = 0
      BY <1>1 DEF Filled
    <2> HIDE DEF k, A
    <2> QED BY <1>3, <1>5, <2>1, <2>2 DEF Seated
  <1>7. l \in [Blocks -> Nat] /\ A \subseteq Blocks
    BY <1>5, BlockFacts DEF Core
  <1>8. Core(a.m, T2, n2, c2, l)
    <2> DEFINE l1 == More(l, A)
    <2>1. (\A b \in Blocks \cap A : l1[b] >= 1) /\ Fewer(l1, A) = l
      <3>1. Fewer(l1, A) = More(l, A \ A) /\ A \ A = {} /\ More(l, {}) = l
        BY <1>7, FewerMore, MoreFewer
      <3> QED BY <1>7, <3>1, MoreFewer
    <2>2. ToSet(T2[s]) = A
      BY <1>1
    <2>3. Core(a.m, T, n, c, l1)
      BY <1>5
    <2> HIDE DEF l1, A
    <2>4. \A b \in ToSet(T2[s]) : l1[b] >= 1
      BY ONLY <1>7, <2>1, <2>2
    <2>5. Core(a.m, T2, n2, c2, Fewer(l1, ToSet(T2[s])))
      BY <1>6, <2>3, <2>4, CoreAdopt DEF Filled
    <2> QED BY <2>1, <2>2, <2>5
  <1>9. Core(in.m, T2, n2, c2, More(l, in.held)) /\ in.held = {}
    <2> HIDE DEF in
    <2>1. /\ in.ok => in.held = {}
          /\ Core(in.m, T2, n2, c2, More(l, in.held))
      BY ONLY Setting, <1>2, <1>8, SwapInCore DEF in
    <2> QED BY <1>5, <2>1
  <1> HIDE DEF in
  <1>10. More(l, {}) = l
    BY <1>7, MoreFewer
  <1> QED BY ONLY <1>1, <1>9, <1>10
-----------------------------------------------------------------------------
(***************************************************************************)
(* Time stamps, retained entries and the sequences' records.               *)
(***************************************************************************)
\* The values of a function on a finite set.
LEMMA FiniteImage ==
    ASSUME NEW D, IsFiniteSet(D), NEW f
    PROVE  IsFiniteSet({f[x] : x \in D})
  <1> DEFINE T == {f[x] : x \in D}
             g == [x \in D |-> f[x]]
  <1>1. g \in Surjection(D, T)
    BY DEF Surjection
  <1> HIDE DEF g, T
  <1>2. IsFiniteSet(T)
    BY <1>1, FS_Surjection
  <1> QED BY <1>2 DEF T

\* There is a latest time stamp, and ranks are numbers.
LEMMA StampFacts ==
    ASSUME Setting, mem \in Mems, seq \in [Seqs -> SeqRecs]
    PROVE  Now \in Int /\ \A t : Rank(t) \in Nat /\ (t \in Int => Ranked(t) \in Int)
  <1> DEFINE B == {mem.last[b] : b \in Blocks}
             Q == {seq[s].last : s \in Seqs}
             R == {x \in Stamps \X Stamps : x[1] >= x[2]}
  <1>1. \A b \in Blocks : mem.last[b] \in Int
    BY DEF Mems
  <1>2. \A s \in Seqs : seq[s].last \in Int
    BY DEF SeqRecs
  <1>3. IsFiniteSet(B) /\ IsFiniteSet(Q)
    <2> DEFINE f == [s \in Seqs |-> seq[s].last]
    <2>1. IsFiniteSet(B)
      BY BlockFacts, FiniteImage
    <2>2. {f[s] : s \in Seqs} = Q
      OBVIOUS
    <2>3. IsFiniteSet(Seqs)
      BY EngineAssumption
    <2> HIDE DEF f
    <2>4. IsFiniteSet({f[s] : s \in Seqs})
      BY ONLY <2>3, FiniteImage
    <2> QED BY <2>1, <2>2, <2>4
  <1>4. Stamps = B \cup Q /\ B \subseteq Int /\ Q \subseteq Int /\ B # {}
    BY <1>1, <1>2, BlockFacts DEF Stamps
  <1> HIDE DEF B, Q
  <1>5. IsFiniteSet(Stamps) /\ Stamps # {} /\ Stamps \subseteq Int
    BY <1>3, <1>4, FS_Union
  <1>6. \E x \in Stamps : \A y \in Stamps : x >= y
    <2>1. \A x, y \in Stamps : <<x, y>> \in R <=> x >= y
      BY DEF R
    <2> HIDE DEF R
    <2>2. /\ \A x, y \in Stamps : <<x, y>> \in R \/ <<y, x>> \in R
          /\ \A x, y, z \in Stamps : <<x, y>> \in R /\ <<y, z>> \in R => <<x, z>> \in R
      BY <1>5, <2>1
    <2>3. \E x \in Stamps : \A y \in Stamps : <<x, y>> \in R
      BY <1>5, <2>2, FiniteLeast
    <2> QED BY <2>1, <2>3
  <1>7. Max(Stamps) \in Stamps
    BY <1>6, Zenon DEF Max
  <1>8. Now \in Int
    <2> DEFINE x == Max(Stamps)
    <2>1. x \in Int
      BY <1>5, <1>7
    <2> HIDE DEF x
    <2>2. 1 + x \in Int
      BY <2>1
    <2> QED BY <2>2 DEF Now, x
  <1>9. ASSUME NEW t PROVE Rank(t) \in Nat
    <2> DEFINE U == Stamps \cup {Now}
               V == {u \in U : 0 <= u /\ u < t}
    <2>1. IsFiniteSet(U)
      BY <1>5, FS_AddElement
    <2>2. V \in SUBSET U
      OBVIOUS
    <2> HIDE DEF U
    <2>3. IsFiniteSet(V)
      BY <2>1, <2>2, FS_Subset
    <2>4. Cardinality(V) \in Nat
      BY <2>3, FS_CardinalityType
    <2> QED BY <2>4 DEF Rank, V, U
  <1>10. \A t \in Int : Ranked(t) \in Int
    BY <1>9 DEF Ranked, NoStamp
  <1> QED BY <1>8, <1>9, <1>10

\* A sequence without blocks.
LEMMA UnownedFacts ==
    ASSUME NEW q \in SeqRecs
    PROVE  /\ Unowned(q) \in SeqRecs /\ Unowned(q).table = <<>>
           /\ Unowned(q).status = q.status /\ Unowned(q).len = q.len
           /\ Unowned(q).computed = q.computed
           /\ Unowned(q).slots = 0
  <1>1. <<>> \in Seq(Blocks) /\ 0 \in Nat /\ NoStamp \in Int /\ NoMemo \in Int
    BY DEF NoStamp, NoMemo
  <1> QED BY <1>1 DEF Unowned, SeqRecs

\* Dropping key k's entry takes the blocks of its owner, and only of it.
LEMMA DropOwnerFacts ==
    ASSUME NEW sq \in [Seqs -> SeqRecs], NEW k
    PROVE  /\ DropOwner(sq, k) \in [Seqs -> SeqRecs]
           /\ \A x \in Seqs :
                 /\ DropOwner(sq, k)[x].status = sq[x].status
                 /\ DropOwner(sq, k)[x].len = sq[x].len
                 /\ DropOwner(sq, k)[x].computed = sq[x].computed
                 /\ x # entries[k] => DropOwner(sq, k)[x] = sq[x]
                 /\ x = entries[k] => /\ DropOwner(sq, k)[x].table = <<>>
                                      /\ DropOwner(sq, k)[x].slots = 0
  <1>1. None \notin Seqs
    BY EngineAssumption
  <1>2. CASE entries[k] = None
    BY <1>1, <1>2 DEF DropOwner
  <1>3. CASE entries[k] # None
    <2> DEFINE e == entries[k]
    <2>1. DropOwner(sq, k) = [sq EXCEPT ![e] = Unowned(sq[e])]
      BY <1>3 DEF DropOwner
    <2> HIDE DEF e
    <2>2. CASE e \in Seqs
      <3> DEFINE u == Unowned(sq[e])
      <3>1. /\ u \in SeqRecs /\ u.table = <<>> /\ u.status = sq[e].status
            /\ u.len = sq[e].len /\ u.computed = sq[e].computed /\ u.slots = 0
        BY <2>2, UnownedFacts
      <3> HIDE DEF u
      <3>2. DropOwner(sq, k) = [sq EXCEPT ![e] = u]
        BY <2>1 DEF u
      <3>3. DropOwner(sq, k) \in [Seqs -> SeqRecs]
        BY <2>2, <3>1, <3>2
      <3>4. DropOwner(sq, k)[e] = u /\ \A x \in Seqs \ {e} : DropOwner(sq, k)[x] = sq[x]
        BY <2>2, <3>2
      <3> QED BY ONLY <2>2, <3>1, <3>3, <3>4 DEF e
    <2>3. CASE e \notin Seqs
      <3>1. DropOwner(sq, k) = sq
        BY <2>1, <2>3
      <3> QED BY <2>3, <3>1 DEF e
    <2> QED BY <2>2, <2>3
  <1> QED BY <1>2, <1>3

\* The sequences' records as tables and slots.
LEMMA Columns ==
    ASSUME NEW sq \in [Seqs -> SeqRecs]
    PROVE  /\ Tables(sq) \in [Seqs -> Seq(Blocks)] /\ Slots(sq) \in [Seqs -> Nat]
           /\ \A x \in Seqs : Tables(sq)[x] = sq[x].table /\ Slots(sq)[x] = sq[x].slots
           /\ \A x \in Seqs : sq[x] \in SeqRecs /\ sq[x].table \in Seq(Blocks)
                              /\ sq[x].last \in Int /\ sq[x].len \in Nat /\ sq[x].slots \in Nat
                              /\ sq[x].computed \in Nat /\ sq[x].status \in Statuses
  BY DEF Tables, Slots, SeqRecs

\* Freeing the blocks of s.
LEMMA CoreFreeSeq ==
    ASSUME Setting, seq \in [Seqs -> SeqRecs], NEW m, NEW T, NEW n, NEW c, NEW l,
           Core(m, T, n, c, l), NEW s \in Seqs, T[s] = seq[s].table,
           NEW T2, NEW n2, NEW c2, Emptied(T, n, c, T2, n2, c2, s)
    PROVE  Core(FreeSeq(m, s), T2, n2, c2, l)
  <1>1. seq[s].last \in Int
    BY Columns
  <1>2. FreeSeq(m, s) = FreeTable(m, T[s], seq[s].last)
    BY DEF FreeSeq
  <1> QED BY <1>1, <1>2, CoreFreeTable

\* Dropping key k's entry.
LEMMA DropEntryCore ==
    ASSUME Setting, seq \in [Seqs -> SeqRecs], NEW sq \in [Seqs -> SeqRecs], NEW k,
           NEW m, NEW c, NEW l, Core(m, Tables(sq), Slots(sq), c, l),
           entries[k] \in Seqs \cup {None},
           entries[k] # None => sq[entries[k]].table = seq[entries[k]].table
    PROVE  Core(DropEntry(m, k), Tables(DropOwner(sq, k)), Slots(DropOwner(sq, k)), c, l)
  <1>1. CASE entries[k] = None
    BY <1>1 DEF DropEntry, DropOwner
  <1>2. CASE entries[k] # None
    <2> DEFINE e == entries[k]
               r == DropOwner(sq, k)
    <2>1. e \in Seqs
      BY <1>2
    <2>2. r \in [Seqs -> SeqRecs] /\ r[e].table = <<>> /\ \A x \in Seqs \ {e} : r[x] = sq[x]
      BY <2>1, DropOwnerFacts
    <2> HIDE DEF r
    <2>3. Emptied(Tables(sq), Slots(sq), c, Tables(r), Slots(r), c, e)
      <3>1. Tables(r) \in [Seqs -> Seq(Blocks)] /\ Tables(r)[e] = <<>>
        BY <2>1, <2>2, Columns
      <3>2. Alike(Tables(sq), Tables(r), e) /\ Alike(Slots(sq), Slots(r), e) /\ Alike(c, c, e)
        <4> HIDE DEF e
        <4> QED BY <2>2 DEF Alike, Tables, Slots
      <3> HIDE DEF e
      <3> QED BY <3>1, <3>2 DEF Emptied
    <2>4. Tables(sq)[e] = seq[e].table
      BY <1>2, <2>1, Columns
    <2>5. DropEntry(m, k) = FreeSeq(m, e)
      BY <1>2 DEF DropEntry
    <2> HIDE DEF e
    <2>6. Core(FreeSeq(m, e), Tables(r), Slots(r), c, l)
      BY <2>1, <2>3, <2>4, CoreFreeSeq
    <2> QED BY <2>5, <2>6 DEF r
  <1> QED BY <1>1, <1>2
-----------------------------------------------------------------------------
(***************************************************************************)
(* Swapping out.                                                           *)
(***************************************************************************)
\* Freeing a table that nobody owns.
LEMMA CoreFreeHeld ==
    ASSUME Setting, NEW m, NEW T, NEW n, NEW c, NEW l \in [Blocks -> Nat], NEW t,
           Core(m, T, n, c, More(l, ToSet(t))), ToSet(t) \subseteq Blocks,
           NEW stamp \in Int
    PROVE  Core(FreeTable(m, t, stamp), T, n, c, l)
  <1> DEFINE S == ToSet(t)
             l1 == More(l, S)
             m1 == IF stamp = NoStamp THEN m ELSE Touch(m, S, stamp)
  <1>1. Core(m, T, n, c, l1)
    OBVIOUS
  <1>2. m \in Mems /\ \A b \in m.comp : m.ref[b] > 0
    BY DEF Core, Sound
  <1>3. Core(m1, T, n, c, l1)
    <2>1. Marks(m, Touch(m, S, stamp))
      BY <1>2, TouchMarks
    <2> HIDE DEF S, l1
    <2>2. Core(Touch(m, S, stamp), T, n, c, l1)
      BY <1>1, <2>1, CoreMark
    <2> QED BY <1>1, <2>2
  <1> HIDE DEF m1, S
  <1>4. Core(Release(m1, S), T, n, c, More(l, S \ S))
    <2>1. S \in SUBSET S /\ S \subseteq Blocks
      BY DEF S
    <2> QED BY <1>3, <2>1, CoreGiveBack
  <1>5. S \ S = {} /\ More(l, {}) = l
    BY MoreFewer
  <1>6. FreeTable(m, t, stamp) = Release(m1, S)
    BY ONLY DEF FreeTable, m1, S
  <1> QED BY <1>4, <1>5, <1>6

\* The copies of a table's computed full blocks on the CPU; the other blocks of
\* the table are the ones that lose their owner.
LEMMA SwapOutCore ==
    ASSUME Setting, seq \in [Seqs -> SeqRecs], NEW T, NEW n, NEW c, NEW l,
           Core(mem, T, n, c, l), NEW s \in Seqs, T[s] = seq[s].table,
           ToSet(T[s]) \subseteq Gpu,
           NEW T2, NEW n2, NEW c2, Emptied(T, n, c, T2, n2, c2, s),
           NEW w, w = SwapOutSeq(s)
    PROVE  /\ w.table \in Seq(Cpu) /\ IsInjective(w.table) /\ w.map \in Seq(Pairs)
           /\ w.orphans \subseteq ToSet(T[s])
           /\ Len(w.table) <= Len(Swappable(s))
           /\ \A i \in 1..Len(w.table) :
                 w.m.hash[w.table[i]] = mem.hash[Swappable(s)[i]]
           /\ Core(w.m, T2, n2, c2, More(More(l, w.orphans), ToSet(w.table)))
  <1> DEFINE src == Swappable(s)
             all == ToSet(T[s])
             D == ToSet(src)
             k == Len(src)
             m1 == Touch(mem, all, Now)
             m2 == Release(m1, D)
             gs == [i \in DOMAIN src |-> mem.hash[src[i]]]
             dst == Allocate(m2, Cpu, gs)
             l1 == More(l, all \ D)
  <1>1. /\ w.m = dst.m /\ w.table = dst.table /\ w.map = Zip(src, dst.table)
        /\ w.orphans = all \ D
    BY DEF SwapOutSeq
  <1>2. /\ mem \in Mems /\ Sound(mem) /\ l \in [Blocks -> Nat] /\ T[s] \in Seq(Blocks)
        /\ IsInjective(T[s]) /\ (\A b \in mem.comp : mem.ref[b] > 0) /\ Now \in Int
    <2>1. mem \in Mems
      BY DEF Core, Sound
    <2> QED BY <2>1, StampFacts DEF Core, Sound, Seated
  <1>3. /\ src \in Seq(Blocks) /\ IsInjective(src) /\ D \subseteq all
        /\ \A b \in D : b \in mem.comp /\ mem.hash[b] # NoHash
    <2> DEFINE C == {b \in mem.comp : mem.hash[b] # NoHash}
    <2>1. src = Kept(T[s], C)
      BY DEF Swappable
    <2>2. src \in Seq(Blocks) /\ D = all \cap C /\ IsInjective(src)
      <3> HIDE DEF C
      <3> QED BY <1>2, <2>1, KeptSet
    <2> QED BY <2>2
  <1>4. all \subseteq Blocks /\ D \subseteq Gpu
    BY <1>3, BlockFacts
  <1>5. k \in Nat /\ DOMAIN src = 1..k /\ \A i \in 1..k : src[i] \in D /\ src[i] \in Blocks
    <2> HIDE DEF src
    <2> QED BY <1>3, ElementsIn
  <1> HIDE DEF src, all, D
  <1>6. Core(m2, T2, n2, c2, l1)
    <2> DEFINE l0 == More(l, all)
    <2>1. Core(mem, T2, n2, c2, l0)
      BY CoreOrphan DEF Emptied, all
    <2> HIDE DEF l0
    <2>2. Marks(mem, m1)
      BY <1>2, TouchMarks
    <2> HIDE DEF m1
    <2>3. Core(m1, T2, n2, c2, l0)
      BY <2>1, <2>2, CoreMark
    <2>4. Core(m1, T2, n2, c2, More(l, all))
      BY <2>3 DEF l0
    <2>5. D \in SUBSET all
      BY <1>3
    <2> QED BY <1>2, <1>4, <2>4, <2>5, CoreGiveBack
  <1>7. HashList(gs, k) /\ Cpu \in Devices
    <2>1. DOMAIN gs = 1..k
      BY <1>5
    <2>2. \A i \in 1..k : gs[i] = mem.hash[src[i]] /\ gs[i] \in HashSet
      BY <1>2, <1>5 DEF Mems
    <2> HIDE DEF gs
    <2>3. \A i, j \in 1..k : gs[i] = gs[j] /\ gs[i] # NoHash => i = j
      <3> SUFFICES ASSUME NEW i \in 1..k, NEW j \in 1..k, gs[i] = gs[j], gs[i] # NoHash
                   PROVE  i = j
        OBVIOUS
      <3>1. src[i] \in Gpu /\ src[j] \in Gpu /\ Gpu \in Devices
        BY <1>4, <1>5, BlockFacts
      <3>2. src[i] = src[j]
        BY <1>2, <2>2, <3>1 DEF Sound
      <3> QED BY <1>3, <1>5, <3>2 DEF IsInjective
    <2> QED BY <2>1, <2>2, <2>3, BlockFacts DEF HashList
  <1>8. \A i \in 1..k : gs[i] = mem.hash[src[i]]
    BY <1>5
  <1> HIDE DEF l1, m2, gs, k
  <1>9. Grown(dst, Cpu, gs, k, T2, n2, c2, l1)
    BY ONLY Setting, <1>5, <1>6, <1>7, AllocateFacts
  <1> HIDE DEF dst
  <1>10. /\ dst.table \in Seq(Cpu) /\ IsInjective(dst.table) /\ Len(dst.table) <= k
         /\ Core(dst.m, T2, n2, c2, More(l1, ToSet(dst.table)))
         /\ \A i \in 1..Len(dst.table) : dst.m.hash[dst.table[i]] = gs[i]
         /\ dst.table \in Seq(Blocks) /\ Len(dst.table) \in Nat
    BY ONLY <1>9 DEF Grown, Accs
  <1>11. Zip(src, dst.table) \in Seq(Pairs)
    BY ONLY <1>3, <1>10, ZipPairs
  <1>12. \A i \in 1..Len(dst.table) : i \in 1..k
    BY ONLY <1>5, <1>10
  <1> QED BY ONLY <1>1, <1>3, <1>8, <1>10, <1>11, <1>12 DEF l1, k, src, all

\* A finished sequence's table is computed as far as it is filled, so what is
\* copied is the first part of it.
LEMMA SwapOutSeats ==
    ASSUME Setting, seq \in [Seqs -> SeqRecs], NEW T, NEW n, NEW c, NEW l,
           Core(mem, T, n, c, l), NEW s \in Seqs, T[s] = seq[s].table,
           ToSet(T[s]) \subseteq Gpu, Fitted(seq[s]),
           n[s] = seq[s].slots, c[s] = seq[s].slots,
           NEW w, w = SwapOutSeq(s),
           NEW T2 \in [Seqs -> Seq(Blocks)], Alike(T, T2, s), T2[s] = w.table
    PROVE  Core(w.m, T2, n, c, More(l, w.orphans))
  <1> DEFINE T0 == [T EXCEPT ![s] = <<>>]
             x == seq[s].slots
             k == x \div BlockSize
             t == T[s]
             src == Swappable(s)
             l1 == More(l, w.orphans)
  <1>1. /\ T \in [Seqs -> Seq(Blocks)] /\ l \in [Blocks -> Nat] /\ x \in Nat
        /\ Seated(mem, s, t, x, x) /\ t \in Seq(Blocks)
        /\ x <= Len(t) * BlockSize
    BY Columns DEF Core, Fitted
  <1>2. Emptied(T, n, c, T0, n, c, s) /\ Alike(T0, T2, s) /\ T0[s] = <<>>
    BY <1>1 DEF Emptied, Alike
  <1>3. /\ w.table \in Seq(Cpu) /\ IsInjective(w.table)
        /\ Len(w.table) <= Len(src)
        /\ \A i \in 1..Len(w.table) : w.m.hash[w.table[i]] = mem.hash[src[i]]
        /\ w.orphans \subseteq ToSet(t)
        /\ Core(w.m, T0, n, c, More(l1, ToSet(w.table)))
    <2> HIDE DEF T0
    <2>1. Emptied(T, n, c, T0, n, c, s)
      BY <1>2
    <2> QED BY <2>1, SwapOutCore
  <1> HIDE DEF T0
  <1>4. k \in 0..Len(t) /\ \A i \in 1..Len(t) : i * BlockSize <= x <=> i <= k
    <2>1. k \in Nat /\ \A i \in Int : i * BlockSize <= x <=> i <= k
      BY <1>1, Blocking
    <2>2. Len(t) \in Nat /\ x <= Len(t) * BlockSize /\ k * BlockSize <= x
      <3>1. k * BlockSize <= x
        BY <1>1, Blocking
      <3> HIDE DEF t, x
      <3> QED BY <1>1, <3>1
    <2> HIDE DEF k, t, x
    <2>3. k <= Len(t)
      <3>1. k * BlockSize \in Int /\ Len(t) * BlockSize \in Int
        BY <2>1, <2>2, Scaling
      <3>2. k * BlockSize <= Len(t) * BlockSize
        BY <1>1, <2>2, <3>1
      <3> QED BY <2>1, <2>2, <3>2, Scaling
    <2> QED BY <2>1, <2>2, <2>3
  <1> HIDE DEF k, t
  <1>5. /\ \A i \in 1..Len(t) : t[i] \in Gpu /\ mem.hash[t[i]] = Content(s, x, i)
        /\ \A i \in 1..Len(t) : i <= k => t[i] \in mem.comp
    <2>1. DOMAIN t = 1..Len(t) /\ \A i \in 1..Len(t) : t[i] \in Gpu
      BY <1>1, ElementsIn DEF t
    <2> QED BY <1>1, <1>4, <2>1 DEF Seated
  <1>6. \A i \in 1..Len(t) : Content(s, x, i) # NoHash <=> i <= k
    <2>1. \A i \in 1..Len(t) : i \in Nat \ {0}
      BY <1>1
    <2> QED BY ONLY Setting, <1>4, <2>1, HashFacts DEF Content
  <1>7. Len(src) = k /\ \A i \in 1..k : src[i] = t[i]
    <2> DEFINE C == {b \in mem.comp : mem.hash[b] # NoHash}
    <2>1. src = Kept(t, C)
      BY DEF Swappable, t
    <2>2. \A i \in 1..Len(t) : t[i] \in C <=> i <= k
      BY ONLY <1>5, <1>6
    <2> HIDE DEF C, t, src
    <2> QED BY ONLY <1>1, <1>4, <2>1, <2>2, KeptPrefix
  <1> HIDE DEF src
  <1>8. Seated(w.m, s, T2[s], n[s], c[s])
    <2>1. /\ Len(w.table) \in Nat /\ DOMAIN w.table = 1..Len(w.table)
          /\ \A i \in 1..Len(w.table) : w.table[i] \in Cpu
      BY <1>3
    <2>2. ASSUME NEW i \in 1..Len(w.table)
          PROVE  w.m.hash[w.table[i]] = Content(s, x, i) /\ w.table[i] \notin Gpu
      <3>1. i \in 1..k /\ i \in 1..Len(t)
        <4>1. Len(t) \in Nat
          BY ONLY <1>1
        <4> QED BY <1>3, <1>4, <1>7, <2>1, <4>1
      <3>2. w.m.hash[w.table[i]] = mem.hash[t[i]]
        BY ONLY <1>3, <1>7, <3>1
      <3>3. w.table[i] \notin Gpu
        BY <2>1, BlockFacts
      <3> QED BY ONLY <1>5, <3>1, <3>2, <3>3
    <2> QED BY <1>3, <2>1, <2>2 DEF Seated
  <1>9. l1 \in [Blocks -> Nat] /\ ToSet(w.table) \subseteq Blocks
    <2>1. ToSet(w.table) \subseteq Cpu /\ Cpu \subseteq Blocks
      BY <1>3, ElementsIn, BlockFacts
    <2>2. More(l, w.orphans) \in [Blocks -> Nat]
      <3>1. l \in [Blocks -> Nat]
        BY <1>1
      <3> QED BY ONLY <3>1, MoreFewer
    <2> QED BY <2>1, <2>2
  <1> HIDE DEF l1
  <1> DEFINE A == ToSet(w.table)
             l2 == More(l1, A)
  <1>10. (\A b \in A : l2[b] >= 1) /\ Fewer(l2, A) = l1 /\ A = ToSet(T2[s])
    <2>0. A \subseteq Blocks /\ A = ToSet(T2[s])
      BY <1>9
    <2> HIDE DEF A
    <2>1. \A b \in Blocks \cap A : l2[b] >= 1
      BY <1>9, MoreFewer
    <2>2. Fewer(l2, A) = More(l1, A \ A) /\ A \ A = {} /\ More(l1, {}) = l1
      BY <1>9, FewerMore, MoreFewer
    <2> QED BY <2>0, <2>1, <2>2
  <1>11. Core(w.m, T0, n, c, l2)
    BY <1>3
  <1> HIDE DEF l2, A
  <1>12. Alike(n, n, s) /\ Alike(c, c, s)
    BY DEF Alike
  <1>13. Core(w.m, T2, n, c, Fewer(l2, ToSet(T2[s])))
    <2>1. \A b \in ToSet(T2[s]) : l2[b] >= 1
      BY <1>10
    <2> QED BY <1>2, <1>8, <1>11, <1>12, <2>1, CoreAdopt
  <1> QED BY <1>10, <1>13 DEF l1
-----------------------------------------------------------------------------
(***************************************************************************)
(* append_slots.                                                           *)
(***************************************************************************)
\* Whole blocks leave no rest.
LEMMA Modulus ==
    ASSUME NEW n \in Nat
    PROVE  /\ n % BlockSize = 0 <=> (n \div BlockSize) * BlockSize = n
           /\ \A i \in Int : i * BlockSize = n => n % BlockSize = 0
  <1> DEFINE b == BlockSize
             q == n \div b
             r == n % b
  <1>1. b \in Nat \ {0}
    BY EngineAssumption
  <1>2. q \in Nat /\ r \in Nat /\ n = q * b + r
    <2> HIDE DEF b
    <2> QED BY <1>1
  <1>3. r = 0 <=> q * b = n
    <2>1. q * b \in Int
      <3> HIDE DEF b, q
      <3> QED BY <1>1, <1>2
    <2> HIDE DEF q, r, b
    <2> QED BY <1>2, <2>1
  <1>4. ASSUME NEW i \in Int, i * b = n PROVE q * b = n
    <2>1. i <= q /\ q * b <= i * b
      BY <1>4, Blocking
    <2>2. q <= i
      BY <1>2, <2>1, Scaling
    <2>3. q = i
      <3> HIDE DEF q
      <3> QED BY <1>2, <2>1, <2>2
    <2> QED BY <1>4, <2>3
  <1> QED BY <1>3, <1>4

\* k blocks are what y tokens need.
Covers(k, y) == (k - 1) * BlockSize < y /\ y <= k * BlockSize

\* All of them fewer again.
LEMMA AllFewer ==
    ASSUME NEW l \in [Blocks -> Nat], NEW A, A \subseteq Blocks
    PROVE  Fewer(More(l, A), A) = l /\ \A b \in A : More(l, A)[b] >= 1
  <1>1. A \in SUBSET A /\ A \ A = {}
    OBVIOUS
  <1>2. Fewer(More(l, A), A) = More(l, A \ A)
    BY <1>1, FewerMore
  <1>3. More(l, {}) = l /\ \A b \in Blocks \cap A : More(l, A)[b] >= 1
    BY ONLY MoreFewer
  <1> QED BY <1>1, <1>2, <1>3

\* One reference and others.
LEMMA MoreOne ==
    ASSUME NEW l \in [Blocks -> Nat], NEW A, NEW b, b \notin A
    PROVE  More(More(l, {b}), A) = More(l, A \cup {b})
  <1> DEFINE D == {b}
  <1>1. D \cap A = {}
    OBVIOUS
  <1> HIDE DEF D
  <1>2. More(More(l, D), A) = More(l, D \cup A)
    BY <1>1, MoreMore
  <1>3. D \cup A = A \cup D
    OBVIOUS
  <1> QED BY <1>2, <1>3 DEF D

\* N blocks have room for y tokens and no block is left that they fill.
Beyond(N, y) == ~((N + 1) * BlockSize <= y)
Appended(q, t, b) == q = Append(t, b)

\* A free block joins a table that is full.
LEMMA CoreExtend ==
    ASSUME Setting, NEW m, NEW T, NEW n, NEW c, NEW l, Core(m, T, n, c, l),
           NEW s \in Seqs, NEW t, t \in Seq(Gpu), T[s] = t, NEW N, N = Len(t), NEW b,
           NEW m2, Gains(m, m2, Gpu, b, NoHash),
           Beyond(N, n[s]), Beyond(N, c[s]),
           NEW T2, T2 \in [Seqs -> Seq(Blocks)], Alike(T, T2, s), Appended(T2[s], t, b)
    PROVE  T2[s] \in Seq(Gpu) /\ Len(T2[s]) = N + 1 /\ Core(m2, T2, n, c, l)
  <1> DEFINE l1 == More(l, {b})
             T0 == [T EXCEPT ![s] = <<>>]
             t2 == T2[s]
             S == ToSet(t2)
             l2 == More(l, S)
  <1>1. N \in Nat /\ DOMAIN t = 1..N /\ ToSet(t) \subseteq Gpu
    BY ElementsIn
  <1>2. b \in Gpu /\ b \in Blocks /\ m.ref[b] = 0 /\ Gpu \in Devices
    BY BlockFacts DEF Gains
  <1>3. Core(m2, T, n, c, l1)
    BY <1>2, CoreGrab
  <1>4. T \in [Seqs -> Seq(Blocks)] /\ l \in [Blocks -> Nat] /\ Seated(m, s, t, n[s], c[s])
    BY DEF Core
  <1>5. b \notin ToSet(t)
    <2>1. l[b] <= m.ref[b] /\ l[b] \in Nat
      BY <1>2, CoreRefs
    <2>2. \A d \in ToSet(T[s]) : m.ref[d] > l[d]
      BY CoreRefs
    <2> QED BY <1>2, <2>1, <2>2
  <1>6. /\ t2 \in Seq(Gpu) /\ IsInjective(t2) /\ Len(t2) = N + 1 /\ DOMAIN t2 = 1..(N + 1)
        /\ S = ToSet(t) \cup {b} /\ t2[N + 1] = b /\ \A i \in 1..N : t2[i] = t[i]
    <2>1. IsInjective(t)
      BY <1>4 DEF Seated
    <2> QED BY <1>2, <1>5, <2>1, AppendSet DEF Appended
  <1> HIDE DEF t2, S
  <1>7. Core(m2, T0, n, c, More(l1, ToSet(t)))
    <2>1. /\ T0 \in [Seqs -> Seq(Blocks)] /\ T0[s] = <<>> /\ Alike(T, T0, s)
          /\ Alike(n, n, s) /\ Alike(c, c, s)
      BY <1>4 DEF Alike
    <2> HIDE DEF T0, l1
    <2> QED BY <1>3, <2>1, CoreOrphan
  <1>8. S \subseteq Blocks /\ More(l1, ToSet(t)) = l2
    <2>2. More(l1, ToSet(t)) = More(l, ToSet(t) \cup {b})
      <3>1. l \in [Blocks -> Nat]
        BY <1>4
      <3>2. ASSUME NEW A, b \notin A PROVE More(l1, A) = More(l, A \cup {b})
        <4>1. b \notin A
          BY <3>2
        <4> QED BY ONLY <3>1, <4>1, MoreOne
      <3> QED BY <1>5, <3>2
    <2> QED BY ONLY Setting, <1>1, <1>2, <1>6, <2>2, BlockFacts
  <1>9. Seated(m2, s, t2, n[s], c[s])
    <2>1. ASSUME NEW i \in 1..N
          PROVE  /\ m2.hash[t2[i]] = Content(s, n[s], i)
                 /\ i * BlockSize <= c[s] => t2[i] \in m2.comp
      <3>1. t[i] \in ToSet(t)
        BY <1>1, ElementsIn
      <3>2. t[i] \in Gpu /\ t[i] \in Blocks /\ t[i] # b
        BY ONLY Setting, <1>1, <1>5, <3>1, BlockFacts
      <3>3. m.hash[t[i]] = Content(s, n[s], i)
            /\ (i * BlockSize <= c[s] => t[i] \in m.comp)
        BY <1>1, <1>4, <3>2 DEF Seated
      <3> QED BY <1>6, <3>2, <3>3 DEF Gains
    <2>2. m2.hash[b] = NoHash
      BY DEF Gains
    <2>3. \A i \in 1..(N + 1) : i = N + 1 \/ i \in 1..N
      BY ONLY <1>1
    <2>4. ASSUME NEW i \in 1..(N + 1)
          PROVE  /\ m2.hash[t2[i]] = Content(s, n[s], i)
                 /\ i * BlockSize <= c[s] => t2[i] \in m2.comp
      <3>1. CASE i = N + 1
        BY <1>6, <2>2, <3>1 DEF Content, Beyond
      <3>2. CASE i \in 1..N
        BY <2>1, <3>2
      <3> QED BY <2>3, <3>1, <3>2
    <2> QED BY ONLY <1>6, <2>4 DEF Seated
  <1>10. Core(m2, T0, n, c, l2)
    BY <1>7, <1>8
  <1>11. /\ (\A d \in S : l2[d] >= 1) /\ Fewer(l2, S) = l
    BY <1>4, <1>8, AllFewer
  <1>12. T0[s] = <<>> /\ Alike(T0, T2, s) /\ Alike(n, n, s) /\ Alike(c, c, s)
    BY <1>4 DEF Alike
  <1> HIDE DEF T0, l2
  <1>13. Core(m2, T2, n, c, Fewer(l2, ToSet(T2[s])))
    <2>1. \A d \in ToSet(T2[s]) : l2[d] >= 1
      BY <1>11 DEF S, t2
    <2>2. Seated(m2, s, T2[s], n[s], c[s])
      BY <1>9 DEF t2
    <2> QED BY <1>10, <1>12, <2>1, <2>2, CoreAdopt
  <1> QED BY <1>6, <1>11, <1>13 DEF S, t2

\* When the next token needs a block, one is free.
LEMMA RoomForOne ==
    ASSUME Setting, mem \in Mems, NEW s, NEW x \in Nat, NEW y \in Nat,
           seq[s].slots = x, seq[s].len = y, y = x + 1, x % BlockSize = 0, CanAppend(s)
    PROVE  FreeIn(mem, Gpu) # {}
  <1> DEFINE B == BlockSize
  <1>1. B \in Nat \ {0}
    BY EngineAssumption
  <1>2. (B - 1) \div B = 0
    <2> HIDE DEF B
    <2>1. B - 1 \in 0..(B - 1)
      BY <1>1
    <2>2. \A d \in 0..(B - 1) : d \div B = 0
      BY <1>1
    <2> QED BY <2>1, <2>2
  <1>3. Touched(s) = 1 - ((B - (x % B) - (y - x)) \div B)
    BY DEF Touched
  <1>4. B - (x % B) - (y - x) = B - 1
    <2>1. x % B = 0
      OBVIOUS
    <2> DEFINE r == x % B
    <2> HIDE DEF B, r
    <2>2. B - r - (y - x) = B - 1
      BY <1>1, <2>1 DEF r
    <2> QED BY <2>2 DEF r
  <1>5. Touched(s) = 1
    <2> DEFINE e == B - (x % B) - (y - x)
               r == (B - 1) \div B
    <2>1. Touched(s) = 1 - (e \div B) /\ e = B - 1 /\ r = 0
      BY <1>2, <1>3, <1>4
    <2> HIDE DEF e, B
    <2>2. Touched(s) = 1 - r
      BY <2>1
    <2> HIDE DEF r
    <2> QED BY <2>1, <2>2
  <1>6. 1 <= Cardinality(FreeIn(mem, Gpu))
    BY <1>5 DEF CanAppend
  <1>7. Cardinality({}) = 0
    BY FS_EmptySet
  <1> QED BY <1>6, <1>7

\* A table that has room for all of s's tokens, or gets a block for them.
Room(s) ==
    LET a0 == Building(mem, Gpu, seq[s].table)
    IN  IF seq[s].len > Len(seq[s].table) * BlockSize
        THEN NewBlock(a0, NoHash) ELSE a0

\* s has the table t, x slots of y tokens are filled, and no more are computed.
Appending(T, n, c, s, t, x, y) ==
    /\ t \in Seq(Gpu) /\ T[s] = t /\ seq[s].table = t
    /\ x \in Nat /\ seq[s].slots = x /\ n[s] = x
    /\ y \in Nat /\ seq[s].len = y /\ x <= y /\ y <= x + 1
    /\ Covers(Len(t), x) /\ c[s] \in Nat /\ c[s] <= x

\* append_slots finds or makes room for all the tokens, and the block it makes
\* holds no content yet.
LEMMA AppendRoom ==
    ASSUME Setting, NEW T, NEW n, NEW c, NEW l, Core(mem, T, n, c, l), NEW s \in Seqs,
           NEW t, NEW x, NEW y, Appending(T, n, c, s, t, x, y), CanAppend(s),
           NEW a, a = Room(s),
           NEW T2, T2 \in [Seqs -> Seq(Blocks)], Alike(T, T2, s), T2[s] = a.table
    PROVE  /\ a \in Accs /\ a.dev = Gpu /\ a.ok /\ a.table \in Seq(Gpu)
           /\ Covers(Len(a.table), y)
           /\ Core(a.m, T2, n, c, l)
  <1> DEFINE a0 == Building(mem, Gpu, t)
             N == Len(t)
             B == BlockSize
  <1>1. /\ t \in Seq(Gpu) /\ N \in Nat /\ x \in Nat /\ y \in Nat /\ B \in Nat \ {0}
        /\ N * B \in Int /\ (N + 1) * B = N * B + B /\ (N - 1) * B = N * B - B
    <2>1. t \in Seq(Gpu) /\ N \in Nat /\ x \in Nat /\ y \in Nat
      BY DEF Appending
    <2> HIDE DEF N
    <2> QED BY <2>1, Scaling, EngineAssumption
  <1>2. /\ (N - 1) * B < x /\ x <= N * B /\ x <= y /\ y <= x + 1 /\ c[s] \in Nat /\ c[s] <= x
        /\ T[s] = t /\ n[s] = x /\ seq[s].slots = x /\ seq[s].len = y
    BY DEF Appending, Covers
  <1>3. a0 \in Accs /\ a0.m = mem /\ a0.dev = Gpu /\ a0.ok /\ a0.table = t /\ Sound(mem)
    <2>1. mem \in Mems /\ Sound(mem)
      BY DEF Core, Sound
    <2>2. t \in Seq(Blocks)
      <3>1. Gpu \subseteq Blocks
        BY BlockFacts
      <3> QED BY <1>1, <3>1
    <2> QED BY <2>1, <2>2, BlockFacts DEF Building, Accs
  <1>4. a = IF y > N * B THEN NewBlock(a0, NoHash) ELSE a0
    BY DEF Room, Appending
  <1> HIDE DEF a0, N, B
  <1>5. CASE ~(y > N * B)
    <2>1. a = a0
      BY <1>4, <1>5
    <2>2. (N - 1) * B < y /\ y <= N * B
      <3>1. (N - 1) * B \in Int
        BY <1>1
      <3> QED BY <1>1, <1>2, <1>5, <3>1
    <2>3. T2 = T
      <3>1. T \in [Seqs -> Seq(Blocks)]
        BY DEF Core
      <3>2. \A z \in Seqs : T2[z] = T[z]
        BY <1>2, <1>3, <2>1 DEF Alike
      <3> QED BY <3>1, <3>2
    <2> QED BY <1>1, <1>3, <2>1, <2>2, <2>3 DEF Covers, N, B
  <1>6. CASE y > N * B
    <2>1. x = N * B /\ y = x + 1
      BY ONLY <1>1, <1>2, <1>6
    <2>2. FreeIn(mem, Gpu) # {}
      <3>1. x % B = 0
        BY ONLY <1>1, <2>1, Modulus DEF B
      <3>2. mem \in Mems
        BY <1>3 DEF Sound
      <3> QED BY <1>1, <1>2, <2>1, <3>1, <3>2, RoomForOne DEF B
    <2>3. Joins(a0, a, NoHash)
      BY ONLY Setting, <1>3, <1>4, <1>6, <2>2, HashFacts, NewBlockFacts
    <2>4. PICK b \in Gpu : Gains(mem, a.m, Gpu, b, NoHash) /\ a.table = Append(t, b)
      BY <1>3, <2>3 DEF Joins
    <2>5. a \in Accs /\ a.dev = Gpu /\ a.ok
      BY ONLY <1>3, <2>3 DEF Joins
    <2>6. ~((N + 1) * B <= n[s]) /\ ~((N + 1) * B <= c[s])
      BY ONLY <1>1, <1>2, <2>1
    <2>7. T2[s] \in Seq(Gpu) /\ Len(T2[s]) = N + 1 /\ Core(a.m, T2, n, c, l)
      <3>1. Appended(T2[s], t, b) /\ t \in Seq(Gpu) /\ T[s] = t /\ N = Len(t)
        BY <1>1, <1>2, <2>4 DEF N, Appended
      <3>2. Beyond(N, n[s]) /\ Beyond(N, c[s])
        BY <2>6 DEF B, Beyond
      <3> DEFINE m2 == a.m
      <3>3. Gains(mem, m2, Gpu, b, NoHash)
        BY <2>4
      <3> HIDE DEF m2
      <3>4. T2[s] \in Seq(Gpu) /\ Len(T2[s]) = N + 1 /\ Core(m2, T2, n, c, l)
        BY <3>1, <3>2, <3>3, CoreExtend
      <3> QED BY <3>4 DEF m2
    <2>8. ((N + 1) - 1) * B < y /\ y <= (N + 1) * B
      <3>1. (N + 1) - 1 = N
        BY <1>1
      <3> QED BY ONLY <1>1, <1>6, <2>1, <3>1
    <2> QED BY <2>5, <2>7, <2>8 DEF Covers, B
  <1> QED BY <1>5, <1>6

\* A token that fills no block changes no content.
LEMMA CoreLonger ==
    ASSUME Setting, NEW m, NEW T, NEW n, NEW c, NEW l, Core(m, T, n, c, l), NEW s \in Seqs,
           NEW x \in Nat, NEW y \in Nat, n[s] = x, y = x + 1, y % BlockSize # 0,
           NEW n2, Alike(n, n2, s), n2[s] = y
    PROVE  Core(m, T, n2, c, l)
  <1>1. \A i \in Int : i * BlockSize <= x <=> i * BlockSize <= y
    <2> SUFFICES ASSUME NEW i \in Int PROVE i * BlockSize <= x <=> i * BlockSize <= y
      OBVIOUS
    <2>1. i * BlockSize \in Int /\ i * BlockSize # y
      BY Scaling, Modulus
    <2> DEFINE p == i * BlockSize
    <2> HIDE DEF p
    <2>2. p <= x <=> p <= y
      BY <2>1 DEF p
    <2> QED BY <2>2 DEF p
  <1>2. Seated(m, s, T[s], x, c[s]) /\ T[s] \in Seq(Blocks)
    BY DEF Core
  <1>3. \A i \in DOMAIN T[s] : Content(s, x, i) = Content(s, y, i)
    BY <1>1, <1>2 DEF Content
  <1>4. Seated(m, s, T[s], y, c[s])
    BY <1>2, <1>3 DEF Seated
  <1>5. \A z \in Seqs : Seated(m, z, T[z], n2[z], c[z])
    BY <1>4 DEF Alike, Core
  <1> QED BY <1>5 DEF Core

\* The last of y tokens fills the table t of s, of which it is the only one
\* without a slot.
Filling(T, n, c, s, t, N, y) ==
    /\ t \in Seq(Gpu) /\ T[s] = t /\ N = Len(t)
    /\ y \in Nat /\ y = N * BlockSize /\ n[s] \in Nat /\ y = n[s] + 1
    /\ c[s] \in Nat /\ c[s] <= n[s]

\* Only the last block's content changes.
LEMMA FillingFacts ==
    ASSUME NEW T, NEW n, NEW c, NEW s, NEW t, NEW N, NEW y, Filling(T, n, c, s, t, N, y)
    PROVE  /\ N \in Nat \ {0} /\ DOMAIN t = 1..N /\ t # <<>>
           /\ \A i \in 1..(N - 1) : /\ Content(s, n[s], i) = Hash(s, i)
                                    /\ Content(s, y, i) = Hash(s, i)
           /\ Content(s, n[s], N) = NoHash /\ Content(s, y, N) = Hash(s, N)
           /\ ~(N * BlockSize <= c[s])
  <1> DEFINE B == BlockSize
             x == n[s]
  <1>1. /\ N \in Nat /\ DOMAIN t = 1..N /\ y \in Nat /\ y = N * B /\ x \in Nat /\ y = x + 1
        /\ c[s] \in Nat /\ c[s] <= x
    BY DEF Filling
  <1>2. N # 0
    <2>1. 0 * B = 0
      BY EngineAssumption
    <2> HIDE DEF B, x
    <2> QED BY <1>1, <2>1
  <1>3. ASSUME NEW i \in 1..(N - 1) PROVE i * B <= x /\ i * B <= y
    <2>1. i \in Int /\ N \in Int /\ i < N
      BY <1>1
    <2>2. i * B \in Int /\ i * B < N * B
      BY <2>1, Scaling
    <2> DEFINE p == i * B
    <2> HIDE DEF p, B, x
    <2> QED BY <1>1, <2>2 DEF p
  <1>4. ~(N * B <= x) /\ N * B <= y /\ ~(N * B <= c[s])
    <2> DEFINE p == N * B
    <2>1. p = y
      BY <1>1
    <2> HIDE DEF p, x
    <2>2. ~(p <= x) /\ p <= y /\ ~(p <= c[s])
      BY <1>1, <2>1
    <2> QED BY <2>2 DEF p
  <1>5. t # <<>>
    BY <1>1, <1>2
  <1> QED BY <1>1, <1>2, <1>3, <1>4, <1>5 DEF Content

\* The filled block is registered under its content.
LEMMA CorePromote ==
    ASSUME Setting, NEW m, NEW T, NEW n, NEW c, NEW l, Core(m, T, n, c, l), NEW s \in Seqs,
           NEW t, NEW N, NEW y, Filling(T, n, c, s, t, N, y),
           Holders(m, Gpu, Hash(s, N)) = {},
           NEW n2, Alike(n, n2, s), n2[s] = y
    PROVE  Core([m EXCEPT !.hash = [m.hash EXCEPT ![t[N]] = Hash(s, N)]], T, n2, c, l)
  <1> DEFINE tail == t[N]
             h == Hash(s, N)
             hash == [m.hash EXCEPT ![tail] = h]
             r == [m EXCEPT !.hash = hash]
             S == ToSet(t)
             l1 == More(l, S)
             T0 == [T EXCEPT ![s] = <<>>]
  <1>1. /\ N \in Nat \ {0} /\ DOMAIN t = 1..N /\ t \in Seq(Gpu) /\ T[s] = t
        /\ \A i \in 1..(N - 1) : /\ Content(s, n[s], i) = Hash(s, i)
                                 /\ Content(s, y, i) = Hash(s, i)
        /\ Content(s, n[s], N) = NoHash /\ Content(s, y, N) = Hash(s, N)
        /\ ~(N * BlockSize <= c[s])
    <2>1. t \in Seq(Gpu) /\ T[s] = t
      BY DEF Filling
    <2> QED BY <2>1, FillingFacts
  <1>2. /\ T \in [Seqs -> Seq(Blocks)] /\ l \in [Blocks -> Nat] /\ m \in Mems
        /\ Seated(m, s, t, n[s], c[s])
    BY <1>1 DEF Core, Sound
  <1>3. S \subseteq Gpu /\ S \subseteq Blocks /\ tail \in S /\ N \in 1..N
    <2>1. S \subseteq Gpu /\ tail \in S
      BY <1>1, ElementsIn
    <2> QED BY <1>1, <2>1, BlockFacts
  <1>4. Core(m, T0, n, c, l1)
    <2>1. /\ T0 \in [Seqs -> Seq(Blocks)] /\ T0[s] = <<>> /\ Alike(T, T0, s)
          /\ Alike(n, n, s) /\ Alike(c, c, s)
      BY <1>2 DEF Alike
    <2> HIDE DEF T0
    <2> QED BY <1>1, <2>1, CoreOrphan
  <1>5. /\ (\A d \in S : l1[d] >= 1) /\ Fewer(l1, S) = l
    <2> HIDE DEF S
    <2> QED BY <1>2, <1>3, AllFewer
  <1>6. T0[s] = <<>> /\ Alike(T0, T, s) /\ Alike(c, c, s)
    BY <1>2 DEF Alike
  <1> HIDE DEF T0, l1, S
  <1>7. Core(r, T0, n, c, l1)
    <2>1. m.hash[tail] = NoHash
      BY <1>1, <1>2, <1>3 DEF Seated
    <2>2. tail \in Gpu /\ l1[tail] >= 1 /\ h \in HashSet /\ Gpu \in Devices
      BY <1>1, <1>3, <1>5, HashFacts, BlockFacts
    <2>3. Holders(m, Gpu, h) = {}
      OBVIOUS
    <2> HIDE DEF h, tail
    <2> QED BY <1>4, <2>1, <2>2, <2>3, CoreRehash
  <1>8. hash[tail] = h /\ (\A d \in Blocks : d # tail => hash[d] = m.hash[d])
        /\ r.hash = hash /\ r.comp = m.comp
    <2>1. hash[tail] = h /\ \A d \in Blocks : d # tail => hash[d] = m.hash[d]
      BY <1>2, <1>3 DEF Mems
    <2> HIDE DEF hash
    <2>2. r.hash = hash /\ r.comp = m.comp
      BY <1>2 DEF Mems
    <2> QED BY <2>1, <2>2
  <1> HIDE DEF r, hash
  <1>9. Seated(r, s, t, y, c[s])
    <2>1. ASSUME NEW i \in 1..N
          PROVE  /\ r.hash[t[i]] = Content(s, y, i)
                 /\ i * BlockSize <= c[s] => t[i] \in r.comp
      <3>1. CASE i = N
        BY <1>1, <1>8, <3>1
      <3>2. CASE i # N
        <4>1. i \in 1..(N - 1)
          BY <1>1, <3>2
        <4>2. t[i] \in S /\ t[i] \in Gpu /\ t[i] \in Blocks /\ t[i] # tail
          <5>1. t[i] \in S
            BY <1>1, ElementsIn DEF S
          <5>2. t[i] # tail
            BY <1>1, <1>2, <1>3, <3>2 DEF Seated, IsInjective
          <5> QED BY <1>3, <5>1, <5>2
        <4>3. m.hash[t[i]] = Content(s, n[s], i)
              /\ (i * BlockSize <= c[s] => t[i] \in m.comp)
          BY ONLY <1>1, <1>2, <4>2 DEF Seated
        <4> QED BY <1>1, <1>8, <4>1, <4>2, <4>3
      <3> QED BY <3>1, <3>2
    <2>2. IsInjective(t)
      BY <1>2 DEF Seated
    <2> QED BY <1>1, <2>1, <2>2 DEF Seated
  <1>10. Core(r, T, n2, c, Fewer(l1, ToSet(T[s])))
    <2>1. \A d \in ToSet(T[s]) : l1[d] >= 1
      BY <1>1, <1>5 DEF S
    <2>2. Seated(r, s, T[s], n2[s], c[s])
      BY <1>1, <1>9
    <2> QED BY <1>2, <1>6, <1>7, <2>1, <2>2, CoreAdopt
  <1> QED BY <1>1, <1>5, <1>10 DEF S, r, hash

\* Releasing a block forgets no content, and no other block's computed mark.
LEMMA ReleaseFields ==
    ASSUME NEW m \in Mems, NEW S
    PROVE  Release(m, S).hash = m.hash /\ \A b \in m.comp \ S : b \in Release(m, S).comp
  BY DEF Release, Mems

\* The last block of t is let go, and another one with its content is gained.
TwinGained(m, m2, t, N, b, h) == Gains(Release(m, {t[N]}), m2, Gpu, b, h)
TwinAppended(q, t, b) == Appended(q, Front(t), b)

\* The filled block gives way to the one that is cached for its content.
LEMMA CoreTwin ==
    ASSUME Setting, NEW m, NEW T, NEW n, NEW c, NEW l, Core(m, T, n, c, l), NEW s \in Seqs,
           NEW t, NEW N, NEW y, Filling(T, n, c, s, t, N, y),
           NEW b, NEW m2, TwinGained(m, m2, t, N, b, Hash(s, N)),
           NEW n2, Alike(n, n2, s), n2[s] = y,
           NEW T2, T2 \in [Seqs -> Seq(Blocks)], Alike(T, T2, s), TwinAppended(T2[s], t, b)
    PROVE  T2[s] \in Seq(Gpu) /\ Len(T2[s]) = N /\ Core(m2, T2, n2, c, l)
  <1> DEFINE tail == t[N]
             h == Hash(s, N)
             D == {tail}
             m1 == Release(m, D)
             f == Front(t)
             F == ToSet(f)
             S == ToSet(t)
             l1 == More(l, F)
             t2 == T2[s]
             l2 == More(l, ToSet(t2))
             T0 == [T EXCEPT ![s] = <<>>]
  <1>1. /\ N \in Nat \ {0} /\ DOMAIN t = 1..N /\ t \in Seq(Gpu) /\ T[s] = t
        /\ \A i \in 1..(N - 1) : /\ Content(s, n[s], i) = Hash(s, i)
                                 /\ Content(s, y, i) = Hash(s, i)
        /\ Content(s, n[s], N) = NoHash /\ Content(s, y, N) = Hash(s, N)
        /\ ~(N * BlockSize <= c[s]) /\ t # <<>> /\ N = Len(t)
    <2>1. t \in Seq(Gpu) /\ T[s] = t /\ N = Len(t)
      BY DEF Filling
    <2> QED BY <2>1, FillingFacts
  <1>2. /\ T \in [Seqs -> Seq(Blocks)] /\ l \in [Blocks -> Nat] /\ m \in Mems
        /\ Seated(m, s, t, n[s], c[s]) /\ IsInjective(t)
    BY <1>1 DEF Core, Sound, Seated
  <1>3. /\ f \in Seq(Gpu) /\ Len(f) = N - 1 /\ IsInjective(f) /\ F = S \ D
        /\ \A i \in 1..(N - 1) : f[i] = t[i]
    <2>1. /\ f \in Seq(Gpu) /\ Len(f) = N - 1 /\ IsInjective(f)
          /\ S = F \cup {Last(t)} /\ Last(t) \notin F /\ Last(t) = t[Len(t)]
          /\ \A i \in 1..(Len(t) - 1) : f[i] = t[i]
      <3>1. t \in Seq(Gpu) /\ t # <<>> /\ IsInjective(t) /\ N = Len(t)
        BY <1>1, <1>2
      <3> HIDE DEF t2, T0, l1, l2
      <3> QED BY <3>1, FrontSet
    <2> HIDE DEF f, F, S
    <2> QED BY <1>1, <2>1
  <1>4. S \subseteq Gpu /\ S \subseteq Blocks /\ tail \in S /\ F \subseteq Gpu /\ F \subseteq Blocks
    <2>1. S \subseteq Gpu /\ tail \in S
      BY <1>1, ElementsIn
    <2> HIDE DEF F, S
    <2> QED BY ONLY Setting, <1>1, <1>3, <2>1, BlockFacts
  <1>5. Core(m, T0, n, c, More(l, S))
    <2>1. /\ T0 \in [Seqs -> Seq(Blocks)] /\ T0[s] = <<>> /\ Alike(T, T0, s)
          /\ Alike(n, n, s) /\ Alike(c, c, s)
      BY <1>2 DEF Alike
    <2> HIDE DEF T0
    <2> QED BY <1>1, <2>1, CoreOrphan
  <1>6. T0[s] = <<>> /\ Alike(T0, T2, s) /\ Alike(c, c, s)
    BY <1>2 DEF Alike
  <1> HIDE DEF T0, S, F, f
  <1>7. Core(m1, T0, n, c, l1)
    <2>1. D \in SUBSET S
      BY <1>4
    <2> HIDE DEF D
    <2>2. Core(Release(m, D), T0, n, c, More(l, S \ D))
      BY <1>2, <1>4, <1>5, <2>1, CoreGiveBack
    <2> QED BY <1>3, <2>2
  <1>8. Gains(m1, m2, Gpu, b, h) /\ Gpu \in Devices
    BY BlockFacts DEF TwinGained
  <1>9. m1.hash = m.hash /\ \A d \in m.comp \ D : d \in m1.comp
    <2> HIDE DEF D
    <2> QED BY <1>2, ReleaseFields
  <1> HIDE DEF D, m1, h
  <1>10. Core(m2, T0, n, c, More(l1, {b})) /\ b \in Blocks /\ b \in Gpu
    <2>1. b \in Gpu
      BY <1>8 DEF Gains
    <2> HIDE DEF l1
    <2> QED BY <1>7, <1>8, <2>1, CoreGrab
  <1>11. \A i \in 1..(N - 1) : t[i] \in F /\ m.hash[t[i]] = Hash(s, i)
    <2>1. ASSUME NEW i \in 1..(N - 1) PROVE t[i] \in F /\ m.hash[t[i]] = Hash(s, i)
      <3>1. i \in 1..N
        BY <1>1
      <3>2. f[i] \in F
        BY <1>1, <1>3, ElementsIn DEF F
      <3>3. m.hash[t[i]] = Content(s, n[s], i)
        BY <1>1, <1>2, <3>1 DEF Seated
      <3> QED BY ONLY <1>1, <1>3, <3>2, <3>3
    <2> QED BY <2>1
  <1>12. b \notin F
    <2> SUFFICES ASSUME b \in F PROVE FALSE
      OBVIOUS
    <2>1. PICK i \in 1..(N - 1) : f[i] = b
      BY <1>1, <1>3, ElementsIn DEF F
    <2>2. l1[b] >= 1 /\ l1 \in [Blocks -> Nat]
      <3>1. \A d \in F : l1[d] >= 1
        BY <1>2, <1>4, AllFewer
      <3>2. l1 \in [Blocks -> Nat]
        BY <1>2, MoreFewer
      <3> QED BY <3>1, <3>2
    <2> HIDE DEF l1
    <2>3. l1[b] <= m1.ref[b] /\ m1.ref[b] \in Nat /\ l1[b] \in Nat
      BY <1>7, <1>10, CoreRefs
    <2>4. m1.ref[b] # 0
      BY ONLY <2>2, <2>3
    <2>5. m1.hash[b] = h
      BY ONLY <1>8, <2>4 DEF Gains
    <2>6. m.hash[b] = Hash(s, i) /\ i \in Nat \ {0} /\ N \in Nat \ {0} /\ i # N
      <3>1. f[i] = t[i] /\ m.hash[t[i]] = Hash(s, i)
        BY <1>3, <1>11
      <3>2. i \in Nat \ {0} /\ N \in Nat \ {0} /\ i # N
        <4>1. N \in Nat \ {0}
          BY <1>1
        <4>2. i \in 1..(N - 1)
          OBVIOUS
        <4> QED BY ONLY <4>1, <4>2
      <3> QED BY ONLY <2>1, <3>1, <3>2
    <2> QED BY <1>9, <2>5, <2>6, HashFacts DEF h
  <1>13. /\ t2 \in Seq(Gpu) /\ IsInjective(t2) /\ Len(t2) = N /\ DOMAIN t2 = 1..N
         /\ ToSet(t2) = F \cup {b} /\ t2[N] = b /\ \A i \in 1..(N - 1) : t2[i] = f[i]
    <2>1. (N - 1) + 1 = N
      BY <1>1
    <2>2. t2 = Append(f, b)
      BY DEF TwinAppended, Appended, f
    <2> HIDE DEF t2
    <2>3. /\ t2 \in Seq(Gpu) /\ ToSet(t2) = ToSet(f) \cup {b} /\ IsInjective(t2)
          /\ Len(t2) = Len(f) + 1 /\ DOMAIN t2 = 1..(Len(f) + 1) /\ t2[Len(f) + 1] = b
          /\ \A i \in 1..Len(f) : t2[i] = f[i]
      BY ONLY <1>3, <1>10, <1>12, <2>2, AppendSet DEF F
    <2> QED BY <1>3, <2>1, <2>3 DEF F
  <1> HIDE DEF t2
  <1>14. More(l1, {b}) = l2 /\ ToSet(t2) \subseteq Blocks
    <2>1. F \cap {b} = {}
      BY <1>12
    <2> DEFINE E == {b}
    <2>2. F \cap E = {}
      BY <2>1
    <2>3. l \in [Blocks -> Nat]
      BY <1>2
    <2> HIDE DEF E
    <2>4. More(More(l, F), E) = More(l, F \cup E)
      BY ONLY <2>2, <2>3, MoreMore
    <2> QED BY ONLY <1>4, <1>10, <1>13, <2>4 DEF E
  <1>15. Core(m2, T0, n, c, l2)
    BY <1>10, <1>14
  <1>16. /\ (\A d \in ToSet(t2) : l2[d] >= 1) /\ Fewer(l2, ToSet(t2)) = l
    BY <1>2, <1>14, AllFewer
  <1> HIDE DEF l1, l2
  <1>17. Seated(m2, s, t2, y, c[s])
    <2>1. ASSUME NEW i \in 1..N
          PROVE  /\ m2.hash[t2[i]] = Content(s, y, i)
                 /\ i * BlockSize <= c[s] => t2[i] \in m2.comp
      <3>1. CASE i = N
        <4>1. m2.hash[b] = h
          BY <1>8 DEF Gains
        <4> QED BY ONLY <1>1, <1>13, <3>1, <4>1 DEF h
      <3>2. CASE i # N
        <4>1. i \in 1..(N - 1)
          <5>1. N \in Nat \ {0} /\ i \in 1..N
            BY <1>1
          <5> QED BY ONLY <3>2, <5>1
        <4>2. /\ t2[i] = t[i] /\ t[i] \in F /\ m.hash[t[i]] = Hash(s, i)
              /\ t[i] \in Blocks /\ t[i] # b /\ t[i] \in Gpu
          BY <1>3, <1>4, <1>11, <1>12, <1>13, <4>1
        <4>3. m2.hash[t[i]] = Hash(s, i)
          BY ONLY <1>8, <1>9, <4>2 DEF Gains
        <4>4. ASSUME i * BlockSize <= c[s] PROVE t[i] \in m2.comp
          <5>1. t[i] \in m.comp
            BY <1>1, <1>2, <4>2, <4>4 DEF Seated
          <5>2. t[i] \notin D
            BY <1>3, <4>2
          <5> QED BY ONLY <1>8, <1>9, <5>1, <5>2 DEF Gains
        <4> QED BY <1>1, <4>1, <4>2, <4>3, <4>4
      <3> QED BY ONLY <3>1, <3>2
    <2> QED BY <1>13, <2>1 DEF Seated
  <1>18. Core(m2, T2, n2, c, Fewer(l2, ToSet(T2[s])))
    <2>1. \A d \in ToSet(T2[s]) : l2[d] >= 1
      BY <1>16 DEF t2
    <2>2. Seated(m2, s, T2[s], n2[s], c[s])
      BY <1>17 DEF t2
    <2> QED BY <1>6, <1>15, <2>1, <2>2, CoreAdopt
  <1> QED BY ONLY <1>13, <1>16, <1>18 DEF t2

\* Without the block of a table that was filled, the allocators are sound.
LEMMA ReleaseSound ==
    ASSUME Setting, NEW m, NEW T, NEW n, NEW c, NEW l, Core(m, T, n, c, l), NEW s \in Seqs,
           NEW d, d \in ToSet(T[s])
    PROVE  Sound(Release(m, {d}))
  <1> DEFINE S == ToSet(T[s])
             T0 == [T EXCEPT ![s] = <<>>]
             D == {d}
  <1>1. T \in [Seqs -> Seq(Blocks)] /\ l \in [Blocks -> Nat] /\ T[s] \in Seq(Blocks)
    BY DEF Core
  <1>2. S \subseteq Blocks /\ D \in SUBSET S
    BY <1>1, ElementsIn
  <1>3. /\ T0 \in [Seqs -> Seq(Blocks)] /\ T0[s] = <<>> /\ Alike(T, T0, s)
        /\ Alike(n, n, s) /\ Alike(c, c, s)
    BY <1>1 DEF Alike
  <1> HIDE DEF T0, D
  <1>4. Core(m, T0, n, c, More(l, S))
    BY <1>3, CoreOrphan
  <1> HIDE DEF S
  <1>5. Core(Release(m, D), T0, n, c, More(l, S \ D))
    BY <1>1, <1>2, <1>4, CoreGiveBack
  <1> QED BY <1>5 DEF Core, D

\* y tokens that leave no rest fill all the blocks they need.
LEMMA CoversFull ==
    ASSUME NEW N \in Nat, NEW y \in Nat, Covers(N, y), y % BlockSize = 0
    PROVE  y = N * BlockSize
  <1> DEFINE q == y \div BlockSize
  <1>1. q \in Nat /\ q * BlockSize = y
    BY Modulus, Blocking
  <1>2. (N - 1) * BlockSize < q * BlockSize /\ q * BlockSize <= N * BlockSize
    BY <1>1 DEF Covers
  <1> HIDE DEF q
  <1>3. N - 1 < q /\ q <= N
    <2>1. N - 1 \in Int /\ q \in Int /\ N \in Int
      BY <1>1
    <2> QED BY <1>2, <2>1, Scaling
  <1>4. q = N
    BY <1>1, <1>3
  <1> QED BY <1>1, <1>4

\* append_slots gives the head of the queue a slot for all of its tokens.
LEMMA AppendSlotsCore ==
    ASSUME Setting, NEW T, NEW n, NEW c, NEW l, Core(mem, T, n, c, l), NEW s \in Seqs,
           NEW t, NEW x, NEW y, Appending(T, n, c, s, t, x, y), CanAppend(s),
           NEW a, a = AppendSlots(s), NEW n2, Alike(n, n2, s), n2[s] = y,
           NEW T2, T2 \in [Seqs -> Seq(Blocks)], Alike(T, T2, s), T2[s] = a.table
    PROVE  /\ a.table \in Seq(Gpu) /\ Covers(Len(a.table), y)
           /\ Core(a.m, T2, n2, c, l)
  <1> DEFINE a1 == Room(s)
             t1 == a1.table
             N == Len(t1)
             T1 == [T EXCEPT ![s] = t1]
             h == Hash(s, N)
             tail == Last(t1)
             same == Holders(a1.m, Gpu, h)
  <1>1. /\ T \in [Seqs -> Seq(Blocks)] /\ x \in Nat /\ y \in Nat /\ n[s] = x
        /\ c[s] \in Nat /\ c[s] <= x /\ x <= y /\ y <= x + 1
        /\ seq[s].len = y /\ seq[s].slots = x
    <2>1. T \in [Seqs -> Seq(Blocks)]
      BY DEF Core
    <2> QED BY <2>1 DEF Appending
  <1>2. a = IF y = x \/ y % BlockSize # 0 THEN a1
            ELSE IF same = {}
                 THEN [a1 EXCEPT !.m.hash[tail] = h]
                 ELSE Reuse([a1 EXCEPT !.m = Release(a1.m, {tail}), !.table = Front(t1)],
                            CHOOSE b \in same : TRUE)
    BY <1>1, Zenon DEF AppendSlots, Room
  <1>3. /\ a1 \in Accs /\ a1.dev = Gpu /\ a1.ok /\ t1 \in Seq(Gpu) /\ Covers(N, y)
        /\ Core(a1.m, T1, n, c, l) /\ T1 \in [Seqs -> Seq(Blocks)] /\ T1[s] = t1
        /\ Alike(T1, T2, s)
    <2>1. t1 \in Seq(Blocks)
      <3>1. a1.table \in Seq(Blocks)
        <4>1. mem \in Mems /\ Sound(mem) /\ seq[s].table \in Seq(Blocks)
          <5>1. T[s] = seq[s].table
            BY DEF Appending
          <5> QED BY <5>1 DEF Core, Sound
        <4>2. Building(mem, Gpu, seq[s].table) \in Accs
              /\ Building(mem, Gpu, seq[s].table).m = mem
              /\ Building(mem, Gpu, seq[s].table).ok
          BY ONLY Setting, <4>1, BlockFacts DEF Building, Accs
        <4> DEFINE a0 == Building(mem, Gpu, seq[s].table)
        <4>3. Joins(a0, NewBlock(a0, NoHash), NoHash) \/ Fails(a0, NewBlock(a0, NoHash))
          <5> HIDE DEF a0
          <5> QED BY <4>1, <4>2, HashFacts, NewBlockFacts DEF a0
        <4>4. NewBlock(a0, NoHash) \in Accs
          BY <4>3 DEF Joins, Fails
        <4>5. Room(s) \in Accs
          BY <4>2, <4>4 DEF Room
        <4> QED BY <4>5 DEF Accs
      <3> QED BY <3>1
    <2> HIDE DEF a1
    <2>2. T1 \in [Seqs -> Seq(Blocks)] /\ Alike(T, T1, s) /\ T1[s] = a1.table
          /\ Alike(T1, T2, s)
      BY <1>1, <2>1 DEF Alike
    <2> HIDE DEF T1
    <2>3. /\ a1 \in Accs /\ a1.dev = Gpu /\ a1.ok /\ a1.table \in Seq(Gpu)
          /\ Covers(Len(a1.table), y) /\ Core(a1.m, T1, n, c, l)
      BY <2>2, AppendRoom DEF a1
    <2> QED BY <2>2, <2>3
  <1> HIDE DEF a1, T1
  <1>4. ASSUME a = a1 PROVE T2 = T1
    <2>1. \A z \in Seqs : T2[z] = T1[z]
      BY <1>3, <1>4 DEF Alike
    <2> QED BY <1>3, <2>1
  <1>5. CASE y = x
    <2>1. a = a1 /\ T2 = T1
      BY <1>2, <1>4, <1>5
    <2>2. \A z \in Seqs : n2[z] = n[z]
      BY <1>1, <1>5 DEF Alike
    <2>3. Core(a1.m, T1, n2, c, l)
      BY <1>3, <2>2 DEF Core
    <2> QED BY <1>3, <2>1, <2>3
  <1>6. CASE y # x /\ y % BlockSize # 0
    <2>1. a = a1 /\ T2 = T1 /\ y = x + 1
      BY ONLY <1>1, <1>2, <1>4, <1>6
    <2>2. Core(a1.m, T1, n2, c, l)
      BY <1>1, <1>3, <1>6, <2>1, CoreLonger
    <2> QED BY ONLY <1>3, <2>1, <2>2
  <1>7. CASE y # x /\ ~(y % BlockSize # 0)
    <2>1. Filling(T1, n, c, s, t1, N, y) /\ N \in Nat
      <3>1. N \in Nat
        BY <1>3
      <3> HIDE DEF t1, N
      <3>2. y = N * BlockSize
        BY ONLY <1>1, <1>3, <1>7, <3>1, CoversFull
      <3>3. y = x + 1
        BY <1>1, <1>7
      <3> QED BY ONLY <1>1, <1>3, <3>1, <3>2, <3>3 DEF Filling, N
    <2>2. tail = t1[N] /\ t1 # <<>> /\ N \in Nat \ {0} /\ tail \in ToSet(t1)
      <3>1. t1 # <<>> /\ N \in Nat \ {0}
        <4> HIDE DEF t1, N
        <4> QED BY <2>1, FillingFacts
      <3>2. tail = t1[N] /\ tail \in ToSet(t1)
        <4> HIDE DEF t1
        <4> QED BY <1>3, <3>1, FrontSet
      <3> QED BY <3>1, <3>2
    <2>3. CASE same = {}
      <3> DEFINE m2 == [a1.m EXCEPT !.hash = [a1.m.hash EXCEPT ![t1[N]] = h]]
      <3>1. a = [a1 EXCEPT !.m.hash[tail] = h]
        BY ONLY <1>2, <1>7, <2>3
      <3>2. a.m = m2 /\ a.table = t1
        <4>1. a1.m \in Mems
          BY <1>3 DEF Accs
        <4> HIDE DEF h, tail
        <4> QED BY ONLY <1>3, <2>2, <3>1, <4>1 DEF Accs, Mems
      <3>3. T2 = T1
        <4>1. \A z \in Seqs : T2[z] = T1[z]
          BY <1>3, <3>2 DEF Alike
        <4> QED BY <1>3, <4>1
      <3>4. Core(m2, T1, n2, c, l)
        <4>1. Holders(a1.m, Gpu, Hash(s, N)) = {}
          BY <2>3
        <4> HIDE DEF t1, N
        <4> QED BY <1>3, <2>1, <4>1, CorePromote
      <3> HIDE DEF m2
      <3> QED BY <1>3, <3>2, <3>3, <3>4
    <2>4. CASE same # {}
      <3> DEFINE d == CHOOSE b \in same : TRUE
                 m1 == Release(a1.m, {tail})
                 r1 == [a1 EXCEPT !.m = m1, !.table = Front(t1)]
      <3>1. a = Reuse(r1, d)
        BY <1>2, <1>7, <2>4
      <3>2. d \in Gpu /\ a1.m.hash[d] = h
        <4>1. d \in same
          <5> HIDE DEF same
          <5> QED BY <2>4, Zenon
        <4> HIDE DEF d, h
        <4> QED BY <4>1 DEF Holders
      <3> HIDE DEF d
      <3>3. Sound(m1) /\ m1.hash = a1.m.hash
        <4>1. tail \in ToSet(T1[s]) /\ a1.m \in Mems
          BY <1>3, <2>2 DEF Accs
        <4> HIDE DEF tail
        <4> QED BY <1>3, <4>1, ReleaseSound, ReleaseFields
      <3>4. Front(t1) \in Seq(Blocks) /\ Front(t1) \in Seq(Gpu)
        <4>1. Front(t1) \in Seq(Gpu)
          <5> HIDE DEF t1
          <5> QED BY <1>3, <2>2, FrontSet
        <4>2. Gpu \subseteq Blocks
          BY BlockFacts
        <4> HIDE DEF t1
        <4> QED BY <4>1, <4>2
      <3>5. r1 \in Accs /\ r1.m = m1 /\ r1.dev = Gpu /\ r1.ok /\ r1.table = Front(t1)
        <4>1. m1 \in Mems
          BY <3>3 DEF Sound
        <4> HIDE DEF m1, t1
        <4> QED BY <1>3, <3>4, <4>1 DEF Accs
      <3>6. h # NoHash
        BY <2>2, HashFacts
      <3> HIDE DEF r1, m1, h
      <3>7. Joins(r1, a, h)
        BY <3>1, <3>2, <3>3, <3>5, <3>6, ReuseFacts
      <3>8. PICK b \in Gpu : Gains(m1, a.m, Gpu, b, h) /\ a.table = Append(Front(t1), b)
        BY <3>5, <3>7 DEF Joins
      <3>9. T2[s] \in Seq(Gpu) /\ Len(T2[s]) = N /\ Core(a.m, T2, n2, c, l)
        <4> DEFINE m2 == a.m
        <4>1. TwinGained(a1.m, m2, t1, N, b, Hash(s, N))
          BY <2>2, <3>8 DEF m1, h, TwinGained
        <4>2. TwinAppended(T2[s], t1, b)
          BY <3>8 DEF Appended, TwinAppended
        <4> HIDE DEF m2, t1, N
        <4> DEFINE m0 == a1.m
        <4>3. Core(m0, T1, n, c, l) /\ Filling(T1, n, c, s, t1, N, y) /\ Alike(T1, T2, s)
              /\ TwinGained(m0, m2, t1, N, b, Hash(s, N)) /\ TwinAppended(T2[s], t1, b)
          BY <1>3, <2>1, <4>1, <4>2
        <4> HIDE DEF m0
        <4>4. T2[s] \in Seq(Gpu) /\ Len(T2[s]) = N /\ Core(m2, T2, n2, c, l)
          BY <4>3, CoreTwin
        <4> QED BY <4>4 DEF m2
      <3> QED BY <1>3, <3>9
    <2> QED BY <2>3, <2>4
  <1> QED BY ONLY <1>5, <1>6, <1>7
-----------------------------------------------------------------------------
(***************************************************************************)
(* The steps.                                                              *)
(***************************************************************************)
Counts(sq) == [s \in Seqs |-> sq[s].computed]

SettledNext ==
    Settled(phase', kv', mem', seq', waiting', running', out', pending', entries', lost')

\* What the parts of the invariant say of the types of the variables.
LEMMA InvFacts ==
    ASSUME EngineInv
    PROVE  /\ Setting /\ Shape(phase, kv, seq, waiting, running, out, pending, entries)
           /\ Core(mem, Tables(seq), Slots(seq), Computed(phase, seq, out), lost)
           /\ Owners(phase, seq, running, pending, entries)
           /\ Queues(phase, seq, waiting, running, out)
           /\ mem \in Mems /\ Sound(mem) /\ seq \in [Seqs -> SeqRecs]
           /\ lost \in [Blocks -> Nat]
           /\ phase \in Phases /\ kv \in [Blocks -> [1..BlockSize -> HashSet]]
           /\ waiting \in Seq(Seqs) /\ running \in Seq(Seqs)
           /\ out \in Outs /\ pending \in Pendings /\ entries \in [Keys -> Seqs \cup {None}]
           /\ \A s \in Seqs : /\ seq[s].computed <= seq[s].len
                              /\ info[s].prompt <= seq[s].len
                              /\ info[s].key \in Keys
           /\ None \notin Seqs
  <1>1. /\ Setting /\ Shape(phase, kv, seq, waiting, running, out, pending, entries)
        /\ Core(mem, Tables(seq), Slots(seq), Computed(phase, seq, out), lost)
        /\ Owners(phase, seq, running, pending, entries)
        /\ Queues(phase, seq, waiting, running, out)
    BY DEF EngineInv, Setting
  <1>2. mem \in Mems /\ Sound(mem) /\ lost \in [Blocks -> Nat]
    BY <1>1 DEF Core, Sound
  <1>3. \A s \in Seqs : info[s].key \in Keys
    BY <1>1, HashFacts
  <1> QED BY <1>1, <1>2, <1>3, EngineAssumption DEF Shape

\* What they say of the sequences in the lists.
LEMMA ListFacts ==
    ASSUME EngineInv
    PROVE  /\ Owned(phase, seq, running, pending, entries) /\ Fitting(seq, running)
           /\ Leaving(seq, running, pending) /\ Retained(seq, running, pending, entries)
           /\ ToSet(waiting) \subseteq Seqs /\ ToSet(running) \subseteq Seqs
           /\ ToSet(pending.seqs) \subseteq Seqs /\ pending.seqs \in Seq(Seqs)
           /\ IsInjective(waiting) /\ IsInjective(running)
           /\ Batched(out) \subseteq Seqs
           /\ \A s \in ToSet(waiting) : seq[s].status = "waiting"
           /\ \A s \in ToSet(running) :
                 Active(seq[s]) \/ (phase = "finish" /\ seq[s].status = "finished")
  <1>1. /\ pending \in Pendings /\ waiting \in Seq(Seqs) /\ running \in Seq(Seqs) /\ out \in Outs
        /\ Owners(phase, seq, running, pending, entries)
        /\ Queues(phase, seq, waiting, running, out)
    BY InvFacts
  <1>2. pending.seqs \in Seq(Seqs)
    BY <1>1 DEF Pendings
  <1>3. /\ ToSet(waiting) \subseteq Seqs /\ ToSet(running) \subseteq Seqs
        /\ ToSet(pending.seqs) \subseteq Seqs
    BY <1>1, <1>2, ElementsIn
  <1>4. Batched(out) \subseteq Seqs
    <2>1. /\ out.decodes \in Seq(Seqs) /\ out.prefills \in Seq(Seqs) /\ out.fresh \in Seq(Seqs)
      BY <1>1 DEF Outs
    <2> QED BY <2>1, ElementsIn DEF Batched
  <1>5. /\ Owned(phase, seq, running, pending, entries) /\ Fitting(seq, running)
        /\ Leaving(seq, running, pending) /\ Retained(seq, running, pending, entries)
    BY <1>1 DEF Owners
  <1>6. /\ IsInjective(waiting) /\ IsInjective(running)
        /\ \A s \in ToSet(waiting) : seq[s].status = "waiting"
        /\ \A s \in ToSet(running) :
              Active(seq[s]) \/ (phase = "finish" /\ seq[s].status = "finished")
    BY <1>1 DEF Queues
  <1> QED BY ONLY <1>2, <1>3, <1>4, <1>5, <1>6

\* What a sequence's record says.
LEMMA SeqFacts ==
    ASSUME NEW sq \in [Seqs -> SeqRecs], NEW x \in Seqs
    PROVE  /\ sq[x] \in SeqRecs /\ sq[x].status \in Statuses /\ sq[x].table \in Seq(Blocks)
           /\ sq[x].len \in Nat /\ sq[x].computed \in Nat /\ sq[x].slots \in Nat
           /\ sq[x].skip \in Nat /\ sq[x].memo \in Int /\ sq[x].last \in Int
  BY DEF SeqRecs

\* Outside the worker's part of a step the trackers count what is computed.
LEMMA ComputedIdle ==
    ASSUME NEW p, p \notin {"worker", "process"}, NEW sq, NEW o
    PROVE  Computed(p, sq, o) = Counts(sq)
  BY DEF Computed, Counts

\* Core needs of the sequences only three columns.
LEMMA SameColumns ==
    ASSUME NEW sq, NEW sq2, \A x \in Seqs : /\ sq2[x].table = sq[x].table
                                            /\ sq2[x].slots = sq[x].slots
                                            /\ sq2[x].computed = sq[x].computed
    PROVE  Tables(sq2) = Tables(sq) /\ Slots(sq2) = Slots(sq) /\ Counts(sq2) = Counts(sq)
  BY DEF Tables, Slots, Counts

\* Only the status of s changes.
Relabel(sq, s, st) == [sq EXCEPT ![s].status = st]

\* Relabelling changes nothing but the status of s.
LEMMA RelabelFacts ==
    ASSUME NEW sq \in [Seqs -> SeqRecs], NEW s \in Seqs, NEW st \in Statuses
    PROVE  /\ Relabel(sq, s, st) \in [Seqs -> SeqRecs] /\ Relabel(sq, s, st)[s].status = st
           /\ \A x \in Seqs : LET q == Relabel(sq, s, st)[x] IN
                 /\ q.table = sq[x].table /\ q.slots = sq[x].slots
                 /\ q.computed = sq[x].computed /\ q.len = sq[x].len
                 /\ x # s => q = sq[x]
  BY ONLY DEF Relabel, SeqRecs

\* A sequence that is neither scheduled nor finished has no blocks and is in
\* none of the lists that would say so.
LEMMA Untabled ==
    ASSUME EngineInv, NEW s \in Seqs, seq[s].status \notin {"prefill", "decode", "finished"}
    PROVE  /\ seq[s].table = <<>> /\ s \notin ToSet(running)
           /\ s \notin ToSet(pending.seqs) /\ \A k \in Keys : entries[k] # s
  <1>1. /\ Owners(phase, seq, running, pending, entries)
        /\ Queues(phase, seq, waiting, running, out)
        /\ info[s].key \in Keys /\ None \notin Seqs /\ ~Active(seq[s])
    BY InvFacts DEF Active
  <1>2. s \notin ToSet(running)
    BY <1>1 DEF Queues
  <1>3. s \notin ToSet(pending.seqs)
    BY <1>1 DEF Owners, Leaving
  <1>4. \A k \in Keys : entries[k] # s
    <2> SUFFICES ASSUME NEW k \in Keys, entries[k] = s PROVE FALSE
      OBVIOUS
    <2>1. entries[k] # None
      BY <1>1
    <2>2. seq[entries[k]].status = "finished"
      BY <1>1, <2>1 DEF Owners, Retained
    <2> QED BY <2>2
  <1>5. seq[s].table = <<>>
    BY <1>1, <1>2, <1>3, <1>4 DEF Owners, Owned
  <1> QED BY <1>2, <1>3, <1>4, <1>5

\* A new request has no blocks yet.
LEMMA ArriveStep ==
    ASSUME EngineInv, NEW s \in Seqs, Arrive(s)
    PROVE  SettledNext
  <1>1. /\ phase = "idle" /\ seq[s].status = "new"
        /\ seq' = [seq EXCEPT ![s].status = "waiting"]
        /\ waiting' = Append(waiting, s)
        /\ phase' = phase /\ mem' = mem /\ kv' = kv /\ running' = running /\ out' = out
        /\ pending' = pending /\ entries' = entries /\ lost' = lost
    BY DEF Arrive, Sendable
  <1>2. /\ seq' \in [Seqs -> SeqRecs]
        /\ \A x \in Seqs : /\ seq'[x].table = seq[x].table /\ seq'[x].slots = seq[x].slots
                           /\ seq'[x].computed = seq[x].computed /\ seq'[x].len = seq[x].len
                           /\ x # s => seq'[x] = seq[x]
        /\ seq'[s].status = "waiting"
    <2>1. seq' = Relabel(seq, s, "waiting") /\ "waiting" \in Statuses
      BY <1>1 DEF Relabel, Statuses, Live
    <2>2. s \in Seqs /\ seq \in [Seqs -> SeqRecs]
      BY InvFacts
    <2> QED BY ONLY <2>1, <2>2, RelabelFacts
  <1>3. /\ waiting' \in Seq(Seqs) /\ ToSet(waiting') = ToSet(waiting) \cup {s}
        /\ IsInjective(waiting')
    <2>1. waiting \in Seq(Seqs) /\ IsInjective(waiting) /\ s \notin ToSet(waiting)
      BY <1>1, InvFacts DEF Queues
    <2> QED BY <1>1, <2>1, AppendSet
  <1>4. Shape(phase', kv', seq', waiting', running', out', pending', entries')
    BY <1>1, <1>2, <1>3, InvFacts DEF Shape
  <1>5. Core(mem', Tables(seq'), Slots(seq'), Computed(phase', seq', out'), lost')
    <2>1. Tables(seq') = Tables(seq) /\ Slots(seq') = Slots(seq) /\ Counts(seq') = Counts(seq)
      BY <1>2, SameColumns
    <2>2. Computed(phase', seq', out') = Computed(phase, seq, out)
      BY <1>1, <2>1, ComputedIdle
    <2> QED BY <1>1, <2>1, <2>2, InvFacts
  <1>6. seq[s].table = <<>> /\ s \notin ToSet(running) /\ s \notin ToSet(pending.seqs)
        /\ \A k \in Keys : entries[k] # s
    BY <1>1, Untabled
  <1>7. Owners(phase', seq', running', pending', entries')
    BY <1>1, <1>2, <1>6, InvFacts DEF Owners, Owned, Fitting, Leaving, Retained, Active
  <1>8. Queues(phase', seq', waiting', running', out')
    BY <1>1, <1>2, <1>3, <1>6, InvFacts DEF Queues, Scheduling, Active
  <1> QED BY <1>4, <1>5, <1>7, <1>8 DEF SettledNext, Settled

\* The queues are sorted, and nothing has been scheduled.
LEMMA StartStepStep ==
    ASSUME EngineInv, StartStep
    PROVE  SettledNext
  <1>1. /\ phase = "idle" /\ phase' = "running" /\ out' = NoOut
        /\ waiting' = ByQuery(waiting) /\ running' = ByQuery(running)
        /\ mem' = mem /\ kv' = kv /\ seq' = seq
        /\ pending' = pending /\ entries' = entries /\ lost' = lost
    BY DEF StartStep
  <1>2. ASSUME NEW q \in Seq(Seqs)
        PROVE  /\ ByQuery(q) \in Seq(Seqs) /\ ToSet(ByQuery(q)) = ToSet(q)
               /\ IsInjective(q) => IsInjective(ByQuery(q))
    <2> DEFINE key == [i \in DOMAIN q |-> info[q[i]].key]
    <2>1. key \in [DOMAIN q -> Int]
      <3>1. ASSUME NEW i \in DOMAIN q PROVE info[q[i]].key \in Int
        <4>1. info[q[i]] \in Job
          BY InvFacts, HashFacts
        <4> QED BY <4>1 DEF Job
      <3> QED BY <3>1
    <2>2. ByQuery(q) = SortedBy(q, key)
      BY DEF ByQuery
    <2> HIDE DEF key
    <2> QED BY <2>1, <2>2, SortedSet
  <1>3. /\ waiting' \in Seq(Seqs) /\ ToSet(waiting') = ToSet(waiting) /\ IsInjective(waiting')
        /\ running' \in Seq(Seqs) /\ ToSet(running') = ToSet(running) /\ IsInjective(running')
    BY <1>1, <1>2, InvFacts DEF Queues
  <1>4. /\ out' \in Outs /\ Batched(out') = {}
        /\ out'.decodes = <<>> /\ out'.prefills = <<>> /\ out'.fresh = <<>>
        /\ out'.preempted = <<>> /\ ToSet(<<>>) = {} /\ IsInjective(<<>>)
    BY <1>1 DEF NoOut, Outs, Batched, ToSet, IsInjective
  <1>5. Shape(phase', kv', seq', waiting', running', out', pending', entries')
    BY ONLY EngineInv, <1>1, <1>3, <1>4, InvFacts DEF Shape, Phases
  <1>6. Core(mem', Tables(seq'), Slots(seq'), Computed(phase', seq', out'), lost')
    <2>1. Computed(phase', seq', out') = Computed(phase, seq, out)
      BY <1>1, ComputedIdle
    <2> QED BY <1>1, <2>1, InvFacts
  <1>7. Owners(phase', seq', running', pending', entries')
    BY <1>1, <1>3, InvFacts DEF Owners, Owned, Fitting, Leaving, Retained
  <1>8. Queues(phase', seq', waiting', running', out')
    <2>1. Apart(seq', waiting', running', out')
      BY <1>4 DEF Apart
    <2> QED BY ONLY EngineInv, <1>1, <1>3, <1>4, <2>1, InvFacts DEF Queues, Scheduling
  <1> QED BY <1>5, <1>6, <1>7, <1>8 DEF SettledNext, Settled

\* The scheduler goes on from one queue to the next.
LEMMA PhaseStep ==
    ASSUME EngineInv, phase \in {"running", "prefill"}, phase' \in {"prefill", "scheduled", "noswap", "nofree"},
           UNCHANGED <<mem, kv, seq, waiting, running, out, pending, entries, lost>>
    PROVE  SettledNext
  <1>1. /\ mem' = mem /\ kv' = kv /\ seq' = seq /\ waiting' = waiting /\ running' = running
        /\ out' = out /\ pending' = pending /\ entries' = entries /\ lost' = lost
        /\ phase \in {"running", "prefill"} /\ phase' \in {"prefill", "scheduled", "noswap", "nofree"}
    OBVIOUS
  <1>2. Shape(phase', kv', seq', waiting', running', out', pending', entries')
    BY <1>1, InvFacts DEF Shape, Phases
  <1>3. Core(mem', Tables(seq'), Slots(seq'), Computed(phase', seq', out'), lost')
    <2>1. Computed(phase', seq', out') = Computed(phase, seq, out)
      BY ONLY <1>1, ComputedIdle
    <2> QED BY <1>1, <2>1, InvFacts
  <1>4. Owners(phase', seq', running', pending', entries')
    BY <1>1, InvFacts DEF Owners, Owned, Fitting, Leaving, Retained
  <1>5. Queues(phase', seq', waiting', running', out')
    BY <1>1, InvFacts DEF Queues, Scheduling
  <1> QED BY <1>2, <1>3, <1>4, <1>5 DEF SettledNext, Settled

\* The request that can never fit leaves the waiting queue.
LEMMA IgnoreHeadStep ==
    ASSUME EngineInv, IgnoreHead
    PROVE  SettledNext
  <1> DEFINE s == Head(waiting)
  <1>1. /\ phase = "prefill" /\ waiting # <<>>
        /\ seq' = [seq EXCEPT ![s].status = "ignored"]
        /\ waiting' = Tail(waiting)
        /\ phase' = phase /\ mem' = mem /\ kv' = kv /\ running' = running /\ out' = out
        /\ pending' = pending /\ entries' = entries /\ lost' = lost
    BY DEF IgnoreHead
  <1>2. /\ s \in Seqs /\ seq[s].status = "waiting" /\ waiting' \in Seq(Seqs)
        /\ ToSet(waiting) = ToSet(waiting') \cup {s} /\ IsInjective(waiting')
        /\ s \notin ToSet(waiting')
    <2>1. waiting \in Seq(Seqs) /\ IsInjective(waiting)
          /\ \A x \in ToSet(waiting) : seq[x].status = "waiting"
      BY InvFacts DEF Queues
    <2> QED BY ONLY <1>1, <2>1, TailSet
  <1> HIDE DEF s
  <1>3. /\ seq' \in [Seqs -> SeqRecs]
        /\ \A x \in Seqs : /\ seq'[x].table = seq[x].table /\ seq'[x].slots = seq[x].slots
                           /\ seq'[x].computed = seq[x].computed /\ seq'[x].len = seq[x].len
                           /\ x # s => seq'[x] = seq[x]
        /\ seq'[s].status = "ignored"
    <2>1. seq' = Relabel(seq, s, "ignored") /\ "ignored" \in Statuses
      BY <1>1 DEF Relabel, Statuses
    <2>2. s \in Seqs /\ seq \in [Seqs -> SeqRecs]
      BY <1>2, InvFacts
    <2> QED BY <2>1, <2>2, RelabelFacts
  <1>4. Shape(phase', kv', seq', waiting', running', out', pending', entries')
    BY <1>1, <1>2, <1>3, InvFacts DEF Shape
  <1>5. Core(mem', Tables(seq'), Slots(seq'), Computed(phase', seq', out'), lost')
    <2>1. Tables(seq') = Tables(seq) /\ Slots(seq') = Slots(seq) /\ Counts(seq') = Counts(seq)
      BY <1>3, SameColumns
    <2>2. Computed(phase', seq', out') = Computed(phase, seq, out)
      BY ONLY <1>1, <2>1, ComputedIdle
    <2> QED BY <1>1, <2>1, <2>2, InvFacts
  <1>6. /\ seq[s].table = <<>> /\ s \notin ToSet(running) /\ s \notin ToSet(pending.seqs)
        /\ \A k \in Keys : entries[k] # s
    BY ONLY EngineInv, <1>2, Untabled
  <1>7. Owners(phase', seq', running', pending', entries')
    BY ONLY EngineInv, <1>1, <1>2, <1>3, <1>6, InvFacts
       DEF Owners, Owned, Fitting, Leaving, Retained, Active
  <1>8. Queues(phase', seq', waiting', running', out')
    <2>1. Apart(seq', waiting', running', out')
      <3>1. Apart(seq, waiting, running, out)
        BY <1>1, InvFacts DEF Queues, Scheduling
      <3>2. s \notin ToSet(out.preempted) /\ s \notin Batched(out)
        BY ONLY <1>2, <3>1 DEF Apart, Batched
      <3>3. /\ ToSet(out.decodes) \subseteq Seqs /\ ToSet(out.prefills) \subseteq Seqs
            /\ ToSet(out.fresh) \subseteq Seqs /\ ToSet(out.preempted) \subseteq Seqs
        BY InvFacts, ElementsIn DEF Outs
      <3> QED BY <1>1, <1>2, <1>3, <3>1, <3>2, <3>3 DEF Apart, Batched
    <2>2. \A x \in Batched(out') : seq'[x].slots = seq'[x].len
      <3>1. \A x \in Batched(out) : seq[x].slots = seq[x].len /\ x \in Seqs
        <4>1. Batched(out) \subseteq Seqs
          BY InvFacts, ElementsIn DEF Outs, Batched
        <4> QED BY <1>1, <4>1, InvFacts DEF Queues, Scheduling
      <3> QED BY <1>1, <1>3, <3>1
    <2>3. \A x \in ToSet(running') : Active(seq'[x])
      <3>1. ToSet(running) \subseteq Seqs
        BY ONLY EngineInv, InvFacts, ElementsIn
      <3> QED BY ONLY EngineInv, <1>1, <1>3, <1>6, <3>1, InvFacts DEF Queues
    <2>4. \A x \in ToSet(waiting') : seq'[x].status = "waiting"
      <3>1. ToSet(waiting) \subseteq Seqs
        BY InvFacts, ElementsIn
      <3> QED BY ONLY EngineInv, <1>1, <1>2, <1>3, <3>1, InvFacts DEF Queues
    <2> QED BY <1>1, <1>2, <2>1, <2>2, <2>3, <2>4, InvFacts DEF Queues, Scheduling
  <1> QED BY <1>4, <1>5, <1>7, <1>8 DEF SettledNext, Settled

\* What counts as computed depends on two columns.
LEMMA SameComputed ==
    ASSUME NEW p, NEW o, NEW sq, NEW sq2,
           \A x \in Seqs : sq2[x].computed = sq[x].computed /\ sq2[x].len = sq[x].len
    PROVE  Computed(p, sq2, o) = Computed(p, sq, o)
  BY DEF Computed, Least

\* While a migration runs nothing else moves.
Still == /\ phase' = phase /\ kv' = kv /\ waiting' = waiting /\ running' = running
         /\ out' = out /\ pending' = pending /\ phase \in {"idle", "worker"}

\* A migrated sequence that keeps no blocks disturbs nobody.
LEMMA MigratedQuietly ==
    ASSUME EngineInv, NEW s \in Seqs, seq[s].status = "new", Still,
           seq' = Relabel(seq, s, "finished"), entries' = entries,
           Core(mem', Tables(seq), Slots(seq), Computed(phase, seq, out), lost')
    PROVE  SettledNext
  <1>1. /\ phase' = phase /\ kv' = kv /\ waiting' = waiting /\ running' = running
        /\ out' = out /\ pending' = pending /\ phase \in {"idle", "worker"}
        /\ entries' = entries
    BY DEF Still
  <1>2. /\ seq' \in [Seqs -> SeqRecs]
        /\ \A x \in Seqs : /\ seq'[x].table = seq[x].table /\ seq'[x].slots = seq[x].slots
                           /\ seq'[x].computed = seq[x].computed /\ seq'[x].len = seq[x].len
                           /\ x # s => seq'[x] = seq[x]
        /\ seq'[s].status = "finished"
    <2>1. seq \in [Seqs -> SeqRecs] /\ "finished" \in Statuses
      BY ONLY EngineInv, InvFacts DEF Statuses
    <2> QED BY <2>1, RelabelFacts
  <1>3. Shape(phase', kv', seq', waiting', running', out', pending', entries')
    BY ONLY EngineInv, <1>1, <1>2, InvFacts DEF Shape
  <1>4. Core(mem', Tables(seq'), Slots(seq'), Computed(phase', seq', out'), lost')
    <2>1. Tables(seq') = Tables(seq) /\ Slots(seq') = Slots(seq)
      BY <1>2, SameColumns
    <2>2. Computed(phase', seq', out') = Computed(phase, seq, out)
      BY ONLY <1>1, <1>2, SameComputed
    <2> QED BY <2>1, <2>2
  <1>5. /\ seq[s].table = <<>> /\ s \notin ToSet(running) /\ s \notin ToSet(pending.seqs)
        /\ \A k \in Keys : entries[k] # s
    BY Untabled
  <1>6. /\ ToSet(running) \subseteq Seqs /\ ToSet(waiting) \subseteq Seqs
        /\ ToSet(pending.seqs) \subseteq Seqs
    BY ONLY EngineInv, InvFacts, ElementsIn DEF Pendings
  <1>7. Owners(phase', seq', running', pending', entries')
    <2>1. Owned(phase', seq', running', pending', entries')
      BY ONLY EngineInv, <1>1, <1>2, <1>5, ListFacts DEF Owned
    <2>2. Fitting(seq', running')
      BY ONLY EngineInv, <1>1, <1>2, <1>5, <1>6, ListFacts DEF Fitting, Active
    <2>3. Leaving(seq', running', pending')
      BY ONLY EngineInv, <1>1, <1>2, <1>5, <1>6, ListFacts DEF Leaving
    <2>4. Retained(seq', running', pending', entries')
      <3>1. \A k \in Keys : entries[k] # None => entries[k] \in Seqs \ {s}
        BY ONLY EngineInv, <1>5, InvFacts
      <3> QED BY <1>1, <1>2, <3>1, ListFacts DEF Retained
    <2> QED BY ONLY <2>1, <2>2, <2>3, <2>4 DEF Owners
  <1>8. Queues(phase', seq', waiting', running', out')
    <2>1. s \notin ToSet(waiting)
      BY ListFacts
    <2>2. \A x \in ToSet(waiting) \cup ToSet(running) : seq'[x] = seq[x]
      BY ONLY <1>2, <1>5, <1>6, <2>1
    <2>3. /\ \A x \in ToSet(waiting') : seq'[x].status = "waiting"
          /\ \A x \in ToSet(running') : Active(seq'[x])
      BY <1>1, <2>2, ListFacts
    <2>4. \A x \in Batched(out) : seq'[x].slots = seq[x].slots /\ seq'[x].len = seq[x].len
      BY <1>2, ListFacts
    <2>5. /\ phase = "worker" => Batched(out) \subseteq ToSet(running)
          /\ phase = "worker" => \A x \in Batched(out) : seq[x].slots = seq[x].len
      BY InvFacts DEF Queues
    <2> QED BY ONLY EngineInv, <1>1, <2>3, <2>4, <2>5, ListFacts DEF Queues, Scheduling
  <1> QED BY ONLY <1>3, <1>4, <1>7, <1>8 DEF SettledNext, Settled

\* The copies to the CPU are only cached: when they are made nothing refers to
\* them any more, and when room runs out the references that were taken stay.
LEMMA MigrateToCpuStep ==
    ASSUME EngineInv, NEW s \in Seqs, seq[s].status = "new", Still, MigrateToCpu(s)
    PROVE  SettledNext
  <1> DEFINE hs == Hashes(s, Floor(seq[s].len))
             k == CeilDiv(Floor(seq[s].len), BlockSize)
             a == Allocate(mem, Cpu, hs)
             S == ToSet(a.table)
             T == Tables(seq)
             n == Slots(seq)
             c == Computed(phase, seq, out)
             m1 == [a.m EXCEPT !.comp = @ \cup S]
  <1>1. /\ mem' = IF a.ok THEN Release(Touch(m1, S, Now), S) ELSE a.m
        /\ lost' = IF a.ok THEN lost ELSE AddLost(S)
        /\ seq' = Relabel(seq, s, "finished") /\ entries' = entries
    BY DEF MigrateToCpu, Relabel
  <1>2. Floor(seq[s].len) \in Nat
    <2>1. seq[s].len \in Nat
      BY ONLY EngineInv, InvFacts, SeqFacts
    <2> DEFINE x == seq[s].len
    <2> HIDE DEF x
    <2>2. x \div BlockSize \in Nat
      BY <2>1, Blocking DEF x
    <2>3. (x \div BlockSize) * BlockSize \in Nat
      BY ONLY <2>2, Scaling
    <2> QED BY <2>3 DEF Floor, x
  <1>3. HashList(hs, k) /\ k \in Nat
    BY <1>2, InvFacts, HashesFacts, Blocking
  <1>4. Core(mem, T, n, c, lost) /\ Setting /\ lost \in [Blocks -> Nat]
    BY InvFacts
  <1> HIDE DEF hs, k, T, n, c
  <1>5. a \in Accs /\ a.table \in Seq(Cpu) /\ Core(a.m, T, n, c, More(lost, S))
    <2>1. Grown(Allocate(mem, Cpu, hs), Cpu, hs, k, T, n, c, lost)
      BY ONLY <1>3, <1>4, BlockFacts, AllocateFacts
    <2> QED BY <2>1 DEF Grown
  <1>6. S \subseteq Blocks
    BY ONLY <1>4, <1>5, ElementsIn, BlockFacts
  <1> HIDE DEF a, S
  <1>7. Core(mem', T, n, c, lost')
    <2>1. CASE ~a.ok
      <3>1. lost' = More(lost, S)
        BY ONLY <1>1, <2>1 DEF AddLost, More
      <3> QED BY ONLY <1>1, <1>5, <2>1, <3>1
    <2>2. CASE a.ok
      <3>1. \A b \in S : a.m.ref[b] > 0
        <4>1. \A b \in S : More(lost, S)[b] >= 1
          BY <1>4, <1>6, AllFewer
        <4>2. \A b \in S : More(lost, S)[b] \in Nat
          BY <1>4, <1>6, MoreFewer
        <4> DEFINE l1 == More(lost, S)
        <4> HIDE DEF l1
        <4>3. \A b \in Blocks : l1[b] <= a.m.ref[b] /\ a.m.ref[b] \in Nat
          BY <1>4, <1>5, CoreRefs DEF l1
        <4> QED BY <1>6, <4>1, <4>2, <4>3 DEF l1
      <3>2. Core(m1, T, n, c, More(lost, S))
        BY <1>4, <1>5, <1>6, <3>1, CoreHeldMark
      <3> HIDE DEF m1
      <3>3. m1 \in Mems /\ \A b \in m1.comp : m1.ref[b] > 0
        BY <3>2 DEF Core, Sound
      <3>4. Now \in Int
        BY InvFacts, StampFacts
      <3> DEFINE m2 == Touch(m1, S, Now)
      <3>5. Marks(m1, m2)
        BY <3>3, <3>4, TouchMarks
      <3> HIDE DEF m2
      <3>6. Core(m2, T, n, c, More(lost, S))
        BY <1>4, <3>2, <3>5, CoreMark
      <3>7. Core(Release(m2, S), T, n, c, More(lost, S \ S))
        BY <1>4, <1>6, <3>6, CoreGiveBack
      <3>8. More(lost, S \ S) = lost
        <4>1. S \ S = {}
          OBVIOUS
        <4> QED BY <1>4, <4>1, MoreFewer
      <3> QED BY <1>1, <2>2, <3>7, <3>8 DEF m2
    <2> QED BY ONLY <2>1, <2>2
  <1> QED BY <1>1, <1>7, MigratedQuietly DEF T, n, c

-----------------------------------------------------------------------------
(***************************************************************************)
(* Migrations to the GPU.                                                  *)
(***************************************************************************)
\* s starts again with table t, x slots and what else q says.
Renewed(sq, sq2, s, st, t, x, y) ==
    /\ sq2 \in [Seqs -> SeqRecs] /\ \A z \in Seqs \ {s} : sq2[z] = sq[z]
    /\ sq2[s].status = st /\ sq2[s].table = t /\ sq2[s].slots = x
    /\ sq2[s].computed = y /\ sq2[s].len = sq[s].len

\* Dropping the entry of key k empties its owner's table, if there is one.
Dropped(sq, sq2, k) ==
    /\ sq2 \in [Seqs -> SeqRecs]
    /\ \A x \in Seqs : /\ sq2[x].status = sq[x].status /\ sq2[x].len = sq[x].len
                       /\ sq2[x].computed = sq[x].computed
                       /\ x # entries[k] => sq2[x] = sq[x]
                       /\ x = entries[k] => sq2[x].table = <<>> /\ sq2[x].slots = 0

\* DropOwner does that.
LEMMA DropOwnerDrops ==
    ASSUME NEW sq \in [Seqs -> SeqRecs], NEW k
    PROVE  Dropped(sq, DropOwner(sq, k), k)
  BY DropOwnerFacts DEF Dropped

\* A block table of as many blocks as the tokens need is not empty.
LEMMA GivenTable ==
    ASSUME NEW w, NEW x \in Nat \ {0}, Given(w, x), w.ok
    PROVE  w.table # <<>> /\ Covers(Len(w.table), x)
  <1>1. /\ CeilDiv(x, BlockSize) \in Nat /\ CeilDiv(x, BlockSize) > 0
        /\ x <= CeilDiv(x, BlockSize) * BlockSize
        /\ (CeilDiv(x, BlockSize) - 1) * BlockSize < x
    BY Blocking
  <1>2. Len(w.table) = CeilDiv(x, BlockSize) /\ w.table \in Seq(Gpu)
    BY DEF Given
  <1> QED BY <1>1, <1>2 DEF Covers

\* The whole prompt gets blocks, and the sequence replaces the owner of its
\* key's entry; or the allocation fails, and what it took stays referenced.
LEMMA MigrateToGpuStep ==
    ASSUME EngineInv, NEW s \in Seqs, seq[s].status = "new", Still, MigrateToGpu(s)
    PROVE  SettledNext
  <1> DEFINE k == info[s].key
             w == AllocateSeq(s, FALSE)
             x == seq[s].len
             T == Tables(seq)
             n == Slots(seq)
             c == Computed(phase, seq, out)
             v == [seq[s] EXCEPT !.status = "finished", !.table = w.table,
                                 !.slots = x, !.memo = w.cached]
             sq == [seq EXCEPT ![s] = v]
  <1>1. /\ w.ok => /\ mem' = DropEntry(w.m, k) /\ seq' = DropOwner(sq, k)
                   /\ entries' = [entries EXCEPT ![k] = s] /\ lost' = lost
        /\ ~w.ok => /\ mem' = w.m /\ lost' = AddLost(w.held \cup ToSet(w.table))
                    /\ seq' = Relabel(seq, s, "finished") /\ entries' = entries
    BY DEF MigrateToGpu, Relabel
  <1>2. /\ phase' = phase /\ kv' = kv /\ waiting' = waiting /\ running' = running
        /\ out' = out /\ pending' = pending /\ phase \in {"idle", "worker"}
    BY DEF Still
  <1>3. /\ Core(mem, T, n, c, lost) /\ Setting /\ lost \in [Blocks -> Nat]
        /\ x \in Nat \ {0} /\ seq \in [Seqs -> SeqRecs] /\ k \in Keys
    <2>1. info[s].prompt \in Nat \ {0}
      <3>1. info[s] \in Job
        BY InvFacts, HashFacts
      <3> QED BY <3>1 DEF Job
    <2>2. x \in Nat /\ info[s].prompt <= x
      BY InvFacts, SeqFacts
    <2> QED BY ONLY EngineInv, <2>1, <2>2, InvFacts
  <1>4. /\ seq[s].table = <<>> /\ s \notin ToSet(running) /\ s \notin ToSet(pending.seqs)
        /\ \A e \in Keys : entries[e] # s
    BY Untabled
  <1>5. seq[s].computed = 0
    <2>1. Fitting(seq, running)
      BY ListFacts
    <2> QED BY <2>1 DEF Fitting
  <1>6. Given(w, x) /\ Core(w.m, T, n, c, More(lost, ToSet(w.table) \cup w.held))
    <2> HIDE DEF T, n, c, w
    <2> QED BY <1>3, AllocateSeqFacts DEF w
  <1>7. CASE ~w.ok
    <2>1. lost' = More(lost, ToSet(w.table) \cup w.held)
      BY <1>1, <1>7 DEF AddLost, More
    <2>2. Core(mem', T, n, c, lost')
      BY <1>1, <1>6, <1>7, <2>1
    <2> HIDE DEF w, x
    <2> QED BY <1>1, <1>7, <2>2, MigratedQuietly
  <1>8. CASE w.ok
    <2>1. /\ w.table \in Seq(Gpu) /\ w.table \in Seq(Blocks) /\ w.table # <<>> /\ w.cached \in Int
          /\ ToSet(w.table) \subseteq Gpu
      <3>1. w.table \in Seq(Gpu) /\ w.cached \in Nat
        BY <1>6 DEF Given
      <3>2. w.table # <<>>
        BY <1>3, <1>6, <1>8, GivenTable
      <3>3. Gpu \subseteq Blocks
        BY <1>3, BlockFacts
      <3> HIDE DEF w
      <3> QED BY <3>1, <3>2, <3>3, ElementsIn
    <2> HIDE DEF w
    <2>2. Renewed(seq, sq, s, "finished", w.table, x, 0)
      <3>1. seq[s] \in SeqRecs
        BY ONLY <1>3
      <3>2. /\ v \in SeqRecs /\ v.status = "finished" /\ v.table = w.table /\ v.slots = x
            /\ v.computed = 0 /\ v.len = x
        BY <1>3, <1>5, <2>1, <3>1 DEF SeqRecs, Statuses
      <3> HIDE DEF v
      <3> QED BY <1>3, <3>2 DEF Renewed
    <2> HIDE DEF sq, v
    <2>3. Dropped(sq, seq', k) /\ seq' = DropOwner(sq, k) /\ sq \in [Seqs -> SeqRecs]
      BY <1>1, <1>8, <2>2, DropOwnerDrops DEF Renewed
    <2>4. entries[k] # s /\ entries[k] \in Seqs \cup {None} /\ None \notin Seqs
      BY ONLY EngineInv, <1>3, <1>4, InvFacts
    <2>5. /\ seq' \in [Seqs -> SeqRecs]
          /\ seq'[s].status = "finished" /\ seq'[s].table = w.table /\ seq'[s].slots = x
          /\ seq'[s].computed = 0 /\ seq'[s].len = x
          /\ \A z \in Seqs : /\ seq'[z].len = seq[z].len /\ seq'[z].computed = seq[z].computed
                             /\ z # s => seq'[z].status = seq[z].status
                             /\ z # s /\ z # entries[k] => seq'[z] = seq[z]
                             /\ z = entries[k] => seq'[z].table = <<>>
      BY <1>5, <2>2, <2>3, <2>4 DEF Renewed, Dropped
    <2>6. Shape(phase', kv', seq', waiting', running', out', pending', entries')
      <3>1. entries' \in [Keys -> Seqs \cup {None}]
        BY <1>1, <1>8, InvFacts
      <3> QED BY ONLY EngineInv, <1>2, <2>5, <3>1, InvFacts DEF Shape
    <2>7. Core(mem', Tables(seq'), Slots(seq'), Computed(phase', seq', out'), lost')
      <3> DEFINE T2 == Tables(sq)
                 n2 == Slots(sq)
                 c2 == Computed(phase, sq, out)
      <3>1. c2 = c /\ Computed(phase', seq', out') = c
        <4>1. \A z \in Seqs : sq[z].computed = seq[z].computed /\ sq[z].len = seq[z].len
          BY <1>5, <2>2 DEF Renewed
        <4>2. c2 = c
          BY <4>1, SameComputed
        <4>3. Computed(phase, seq', out) = c
          BY <2>5, SameComputed
        <4> QED BY <1>2, <4>2, <4>3
      <3>2. c[s] = 0
        <4>1. s \notin Batched(out) \/ phase = "idle"
          BY <1>2, <1>4, InvFacts DEF Queues
        <4> QED BY <1>2, <1>5, <4>1 DEF Computed
      <3>3. Filled(T, n, c, T2, n2, c2, s, x) /\ T2[s] = w.table
        <4>1. T2 \in [Seqs -> Seq(Blocks)] /\ T2[s] = w.table /\ n2[s] = x /\ T[s] = <<>>
          BY ONLY <1>3, <1>4, <2>2, <2>3, Columns DEF Renewed
        <4>2. Alike(T, T2, s) /\ Alike(n, n2, s)
          BY <2>2 DEF Renewed, Alike, Tables, Slots
        <4> HIDE DEF T, T2, n, n2, c, c2
        <4>3. Alike(c, c2, s) /\ c2[s] = 0
          BY <3>1, <3>2 DEF Alike
        <4> QED BY <4>1, <4>2, <4>3 DEF Filled
      <3>4. Core(w.m, Tables(sq), Slots(sq), c, lost)
        <4> HIDE DEF T, n, c, T2, n2, c2, x
        <4>1. Core(w.m, T2, n2, c2, lost)
          BY <1>3, <1>8, <3>3, AllocateSeqSeats DEF w, x
        <4> QED BY <3>1, <4>1 DEF T2, n2
      <3>5. entries[k] # None => sq[entries[k]].table = seq[entries[k]].table
        BY <2>2, <2>4 DEF Renewed
      <3> HIDE DEF c, T2, n2, c2, T, n, k
      <3>6. Core(DropEntry(w.m, k), Tables(DropOwner(sq, k)), Slots(DropOwner(sq, k)), c, lost)
        BY <1>3, <2>3, <2>4, <3>4, <3>5, DropEntryCore
      <3> QED BY <1>1, <1>8, <2>3, <3>1, <3>6
    <2>8. /\ entries'[k] = s /\ \A e \in Keys \ {k} : entries'[e] = entries[e]
      BY ONLY EngineInv, <1>1, <1>3, <1>8, InvFacts
    <2>9. entries[k] \notin ToSet(running) /\ entries[k] \notin ToSet(pending.seqs)
      BY <1>3, <2>4, ListFacts DEF Retained
    <2>10. \A z \in ToSet(running) \cup ToSet(waiting) : seq'[z] = seq[z] /\ z \in Seqs
      <3>1. \A z \in ToSet(waiting) : z # s /\ z # entries[k]
        <4>1. entries[k] # None => seq[entries[k]].status = "finished"
          BY ONLY EngineInv, <1>3, ListFacts DEF Retained
        <4> QED BY <2>4, <4>1, ListFacts
      <3> QED BY <1>4, <2>5, <2>9, <3>1, ListFacts
    <2>11. Owners(phase', seq', running', pending', entries')
      <3>1. Owned(phase', seq', running', pending', entries')
        <4> SUFFICES ASSUME NEW z \in Seqs, seq'[z].table # <<>>
                     PROVE  \/ Active(seq'[z]) \/ entries'[info[z].key] = z
                            \/ z \in ToSet(pending.seqs)
          BY <1>2 DEF Owned
        <4>1. CASE z = s
          BY ONLY <2>8, <4>1
        <4>2. CASE z # s
          <5>1. z # entries[k] /\ seq'[z] = seq[z]
            BY <2>5, <4>2
          <5>2. \/ Active(seq[z]) \/ entries[info[z].key] = z \/ z \in ToSet(pending.seqs)
            BY <1>2, <5>1, ListFacts DEF Owned
          <5>3. info[z].key \in Keys
            BY ONLY EngineInv, InvFacts
          <5> QED BY ONLY <2>8, <5>1, <5>2, <5>3
        <4> QED BY ONLY <4>1, <4>2
      <3>2. Fitting(seq', running')
        <4>1. \A z \in Seqs : Active(seq'[z]) => seq'[z] = seq[z]
          <5> SUFFICES ASSUME NEW z \in Seqs, Active(seq'[z]) PROVE seq'[z] = seq[z]
            OBVIOUS
          <5>1. z # s
            BY <2>5 DEF Active
          <5>2. z = entries[k] => seq[z].status = "finished"
            BY <1>3, <2>4, ListFacts DEF Retained
          <5> QED BY <2>5, <5>1, <5>2 DEF Active
        <4>2. \A z \in Seqs : seq'[z].status = "new" => seq[z].status = "new"
          BY <2>5
        <4>3. Fitting(seq, running) /\ running' = running
          BY <1>2, ListFacts
        <4>4. \A z \in ToSet(running) : seq'[z] = seq[z]
          BY <2>10
        <4>5. \A z \in Seqs : seq'[z].computed = seq[z].computed
          BY <2>5
        <4> QED BY ONLY <4>1, <4>2, <4>3, <4>4, <4>5 DEF Fitting
      <3>3. Leaving(seq', running', pending')
        <4>1. \A z \in ToSet(pending.seqs) : seq'[z] = seq[z]
          BY <1>4, <2>5, <2>9, ListFacts
        <4>2. ToSet(<<>>) = {}
          BY DEF ToSet
        <4>3. \A z \in Seqs : z \notin ToSet(pending.seqs) => ToSet(seq'[z].table) \subseteq Gpu
          BY <2>1, <2>5, <4>2, ListFacts DEF Leaving
        <4> QED BY <1>2, <4>1, <4>3, ListFacts DEF Leaving
      <3>4. Retained(seq', running', pending', entries')
        <4> SUFFICES ASSUME NEW e \in Keys, entries'[e] # None
                     PROVE  /\ info[entries'[e]].key = e
                            /\ seq'[entries'[e]].status = "finished"
                            /\ seq'[entries'[e]].table # <<>>
                            /\ entries'[e] \notin ToSet(running)
                            /\ entries'[e] \notin ToSet(pending.seqs)
          BY <1>2 DEF Retained
        <4>1. CASE e = k
          BY ONLY <1>4, <2>1, <2>5, <2>8, <4>1
        <4>2. CASE e # k
          <5>1. entries'[e] = entries[e]
            BY ONLY <2>8, <4>2
          <5>2. /\ info[entries[e]].key = e
                /\ seq[entries[e]].status = "finished" /\ seq[entries[e]].table # <<>>
                /\ entries[e] \notin ToSet(running) /\ entries[e] \notin ToSet(pending.seqs)
            BY <5>1, ListFacts DEF Retained
          <5>3. entries[e] \in Seqs /\ entries[e] # s
            BY <1>4, <5>1, InvFacts
          <5>4. entries[e] # entries[k]
            BY <1>3, <2>4, <4>2, <5>2, <5>3, ListFacts DEF Retained
          <5> QED BY <2>5, <5>1, <5>2, <5>3, <5>4
        <4> QED BY ONLY <4>1, <4>2
      <3> QED BY ONLY <3>1, <3>2, <3>3, <3>4 DEF Owners
    <2>12. Queues(phase', seq', waiting', running', out')
      <3>1. /\ \A z \in ToSet(waiting') : seq'[z].status = "waiting"
            /\ \A z \in ToSet(running') : Active(seq'[z])
        BY ONLY EngineInv, <1>2, <2>10, ListFacts
      <3>2. /\ phase = "worker" => Batched(out) \subseteq ToSet(running)
            /\ phase = "worker" => \A z \in Batched(out) : seq[z].slots = seq[z].len
        BY InvFacts DEF Queues
      <3>3. phase = "worker" => \A z \in Batched(out) : seq'[z] = seq[z]
        BY <2>10, <3>2
      <3> QED BY ONLY EngineInv, <1>2, <3>1, <3>2, <3>3, ListFacts DEF Queues, Scheduling
    <2> QED BY <2>6, <2>7, <2>11, <2>12 DEF SettledNext, Settled
  <1> QED BY <1>7, <1>8

-----------------------------------------------------------------------------
(***************************************************************************)
(* The running queue.                                                      *)
(***************************************************************************)
\* A scheduled chunk has an integral size, and cached tokens are counted.
LEMMA NewTokensFacts ==
    ASSUME EngineInv, NEW s \in Seqs, NEW c \in Int
    PROVE  NewTokens(s, c).new \in Int /\ NewTokens(s, c).cached \in Nat
  <1>1. seq[s].len \in Nat /\ seq[s].computed \in Nat /\ seq[s].computed <= seq[s].len
    BY InvFacts, SeqFacts
  <1>2. out.used \in Int /\ TokenBudget \in Nat
    BY InvFacts, EngineAssumption DEF Outs
  <1> DEFINE rest == seq[s].len - seq[s].computed
             hit == Least(Most(0, c - seq[s].computed), rest)
  <1>3. rest \in Nat /\ hit \in Nat
    BY <1>1 DEF Least, Most
  <1>4. ASSUME NEW k \in Int PROVE Chunk(k) \in Int
    <2> DEFINE d == TokenBudget - out.used
               b == BlockSize
    <2>1. d \in Int /\ b \in Nat \ {0}
      BY <1>2, EngineAssumption
    <2> HIDE DEF d, b
    <2>2. (d \div b) \in Int
      BY <2>1
    <2>3. (d \div b) * b \in Int
      BY <2>1, <2>2
    <2> QED BY <2>3 DEF Chunk, Least, Floor, d, b
  <1>5. Chunk(1) \in Int /\ Chunk(rest - hit) \in Int
    <2>1. 1 \in Int /\ rest - hit \in Int
      BY <1>3
    <2> HIDE DEF rest, hit
    <2> QED BY <1>4, <2>1
  <1>6. NewTokens(s, c) = IF seq[s].status = "decode" THEN [new |-> Chunk(1), cached |-> 0]
                          ELSE IF rest = hit /\ hit > 0
                               THEN [new |-> Chunk(1), cached |-> hit - 1]
                               ELSE [new |-> Chunk(rest - hit), cached |-> hit]
    BY DEF NewTokens
  <1> HIDE DEF rest, hit
  <1> QED BY <1>3, <1>5, <1>6

\* A table of GPU blocks.
LEMMA OnGpu ==
    ASSUME EngineInv, NEW s \in Seqs, s \notin ToSet(pending.seqs)
    PROVE  seq[s].table \in Seq(Gpu) /\ ToSet(seq[s].table) \subseteq Gpu
  <1>1. seq[s].table \in Seq(Blocks)
    BY InvFacts, SeqFacts
  <1>2. ToSet(seq[s].table) \subseteq Gpu
    BY ListFacts DEF Leaving
  <1>3. seq[s].table \in Seq(ToSet(seq[s].table))
    BY <1>1, ElementsIn
  <1> QED BY <1>2, <1>3

\* The table after the slots are appended is a list of blocks.
LEMMA AppendSlotsTyped ==
    ASSUME Setting, Sound(mem), NEW s \in Seqs, seq[s].table \in Seq(Blocks),
           seq[s].table # <<>>
    PROVE  AppendSlots(s).table \in Seq(Blocks)
  <1> DEFINE a0 == Building(mem, Gpu, seq[s].table)
             a1 == Room(s)
             t1 == a1.table
             h == Hash(s, Len(t1))
             tail == Last(t1)
             same == Holders(a1.m, Gpu, h)
             d == CHOOSE b \in same : TRUE
             r1 == [a1 EXCEPT !.m = Release(a1.m, {tail}), !.table = Front(t1)]
  <1>1. /\ a0 \in Accs /\ a0.m = mem /\ a0.dev = Gpu /\ a0.table = seq[s].table /\ a0.ok
    <2>1. mem \in Mems
      BY DEF Sound
    <2> QED BY <2>1, BlockFacts DEF Building, Accs
  <1>2. a1 = a0 \/ a1 = NewBlock(a0, NoHash)
    BY DEF Room
  <1>3. AppendSlots(s) = IF seq[s].len = seq[s].slots \/ seq[s].len % BlockSize # 0 THEN a1
            ELSE IF same = {}
                 THEN [a1 EXCEPT !.m.hash[tail] = h] ELSE Reuse(r1, d)
    BY DEF AppendSlots, Room
  <1> HIDE DEF a0, a1
  <1>4. Joins(a0, NewBlock(a0, NoHash), NoHash) \/ Fails(a0, NewBlock(a0, NoHash))
    BY <1>1, HashFacts, NewBlockFacts
  <1>5. a1 \in Accs /\ t1 \in Seq(Blocks) /\ t1 # <<>>
    <2>1. CASE a1 = a0
      BY <1>1, <2>1
    <2>2. CASE a1 = NewBlock(a0, NoHash) /\ Fails(a0, NewBlock(a0, NoHash))
      BY <1>1, <2>2 DEF Fails
    <2>3. CASE a1 = NewBlock(a0, NoHash) /\ Joins(a0, NewBlock(a0, NoHash), NoHash)
      <3>1. a1 \in Accs /\ \E b \in a0.dev : t1 = Append(a0.table, b)
        BY <2>3 DEF Joins
      <3>2. Gpu \subseteq Blocks
        BY BlockFacts
      <3> QED BY <1>1, <3>1, <3>2
    <2> QED BY <1>2, <1>4, <2>1, <2>2, <2>3
  <1> HIDE DEF h, tail
  <1>6. CASE AppendSlots(s) = a1
    BY <1>5, <1>6
  <1>7. CASE AppendSlots(s) = [a1 EXCEPT !.m.hash[tail] = h]
    BY <1>5, <1>7 DEF Accs
  <1>8. CASE AppendSlots(s) = Reuse(r1, d) /\ same # {}
    <2>1. d \in Blocks
      <3>1. d \in same
        <4> HIDE DEF same
        <4> QED BY <1>8, Zenon
      <3> HIDE DEF d
      <3> QED BY <3>1, BlockFacts DEF Holders
    <2>2. Front(t1) \in Seq(Blocks)
      <3> HIDE DEF t1
      <3> QED BY <1>5, FrontSet
    <2>3. r1 = [a1 EXCEPT !.m = Release(a1.m, {tail}), !.table = Front(t1)]
      OBVIOUS
    <2>4. DOMAIN a1 = {"m", "dev", "table", "ok"} /\ a1 = [m |-> a1.m, dev |-> a1.dev, table |-> a1.table, ok |-> a1.ok]
      BY <1>5 DEF Accs
    <2> HIDE DEF d
    <2> DEFINE f == Front(t1)
               m1 == Release(a1.m, {tail})
    <2>5. r1.table = f
      BY <2>4
    <2> HIDE DEF f
    <2>6. Reuse(r1, d).table = Append(f, d)
      <3>1. DOMAIN r1 = {"m", "dev", "table", "ok"}
        <4> HIDE DEF m1
        <4> QED BY ONLY <2>4
      <3> HIDE DEF r1, m1
      <3> QED BY <2>5, <3>1 DEF Reuse
    <2> QED BY <1>8, <2>1, <2>2, <2>6 DEF f
  <1> QED BY <1>3, <1>6, <1>7, <1>8

\* What the head of the running queue gets: its slots, and a place in the batch.
LEMMA RunHeadStep ==
    ASSUME EngineInv, RunHead
    PROVE  SettledNext
  <1> DEFINE s == Head(running)
             k == NewTokens(s, seq[s].memo).new
             a == AppendSlots(s)
             t == seq[s].table
             x == seq[s].slots
             y == seq[s].len
             v == [seq[s] EXCEPT !.table = a.table, !.slots = y]
  <1>1. /\ phase = "running" /\ running # <<>> /\ k > 0 /\ CanAppend(s)
        /\ mem' = a.m /\ running' = Tail(running)
        /\ phase' = phase /\ kv' = kv /\ waiting' = waiting
        /\ pending' = pending /\ entries' = entries /\ lost' = lost
    BY DEF RunHead
  <1>2. /\ s \in Seqs /\ Active(seq[s]) /\ running' \in Seq(Seqs) /\ IsInjective(running')
        /\ ToSet(running) = ToSet(running') \cup {s} /\ s \notin ToSet(running')
    <2>1. running \in Seq(Seqs) /\ IsInjective(running)
      BY InvFacts, ListFacts
    <2>2. /\ s \in Seqs /\ running' \in Seq(Seqs) /\ IsInjective(running') /\ s \in ToSet(running)
          /\ ToSet(running) = ToSet(running') \cup {s} /\ s \notin ToSet(running')
      BY <1>1, <2>1, TailSet
    <2>3. Active(seq[s])
      BY <1>1, <2>2, ListFacts
    <2> QED BY <2>2, <2>3
  <1>3. s \notin ToSet(waiting) /\ s \notin ToSet(pending.seqs)
        /\ \A e \in Keys : entries[e] # s
    <2>1. seq[s].status # "finished" /\ seq[s].status # "waiting" /\ s # None
      BY <1>2, InvFacts DEF Active
    <2>2. \A e \in Keys : entries[e] # s
      BY <2>1, ListFacts DEF Retained
    <2>3. s \notin ToSet(pending.seqs)
      BY <2>1, ListFacts DEF Leaving
    <2> QED BY <2>1, <2>2, <2>3, ListFacts
  <1> HIDE DEF s
  <1>4. k \in Nat
    <2>1. seq[s].memo \in Int
      BY <1>2, InvFacts, SeqFacts
    <2>2. k \in Int
      BY ONLY EngineInv, <1>2, <2>1, NewTokensFacts
    <2> QED BY <1>1, <2>2
  <1> HIDE DEF k
  <1>5. /\ seq' = [seq EXCEPT ![s] = v]
        /\ out' = [out EXCEPT !.chunk[s] = k, !.used = @ + k,
                              ![IF seq[s].status = "decode"
                                THEN "decodes" ELSE "prefills"] = Append(@, s)]
    BY DEF RunHead, s, k
  <1>6. /\ t \in Seq(Gpu) /\ x \in Nat /\ y \in Nat \ {0} /\ x <= y /\ y <= x + 1
        /\ Covers(Len(t), x) /\ seq[s].computed \in Nat /\ seq[s].computed <= x
        /\ seq \in [Seqs -> SeqRecs]
    <2>1. Fitted(seq[s])
      BY <1>2, ListFacts DEF Fitting
    <2>2. t \in Seq(Gpu)
      BY <1>2, <1>3, OnGpu
    <2>3. x \in Nat /\ y \in Nat /\ seq[s].computed \in Nat
      BY <1>2, InvFacts, SeqFacts
    <2>4. info[s].prompt \in Nat \ {0}
      <3>1. info[s] \in Job
        BY <1>2, InvFacts, HashFacts
      <3> QED BY <3>1 DEF Job
    <2>5. info[s].prompt <= y
      BY <1>2, InvFacts
    <2> QED BY <2>1, <2>2, <2>3, <2>4, <2>5, InvFacts DEF Fitted, Covers
  <1> DEFINE T == Tables(seq)
             n == Slots(seq)
             c == Counts(seq)
             T2 == [T EXCEPT ![s] = a.table]
             n2 == [n EXCEPT ![s] = y]
  <1>7. /\ a.table \in Seq(Gpu) /\ Covers(Len(a.table), y) /\ Core(a.m, T2, n2, c, lost)
        /\ a.table \in Seq(Blocks)
    <2>1. Core(mem, T, n, c, lost) /\ Setting
      <3>1. Computed(phase, seq, out) = c
        BY <1>1, ComputedIdle
      <3> QED BY <3>1, InvFacts
    <2>2. Appending(T, n, c, s, t, x, y)
      BY <1>2, <1>6 DEF Appending, Tables, Slots, Counts
    <2>3. T \in [Seqs -> Seq(Blocks)] /\ n \in [Seqs -> Nat]
      BY <1>6, Columns
    <2>4. a.table \in Seq(Blocks)
      <3>1. Sound(mem) /\ seq[s].table \in Seq(Blocks) /\ seq[s].table # <<>>
        <4>1. Fitted(seq[s])
          BY <1>2, ListFacts DEF Fitting
        <4> QED BY ONLY EngineInv, <1>2, <4>1, InvFacts, SeqFacts DEF Fitted
      <3> HIDE DEF T, n, c, x, y
      <3> QED BY <1>2, <2>1, <3>1, AppendSlotsTyped
    <2> HIDE DEF T, n, c, t, a
    <2>5. /\ T2 \in [Seqs -> Seq(Blocks)] /\ Alike(T, T2, s) /\ T2[s] = a.table
          /\ Alike(n, n2, s) /\ n2[s] = y
      BY <1>2, <2>3, <2>4 DEF Alike
    <2> HIDE DEF T2, n2, x, y
    <2>6. a.table \in Seq(Gpu) /\ Covers(Len(a.table), y) /\ Core(a.m, T2, n2, c, lost)
      BY <1>1, <1>2, <2>1, <2>2, <2>5, AppendSlotsCore DEF a
    <2> QED BY <2>4, <2>6
  <1> HIDE DEF a
  <1>8. /\ v \in SeqRecs /\ v.table = a.table /\ v.slots = y /\ v.len = y
        /\ v.status = seq[s].status /\ v.computed = seq[s].computed
    BY <1>2, <1>6, <1>7 DEF SeqRecs
  <1> HIDE DEF v
  <1>9. seq' \in [Seqs -> SeqRecs] /\ seq'[s] = v /\ \A z \in Seqs \ {s} : seq'[z] = seq[z]
    BY <1>2, <1>5, <1>6, <1>8
  <1>10. Fitted(v)
    <2>1. (Len(a.table) - 1) * BlockSize < y /\ y <= Len(a.table) * BlockSize /\ Len(a.table) \in Nat
      BY <1>7 DEF Covers
    <2>2. a.table # <<>>
      <3>1. Len(a.table) # 0
        <4> SUFFICES ASSUME Len(a.table) = 0 PROVE FALSE
          OBVIOUS
        <4>1. Len(a.table) * BlockSize = 0
          BY EngineAssumption
        <4> QED BY ONLY <1>6, <2>1, <4>1
      <3> QED BY <3>1
    <2> QED BY <1>6, <1>8, <2>1, <2>2 DEF Fitted
  <1>11. \/ /\ seq[s].status = "decode"
            /\ out'.decodes = Append(out.decodes, s) /\ out'.prefills = out.prefills
         \/ /\ seq[s].status = "prefill"
            /\ out'.prefills = Append(out.prefills, s) /\ out'.decodes = out.decodes
    BY <1>2, <1>5, InvFacts DEF Active, Outs
  <1>12. /\ out' \in Outs /\ out'.fresh = out.fresh /\ out'.preempted = out.preempted
    <2> DEFINE ch == [out.chunk EXCEPT ![s] = k]
               u == out.used + k
               ds == Append(out.decodes, s)
               ps == Append(out.prefills, s)
    <2>1. /\ out \in Outs /\ ch \in [Seqs -> Nat] /\ u \in Int
          /\ ds \in Seq(Seqs) /\ ps \in Seq(Seqs)
      BY <1>2, <1>4, InvFacts DEF Outs
    <2>2. CASE seq[s].status = "decode"
      <3>1. out' = [out EXCEPT !.chunk = ch, !.used = u, !.decodes = ds]
        BY <1>5, <2>1, <2>2 DEF Outs
      <3> HIDE DEF ch, u, ds, ps
      <3> QED BY <2>1, <3>1 DEF Outs
    <2>3. CASE seq[s].status # "decode"
      <3>1. out' = [out EXCEPT !.chunk = ch, !.used = u, !.prefills = ps]
        BY <1>5, <2>1, <2>3 DEF Outs
      <3> HIDE DEF ch, u, ds, ps
      <3> QED BY <2>1, <3>1 DEF Outs
    <2> QED BY <2>2, <2>3
  <1>13. Shape(phase', kv', seq', waiting', running', out', pending', entries')
    BY <1>1, <1>2, <1>6, <1>8, <1>9, <1>12, InvFacts DEF Shape
  <1>14. Core(mem', Tables(seq'), Slots(seq'), Computed(phase', seq', out'), lost')
    <2>1. Tables(seq') = T2 /\ Slots(seq') = n2
      BY <1>2, <1>8, <1>9 DEF Tables, Slots
    <2>2. Computed(phase', seq', out') = c
      <3>1. Counts(seq') = c
        BY <1>2, <1>8, <1>9 DEF Counts
      <3> QED BY <1>1, <3>1, ComputedIdle
    <2> QED BY <1>1, <1>7, <2>1, <2>2
  <1>15. Owners(phase', seq', running', pending', entries')
    <2>1. Owned(phase', seq', running', pending', entries')
      BY <1>1, <1>2, <1>8, <1>9, ListFacts DEF Owned, Active
    <2>2. Fitting(seq', running')
      <3>1. \A z \in ToSet(running') : seq'[z] = seq[z] /\ z \in ToSet(running)
        BY <1>2, <1>9, ListFacts
      <3>2. Fitting(seq, running) /\ s \in Seqs
        BY <1>2, ListFacts
      <3> QED BY ONLY <1>2, <1>8, <1>9, <1>10, <3>1, <3>2 DEF Fitting, Active
    <2>3. Leaving(seq', running', pending')
      <3>1. ToSet(seq'[s].table) \subseteq Gpu
        BY <1>7, <1>8, <1>9, ElementsIn
      <3> QED BY ONLY EngineInv, <1>1, <1>2, <1>3, <1>9, <3>1, ListFacts DEF Leaving
    <2>4. Retained(seq', running', pending', entries')
      <3>1. \A e \in Keys : entries[e] # None => entries[e] \in Seqs \ {s}
        BY <1>3, InvFacts
      <3> QED BY ONLY EngineInv, <1>1, <1>2, <1>9, <3>1, ListFacts DEF Retained
    <2> QED BY ONLY <2>1, <2>2, <2>3, <2>4 DEF Owners
  <1>16. Queues(phase', seq', waiting', running', out')
    <2>1. Apart(seq, waiting, running, out)
      BY <1>1, InvFacts DEF Queues, Scheduling
    <2>2. /\ out.decodes \in Seq(Seqs) /\ out.prefills \in Seq(Seqs)
          /\ out.fresh \in Seq(Seqs) /\ out.preempted \in Seq(Seqs)
      BY InvFacts DEF Outs
    <2>3. s \notin Batched(out) /\ s \notin ToSet(out.preempted)
      BY <1>2, <2>1 DEF Apart, Active
    <2>4. s \notin ToSet(out.decodes) /\ s \notin ToSet(out.prefills) /\ s \notin ToSet(out.fresh)
      BY <2>3 DEF Batched
    <2>5. /\ ToSet(out.decodes) \subseteq Seqs /\ ToSet(out.prefills) \subseteq Seqs
          /\ ToSet(out.fresh) \subseteq Seqs /\ ToSet(out.preempted) \subseteq Seqs
      BY <2>2, ElementsIn
    <2>6. /\ IsInjective(Append(out.decodes, s)) /\ IsInjective(Append(out.prefills, s))
          /\ ToSet(Append(out.decodes, s)) = ToSet(out.decodes) \cup {s}
          /\ ToSet(Append(out.prefills, s)) = ToSet(out.prefills) \cup {s}
      <3>1. IsInjective(out.decodes) /\ IsInjective(out.prefills)
        BY <2>1 DEF Apart
      <3> QED BY ONLY <1>2, <2>2, <2>4, <3>1, AppendSet
    <2>7. Batched(out') = Batched(out) \cup {s}
      BY <1>11, <1>12, <2>6 DEF Batched
    <2>8. Apart(seq', waiting', running', out')
      <3>1. \A z \in Batched(out) \cup ToSet(out.preempted) : seq'[z] = seq[z]
        BY <1>9, <2>3, <2>4, <2>5 DEF Batched
      <3>2. seq'[s].status = seq[s].status
        BY <1>8, <1>9
      <3>3. Batched(out') \cap ToSet(running') = {}
        BY <1>2, <2>1, <2>7 DEF Apart
      <3>4. CASE seq[s].status = "decode"
        <4>1. out'.decodes = Append(out.decodes, s) /\ out'.prefills = out.prefills
          BY ONLY <1>11, <3>4
        <4> QED BY <1>1, <1>12, <2>1, <2>4, <2>6, <3>1, <3>2, <3>3, <3>4, <4>1 DEF Apart, Batched
      <3>5. CASE seq[s].status = "prefill"
        <4>1. out'.prefills = Append(out.prefills, s) /\ out'.decodes = out.decodes
          BY <1>11, <3>5
        <4> QED BY <1>1, <1>12, <2>1, <2>4, <2>6, <3>1, <3>2, <3>3, <3>5, <4>1 DEF Apart, Batched
      <3> QED BY <1>11, <3>4, <3>5
    <2>9. \A z \in Batched(out') : seq'[z].slots = seq'[z].len
      <3>1. \A z \in Batched(out) : seq[z].slots = seq[z].len
        BY <1>1, InvFacts DEF Queues, Scheduling
      <3>2. \A z \in Batched(out) : seq'[z] = seq[z]
        BY <1>9, <2>3, ListFacts
      <3> QED BY <1>8, <1>9, <2>7, <3>1, <3>2
    <2>10. /\ \A z \in ToSet(waiting) : seq'[z] = seq[z]
           /\ \A z \in ToSet(running') : seq'[z] = seq[z]
      BY <1>2, <1>3, <1>9, ListFacts
    <2> QED BY ONLY EngineInv, <1>1, <1>2, <2>8, <2>9, <2>10, ListFacts DEF Queues, Scheduling
  <1> QED BY <1>13, <1>14, <1>15, <1>16 DEF SettledNext, Settled

\* No sequence is active and retained, waiting or on its way to the CPU.
LEMMA ActiveApart ==
    ASSUME EngineInv, NEW s \in Seqs, Active(seq[s])
    PROVE  /\ s \notin ToSet(waiting) /\ s \notin ToSet(pending.seqs)
           /\ \A e \in Keys : entries[e] # s
  <1>1. seq[s].status # "finished" /\ seq[s].status # "waiting" /\ s # None
    BY InvFacts DEF Active
  <1>2. \A e \in Keys : entries[e] # s
    BY <1>1, ListFacts DEF Retained
  <1>3. s \notin ToSet(pending.seqs)
    BY <1>1, ListFacts DEF Leaving
  <1> QED BY <1>1, <1>2, <1>3, ListFacts

\* What the victim's blocks leave behind.
LEMMA PreemptCore ==
    ASSUME EngineInv, phase = "running", NEW v \in Seqs, Active(seq[v]),
           NEW T2, NEW n2, NEW c2,
           Emptied(Tables(seq), Slots(seq), Counts(seq), T2, n2, c2, v),
           NEW w, w = IF Swappable(v) = <<>>
                      THEN [m |-> mem, table |-> seq[v].table, map |-> <<>>, orphans |-> {}]
                      ELSE SwapOutSeq(v)
    PROVE  /\ w.map \in Seq(Pairs)
           /\ Core(FreeTable(w.m, w.table, seq[v].last), T2, n2, c2, AddLost(w.orphans))
  <1> DEFINE T == Tables(seq)
             n == Slots(seq)
             c == Counts(seq)
             stamp == seq[v].last
             o == w.orphans
  <1>1. AddLost(o) = More(lost, o)
    BY DEF AddLost, More
  <1>2. Core(mem, T, n, c, lost) /\ Setting /\ lost \in [Blocks -> Nat] /\ stamp \in Int
        /\ seq \in [Seqs -> SeqRecs] /\ T[v] = seq[v].table
    <2>1. Computed(phase, seq, out) = c
      BY ComputedIdle
    <2> QED BY <2>1, InvFacts, SeqFacts DEF Tables
  <1>3. ToSet(T[v]) \subseteq Gpu
    BY <1>2, ActiveApart, OnGpu
  <1>4. CASE Swappable(v) = <<>>
    <2>1. w.m = mem /\ w.table = T[v] /\ w.map = <<>> /\ o = {}
      BY <1>2, <1>4
    <2>2. More(lost, o) = lost
      BY ONLY <1>2, <2>1, MoreFewer
    <2>3. w.map \in Seq(Pairs)
      <3>1. w.map = <<>>
        BY <2>1
      <3>2. <<>> \in Seq(Pairs)
        OBVIOUS
      <3> QED BY ONLY <3>1, <3>2
    <2>4. FreeTable(w.m, w.table, seq[v].last) = FreeTable(mem, T[v], stamp)
      BY <2>1
    <2> HIDE DEF T, n, c, stamp, o
    <2>5. Core(FreeTable(mem, T[v], stamp), T2, n2, c2, lost)
      BY <1>2, CoreFreeTable DEF T, n, c
    <2>6. AddLost(w.orphans) = lost
      BY <1>1, <2>2 DEF o
    <2> QED BY ONLY <2>3, <2>4, <2>5, <2>6
  <1>5. CASE Swappable(v) # <<>>
    <2>1. w = SwapOutSeq(v)
      BY <1>5
    <2>2. /\ w.table \in Seq(Cpu) /\ w.map \in Seq(Pairs) /\ o \subseteq ToSet(T[v])
          /\ Core(w.m, T2, n2, c2, More(More(lost, o), ToSet(w.table)))
      <3>1. /\ Setting /\ seq \in [Seqs -> SeqRecs] /\ Core(mem, T, n, c, lost)
            /\ v \in Seqs /\ T[v] = seq[v].table /\ ToSet(T[v]) \subseteq Gpu
            /\ Emptied(T, n, c, T2, n2, c2, v) /\ w = SwapOutSeq(v)
        BY <1>2, <1>3, <2>1
      <3> HIDE DEF stamp, T, n, c
      <3> QED BY ONLY <3>1, SwapOutCore
    <2>3. ToSet(w.table) \subseteq Blocks
      BY <1>2, <2>2, ElementsIn, BlockFacts
    <2>4. More(lost, o) \in [Blocks -> Nat]
      BY <1>2, MoreFewer
    <2> DEFINE l1 == More(lost, o)
               t == w.table
               m == w.m
    <2> HIDE DEF l1, t, m, stamp
    <2>5. Core(FreeTable(m, t, stamp), T2, n2, c2, l1)
      <3>1. Core(m, T2, n2, c2, More(l1, ToSet(t))) /\ ToSet(t) \subseteq Blocks
            /\ l1 \in [Blocks -> Nat]
        BY <2>2, <2>3, <2>4 DEF l1, t, m
      <3> QED BY <1>2, <3>1, CoreFreeHeld
    <2> QED BY ONLY <1>1, <2>2, <2>5 DEF l1, t, m, stamp
  <1> QED BY <1>4, <1>5

\* The last of the running queue loses its blocks and waits again.
LEMMA PreemptLastStep ==
    ASSUME EngineInv, PreemptLast
    PROVE  SettledNext
  <1> DEFINE v == Last(running)
             w == IF Swappable(v) = <<>>
                  THEN [m |-> mem, table |-> seq[v].table, map |-> <<>>, orphans |-> {}]
                  ELSE SwapOutSeq(v)
             u == Unowned(seq[v])
             q == [u EXCEPT !.status = "waiting", !.computed = 0]
  <1>1. /\ phase = "running" /\ running # <<>>
        /\ kv' = kv /\ waiting' = waiting /\ pending' = pending /\ entries' = entries
        /\ \/ phase' = "noswap" /\ UNCHANGED <<mem, seq, running, out, lost>>
           \/ /\ mem' = FreeTable(w.m, w.table, seq[v].last)
              /\ lost' = AddLost(w.orphans)
              /\ seq' = [seq EXCEPT ![v] = q]
              /\ running' = Front(running)
              /\ out' = [out EXCEPT !.swapOut = out.swapOut \o w.map,
                                    !.preempted = Append(out.preempted, v)]
              /\ phase' = phase
    BY DEF PreemptLast
  <1>2. CASE phase' = "noswap" /\ UNCHANGED <<mem, seq, running, out, lost>>
    BY <1>1, <1>2, PhaseStep
  <1>3. CASE /\ mem' = FreeTable(w.m, w.table, seq[v].last)
             /\ lost' = AddLost(w.orphans)
             /\ seq' = [seq EXCEPT ![v] = q]
             /\ running' = Front(running)
             /\ out' = [out EXCEPT !.swapOut = out.swapOut \o w.map,
                                   !.preempted = Append(out.preempted, v)]
             /\ phase' = phase
    <2>1. /\ v \in Seqs /\ Active(seq[v]) /\ running' \in Seq(Seqs) /\ IsInjective(running')
          /\ ToSet(running) = ToSet(running') \cup {v} /\ v \notin ToSet(running')
      <3>1. running \in Seq(Seqs) /\ IsInjective(running)
        BY InvFacts, ListFacts
      <3>2. /\ v \in Seqs /\ running' \in Seq(Seqs) /\ IsInjective(running') /\ v \in ToSet(running)
            /\ ToSet(running) = ToSet(running') \cup {v} /\ v \notin ToSet(running')
        BY ONLY <1>1, <1>3, <3>1, FrontSet
      <3>3. Active(seq[v])
        BY <1>1, <3>2, ListFacts
      <3> QED BY ONLY <3>2, <3>3
    <2> HIDE DEF v
    <2>2. /\ v \notin ToSet(waiting) /\ v \notin ToSet(pending.seqs)
          /\ \A e \in Keys : entries[e] # v
      BY <2>1, ActiveApart
    <2>3. /\ q \in SeqRecs /\ q.table = <<>> /\ q.slots = 0 /\ q.len = seq[v].len
          /\ q.status = "waiting" /\ q.computed = 0
      <3>1. u \in SeqRecs /\ u.table = <<>> /\ u.slots = 0 /\ u.len = seq[v].len
        BY <2>1, InvFacts, UnownedFacts
      <3> HIDE DEF u
      <3> QED BY <3>1 DEF SeqRecs, Statuses, Live
    <2> HIDE DEF q
    <2>4. /\ seq' \in [Seqs -> SeqRecs] /\ seq'[v] = q
          /\ \A z \in Seqs \ {v} : seq'[z] = seq[z]
      BY <1>3, <2>1, <2>3, InvFacts
    <2>5. /\ w.map \in Seq(Pairs)
          /\ Core(mem', Tables(seq'), Slots(seq'), Counts(seq'), lost')
      <3> DEFINE T2 == Tables(seq')
                 n2 == Slots(seq')
                 c2 == Counts(seq')
      <3>1. Emptied(Tables(seq), Slots(seq), Counts(seq), T2, n2, c2, v)
        <4>1. T2 \in [Seqs -> Seq(Blocks)] /\ T2[v] = <<>>
          BY <2>1, <2>3, <2>4, Columns
        <4>2. Alike(Tables(seq), T2, v) /\ Alike(Slots(seq), n2, v) /\ Alike(Counts(seq), c2, v)
          BY <2>4 DEF Alike, Tables, Slots, Counts
        <4> QED BY <4>1, <4>2 DEF Emptied
      <3> HIDE DEF T2, n2, c2
      <3>2. /\ w.map \in Seq(Pairs)
            /\ Core(FreeTable(w.m, w.table, seq[v].last), T2, n2, c2, AddLost(w.orphans))
        BY <1>1, <2>1, <3>1, PreemptCore
      <3> HIDE DEF w
      <3> QED BY <1>3, <3>2 DEF T2, n2, c2
    <2> HIDE DEF w
    <2>6. /\ out' \in Outs /\ out'.decodes = out.decodes /\ out'.prefills = out.prefills
          /\ out'.fresh = out.fresh /\ out'.preempted = Append(out.preempted, v)
      <3> DEFINE so == out.swapOut \o w.map
                 pr == Append(out.preempted, v)
      <3>1. out \in Outs /\ so \in Seq(Pairs) /\ pr \in Seq(Seqs)
        BY <2>1, <2>5, InvFacts DEF Outs
      <3>2. out' = [out EXCEPT !.swapOut = so, !.preempted = pr]
        BY <1>3
      <3> HIDE DEF so
      <3>3. out' \in Outs /\ out'.decodes = out.decodes /\ out'.prefills = out.prefills
            /\ out'.fresh = out.fresh /\ out'.preempted = pr
        <4> HIDE DEF pr
        <4> QED BY <3>1, <3>2 DEF Outs
      <3> QED BY <3>3
    <2>7. Shape(phase', kv', seq', waiting', running', out', pending', entries')
      <3>1. /\ seq'[v].computed = 0 /\ seq'[v].len = seq[v].len /\ seq[v].len \in Nat
        BY <2>1, <2>3, <2>4, InvFacts, SeqFacts
      <3> QED BY <1>1, <1>3, <2>1, <2>4, <2>6, <3>1, InvFacts DEF Shape
    <2>8. Core(mem', Tables(seq'), Slots(seq'), Computed(phase', seq', out'), lost')
      <3>1. Computed(phase', seq', out') = Counts(seq')
        BY <1>1, <1>3, ComputedIdle
      <3> QED BY <2>5, <3>1
    <2>9. Owners(phase', seq', running', pending', entries')
      <3>1. Owned(phase', seq', running', pending', entries')
        BY <1>1, <1>3, <2>1, <2>3, <2>4, ListFacts DEF Owned
      <3>2. Fitting(seq', running')
        <4>1. \A z \in ToSet(running') : seq'[z] = seq[z] /\ z \in ToSet(running)
          BY ONLY EngineInv, <2>1, <2>4, ListFacts
        <4>2. Fitting(seq, running) /\ v \in Seqs
          BY <2>1, ListFacts
        <4> QED BY <2>3, <2>4, <4>1, <4>2 DEF Fitting, Active
      <3>3. Leaving(seq', running', pending')
        <4>1. ToSet(seq'[v].table) = {}
          BY <2>3, <2>4 DEF ToSet
        <4> QED BY <1>1, <2>1, <2>2, <2>4, <4>1, ListFacts DEF Leaving
      <3>4. Retained(seq', running', pending', entries')
        <4>1. \A e \in Keys : entries[e] # None => entries[e] \in Seqs \ {v}
          BY <2>2, InvFacts
        <4> QED BY ONLY EngineInv, <1>1, <2>1, <2>4, <4>1, ListFacts DEF Retained
      <3> QED BY <3>1, <3>2, <3>3, <3>4 DEF Owners
    <2>10. Queues(phase', seq', waiting', running', out')
      <3>1. Apart(seq, waiting, running, out)
        BY <1>1, InvFacts DEF Queues, Scheduling
      <3>2. v \notin Batched(out) /\ v \notin ToSet(out.preempted)
        BY <2>1, <3>1 DEF Apart, Active
      <3>3. out.preempted \in Seq(Seqs) /\ ToSet(out.preempted) \subseteq Seqs
        BY InvFacts, ElementsIn DEF Outs
      <3>4. /\ IsInjective(out'.preempted)
            /\ ToSet(out'.preempted) = ToSet(out.preempted) \cup {v}
        <4>1. IsInjective(out.preempted)
          BY <3>1 DEF Apart
        <4> QED BY ONLY <2>1, <2>6, <3>2, <3>3, <4>1, AppendSet
      <3>5. Batched(out') = Batched(out)
        BY <2>6 DEF Batched
      <3>6. \A z \in Batched(out) \cup ToSet(out.preempted) : seq'[z] = seq[z]
        BY ONLY EngineInv, <2>4, <3>2, <3>3, ListFacts
      <3>7. Apart(seq', waiting', running', out')
        <4>1. /\ \A z \in ToSet(out.decodes) : seq'[z] = seq[z]
              /\ \A z \in ToSet(out.prefills) \cup ToSet(out.fresh) : seq'[z] = seq[z]
          BY <3>6 DEF Batched
        <4>2. Batched(out') \cap ToSet(running') = {}
          BY ONLY <2>1, <3>1, <3>5 DEF Apart
        <4>3. seq'[v].status = "waiting"
          BY <2>3, <2>4
        <4>4. \A z \in ToSet(out'.preempted) : seq'[z].status = "waiting"
          BY <3>1, <3>4, <3>6, <4>3 DEF Apart
        <4> QED BY <1>1, <2>2, <2>6, <3>1, <3>4, <4>1, <4>2, <4>4 DEF Apart
      <3>8. \A z \in Batched(out') : seq'[z].slots = seq'[z].len
        <4>1. \A z \in Batched(out) : seq[z].slots = seq[z].len
          BY <1>1, InvFacts DEF Queues, Scheduling
        <4> QED BY <3>5, <3>6, <4>1
      <3>9. /\ \A z \in ToSet(waiting) : seq'[z] = seq[z]
            /\ \A z \in ToSet(running') : seq'[z] = seq[z]
        BY <2>1, <2>2, <2>4, ListFacts
      <3> QED BY ONLY EngineInv, <1>1, <1>3, <2>1, <3>7, <3>8, <3>9, ListFacts
               DEF Queues, Scheduling
    <2> QED BY <2>7, <2>8, <2>9, <2>10 DEF SettledNext, Settled
  <1> QED BY <1>1, <1>2, <1>3

-----------------------------------------------------------------------------
(***************************************************************************)
(* The waiting queue.                                                      *)
(***************************************************************************)
\* The blocks that hold the first y tokens of a table.
Leading(t, y) == {t[i] : i \in 1..(y \div BlockSize)}

\* They are blocks of the table when it covers that many tokens.
LEMMA LeadingFacts ==
    ASSUME NEW X, NEW t \in Seq(X), NEW x \in Nat, Covers(Len(t), x), NEW y \in Nat, y <= x
    PROVE  /\ Leading(t, y) \subseteq ToSet(t)
           /\ \A i \in DOMAIN t : i * BlockSize <= y => t[i] \in Leading(t, y)
  <1> DEFINE d == y \div BlockSize
             N == Len(t)
  <1>1. d \in Nat /\ \A i \in Int : i * BlockSize <= y <=> i <= d
    BY Blocking
  <1>2. /\ N \in Nat /\ DOMAIN t = 1..N /\ \A i \in 1..N : t[i] \in ToSet(t)
    BY ElementsIn
  <1> HIDE DEF d, N
  <1>3. d <= N
    <2> SUFFICES ASSUME ~(d <= N) PROVE FALSE
      OBVIOUS
    <2>1. d * BlockSize <= y /\ x <= N * BlockSize
      BY <1>1 DEF Covers, N
    <2>2. d * BlockSize \in Int /\ N * BlockSize \in Int /\ N * BlockSize < d * BlockSize
      <3>1. d \in Int /\ N \in Int /\ N < d
        BY <1>1, <1>2
      <3> QED BY <3>1, Scaling
    <2> QED BY <2>1, <2>2
  <1>4. Leading(t, y) = {t[i] : i \in 1..d}
    BY DEF Leading, d
  <1>5. Leading(t, y) \subseteq ToSet(t)
    BY <1>1, <1>2, <1>3, <1>4
  <1>6. ASSUME NEW i \in 1..N, i * BlockSize <= y PROVE t[i] \in Leading(t, y)
    <2>1. i \in 1..d
      BY <1>1, <1>2, <1>6
    <2> QED BY <1>4, <2>1
  <1> QED BY <1>2, <1>5, <1>6

\* The blocks of the admitted request, of which the first y tokens count as
\* computed, and of the entry it consumes.
LEMMA AdmitCore ==
    ASSUME EngineInv, phase = "prefill", NEW s \in Seqs, seq[s].table = <<>>,
           NEW x \in Nat \ {0}, x = seq[s].len, NEW y \in Nat, y <= x,
           NEW w, w = AllocateSeq(s, TRUE), w.ok,
           NEW sq, Renewed(seq, sq, s, "prefill", w.table, x, y),
           NEW k \in Keys, entries[k] # s,
           NEW m1, m1 = [w.m EXCEPT !.comp = @ \cup Leading(w.table, y)]
    PROVE  Core(DropEntry(m1, k), Tables(DropOwner(sq, k)), Slots(DropOwner(sq, k)),
                Counts(sq), lost)
  <1> DEFINE T == Tables(seq)
             n == Slots(seq)
             c == Counts(seq)
             T2 == Tables(sq)
             n2 == Slots(sq)
             c2 == [c EXCEPT ![s] = 0]
             S == Leading(w.table, y)
  <1>1. /\ Core(mem, T, n, c, lost) /\ Setting /\ lost \in [Blocks -> Nat]
        /\ seq \in [Seqs -> SeqRecs] /\ T[s] = <<>>
    <2>1. Computed(phase, seq, out) = c
      BY ComputedIdle
    <2> QED BY <2>1, InvFacts DEF Tables
  <1>2. /\ sq \in [Seqs -> SeqRecs] /\ T2 \in [Seqs -> Seq(Blocks)] /\ T2[s] = w.table
        /\ n2[s] = x /\ Counts(sq)[s] = y
        /\ Alike(T, T2, s) /\ Alike(n, n2, s) /\ Alike(c, Counts(sq), s)
    <2>1. sq \in [Seqs -> SeqRecs]
      BY DEF Renewed
    <2>2. T2 \in [Seqs -> Seq(Blocks)]
      BY <2>1, Columns
    <2> QED BY <2>1, <2>2 DEF Renewed, Alike, Tables, Slots, Counts
  <1>3. Given(w, x)
    <2> HIDE DEF T, n, c
    <2> QED BY <1>1, AllocateSeqFacts
  <1>4. w.table \in Seq(Gpu) /\ Covers(Len(w.table), x)
    <2>1. w.table \in Seq(Gpu)
      BY <1>3 DEF Given
    <2> QED BY <1>3, <2>1, GivenTable
  <1>5. S \subseteq ToSet(w.table) /\ S \subseteq Blocks
        /\ \A i \in DOMAIN w.table : i * BlockSize <= y => w.table[i] \in S
    <2> DEFINE t == w.table
    <2>1. /\ S \subseteq ToSet(w.table)
          /\ \A i \in DOMAIN w.table : i * BlockSize <= y => w.table[i] \in S
      BY <1>4, LeadingFacts
    <2>2. ToSet(t) \subseteq Gpu /\ Gpu \subseteq Blocks
      <3>1. t \in Seq(Gpu)
        BY <1>4
      <3> HIDE DEF t
      <3> QED BY <1>1, <3>1, ElementsIn, BlockFacts
    <2> HIDE DEF S
    <2> QED BY <2>1, <2>2
  <1>6. Core(w.m, T2, n2, c2, lost)
    <2>1. Filled(T, n, c, T2, n2, c2, s, x)
      <3>1. c2[s] = 0 /\ Alike(c, c2, s)
        BY DEF Counts, Alike
      <3> HIDE DEF T, n, c, T2, n2, c2
      <3> QED BY <1>1, <1>2, <3>1 DEF Filled
    <2> HIDE DEF T, n, c, T2, n2, c2
    <2> QED BY <1>1, <1>2, <2>1, AllocateSeqSeats
  <1> HIDE DEF S
  <1>7. m1 = [w.m EXCEPT !.comp = @ \cup S]
    BY DEF S
  <1>8. Core(m1, T2, n2, c2, lost) /\ m1.comp = w.m.comp \cup S
    <2> HIDE DEF T2, n2, c2
    <2>1. \A b \in S : w.m.ref[b] > 0
      <3>1. \A b \in ToSet(T2[s]) : b \in Blocks /\ w.m.ref[b] > lost[b]
        BY <1>1, <1>6, CoreRefs
      <3>2. \A b \in Blocks : w.m.ref[b] \in Nat /\ lost[b] \in Nat
        BY <1>1, <1>6, CoreRefs
      <3>3. S \subseteq ToSet(T2[s])
        BY <1>2, <1>5
      <3> QED BY ONLY <3>1, <3>2, <3>3
    <2> DEFINE m == w.m
    <2>2. m \in Mems /\ Core(m, T2, n2, c2, lost) /\ \A b \in S : m.ref[b] > 0
      BY <1>6, <2>1 DEF Core, Sound
    <2>3. m1 = [m EXCEPT !.comp = @ \cup S]
      BY <1>7
    <2> HIDE DEF m
    <2>4. Core([m EXCEPT !.comp = @ \cup S], T2, n2, c2, lost)
      BY <1>1, <1>5, <2>2, CoreHeldMark
    <2>5. m1.comp = m.comp \cup S
      BY <2>2, <2>3 DEF Mems
    <2> QED BY <2>3, <2>4, <2>5 DEF m
  <1> HIDE DEF T2, n2, c2
  <1>9. Core(m1, T2, n2, Counts(sq), lost)
    <2>1. ASSUME NEW z \in Seqs PROVE Seated(m1, z, T2[z], n2[z], Counts(sq)[z])
      <3>1. Seated(m1, z, T2[z], n2[z], c2[z])
        BY <1>8 DEF Core
      <3>2. CASE z = s
        BY <1>2, <1>5, <1>8, <3>1, <3>2 DEF Seated
      <3>3. CASE z # s
        <4>1. Counts(sq)[z] = c2[z]
          BY <1>2, <3>3 DEF Alike, c2, Counts
        <4> QED BY <3>1, <4>1
      <3> QED BY <3>2, <3>3
    <2> QED BY <1>8, <2>1 DEF Core
  <1>10. /\ entries[k] \in Seqs \cup {None}
         /\ entries[k] # None => sq[entries[k]].table = seq[entries[k]].table
    BY InvFacts DEF Renewed
  <1> QED BY ONLY <1>1, <1>2, <1>9, <1>10, DropEntryCore DEF T2, n2

\* What an exact entry saves is a part of the prompt, and not all of it.
LEMMA KnownFacts ==
    ASSUME EngineInv, NEW s \in Seqs, NEW known,
           known = IF entries[info[s].key] # None THEN ExactTokens(s) ELSE 0
    PROVE  known \in Nat /\ known < seq[s].len /\ seq[s].len \in Nat \ {0}
  <1>1. info[s].prompt \in Nat \ {0} /\ seq[s].len \in Nat /\ info[s].prompt <= seq[s].len
    <2>1. info[s] \in Job
      BY InvFacts, HashFacts
    <2> QED BY <2>1, InvFacts, SeqFacts DEF Job
  <1>2. CASE entries[info[s].key] = None
    BY <1>1, <1>2
  <1>3. CASE entries[info[s].key] # None
    <2> DEFINE e == entries[info[s].key]
               r == Least(seq[e].len, info[s].prompt - 1)
    <2>1. e \in Seqs
      BY ONLY EngineInv, <1>3, InvFacts
    <2>2. seq[e].len \in Nat
      BY <2>1, InvFacts, SeqFacts
    <2>3. r \in Nat /\ r < seq[s].len
      BY <1>1, <2>2 DEF Least
    <2>4. known = Floor(r)
      BY <1>3 DEF ExactTokens
    <2> HIDE DEF r
    <2> DEFINE d == r \div BlockSize
    <2>5. d \in Nat /\ d * BlockSize <= r
      BY <2>3, Blocking
    <2> HIDE DEF d
    <2>6. d * BlockSize \in Nat
      BY <2>5, Scaling
    <2>7. known = d * BlockSize
      BY ONLY <2>4 DEF Floor, d
    <2> QED BY ONLY <1>1, <2>3, <2>5, <2>6, <2>7
  <1> QED BY <1>2, <1>3

\* The head of the waiting queue gets its blocks and joins the batch.
LEMMA AdmitHeadStep ==
    ASSUME EngineInv, AdmitHead
    PROVE  SettledNext
  <1> DEFINE s == Head(waiting)
             k == info[s].key
             known == IF entries[k] # None THEN ExactTokens(s) ELSE 0
             w == AllocateSeq(s, TRUE)
             i == NewTokens(s, CachedPrefix(s))
             x == seq[s].len
             m1 == [w.m EXCEPT !.comp = @ \cup Leading(w.table, known)]
             chunk == IF entries[k] # None THEN i.new ELSE i.new + i.cached
             skip == IF known > 0 THEN known ELSE w.cached
             v == [seq[s] EXCEPT !.status = "prefill", !.table = w.table, !.slots = x,
                                 !.memo = w.cached, !.computed = known, !.skip = skip]
             sq == [seq EXCEPT ![s] = v]
  <1>1. /\ phase = "prefill" /\ waiting # <<>> /\ i.new > 0
        /\ kv' = kv /\ running' = running /\ pending' = pending /\ lost' = lost
        /\ \/ phase' = "nofree" /\ UNCHANGED <<mem, seq, waiting, out, entries>>
           \/ /\ w.ok /\ mem' = DropEntry(m1, k) /\ seq' = DropOwner(sq, k)
              /\ entries' = [entries EXCEPT ![k] = None]
              /\ waiting' = Tail(waiting)
              /\ out' = [out EXCEPT !.chunk[s] = chunk, !.used = @ + i.new,
                                    !.fresh = Append(@, s), !.swapIn = @ \o w.map]
              /\ phase' = phase
    <2>1. PICK n \in {i}, a \in {w} :
            /\ n.new > 0
            /\ IF ~a.ok
               THEN phase' = "nofree" /\ UNCHANGED <<mem, seq, waiting, out, entries>>
               ELSE /\ mem' = DropEntry([a.m EXCEPT !.comp = @ \cup Leading(a.table, known)], k)
                    /\ seq' = DropOwner([seq EXCEPT ![s] = [seq[s] EXCEPT
                            !.status = "prefill", !.table = a.table, !.slots = x,
                            !.memo = a.cached, !.computed = known,
                            !.skip = IF known > 0 THEN known ELSE a.cached]], k)
                    /\ entries' = [entries EXCEPT ![k] = None]
                    /\ waiting' = Tail(waiting)
                    /\ out' = [out EXCEPT
                            !.chunk[s] = IF entries[k] # None THEN n.new ELSE n.new + n.cached,
                            !.used = @ + n.new, !.fresh = Append(@, s),
                            !.swapIn = @ \o a.map]
                    /\ phase' = phase
      BY DEF AdmitHead, Leading
    <2>2. n = i /\ a = w
      BY <2>1
    <2>3. /\ phase = "prefill" /\ waiting # <<>>
          /\ kv' = kv /\ running' = running /\ pending' = pending /\ lost' = lost
      BY DEF AdmitHead
    <2> HIDE DEF i, w, known
    <2> QED BY <2>1, <2>2, <2>3
  <1>2. CASE phase' = "nofree" /\ UNCHANGED <<mem, seq, waiting, out, entries>>
    BY <1>1, <1>2, PhaseStep
  <1>3. CASE /\ w.ok /\ mem' = DropEntry(m1, k) /\ seq' = DropOwner(sq, k)
             /\ entries' = [entries EXCEPT ![k] = None]
             /\ waiting' = Tail(waiting)
             /\ out' = [out EXCEPT !.chunk[s] = chunk, !.used = @ + i.new,
                                   !.fresh = Append(@, s), !.swapIn = @ \o w.map]
             /\ phase' = phase
    <2>1. /\ s \in Seqs /\ seq[s].status = "waiting" /\ waiting' \in Seq(Seqs)
          /\ ToSet(waiting) = ToSet(waiting') \cup {s} /\ IsInjective(waiting')
          /\ s \notin ToSet(waiting')
      <3>1. waiting \in Seq(Seqs) /\ IsInjective(waiting)
            /\ \A z \in ToSet(waiting) : seq[z].status = "waiting"
        BY InvFacts, ListFacts
      <3> QED BY <1>1, <1>3, <3>1, TailSet
    <2> HIDE DEF s
    <2>2. /\ seq[s].table = <<>> /\ s \notin ToSet(running) /\ s \notin ToSet(pending.seqs)
          /\ \A e \in Keys : entries[e] # s
      BY <2>1, Untabled
    <2>3. /\ k \in Keys /\ entries[k] # s /\ entries[k] \in Seqs \cup {None}
          /\ None \notin Seqs /\ seq \in [Seqs -> SeqRecs] /\ Setting
      BY <2>1, <2>2, InvFacts
    <2>4. known \in Nat /\ known < x /\ x \in Nat \ {0}
      BY ONLY EngineInv, <2>1, KnownFacts
    <2>5. i.new \in Nat /\ i.cached \in Nat
      <3>1. CachedPrefix(s) \in Int
        <4>1. seq[s].len \in Nat
          BY <2>4
        <4>2. CachedTokens(mem, Gpu, s, seq[s].len) \in Nat
              /\ CachedTokens(mem, Cpu, s, seq[s].len) \in Nat
          BY <4>1, CachedType
        <4> QED BY <4>2 DEF CachedPrefix, Most
      <3> DEFINE y == CachedPrefix(s)
      <3> HIDE DEF y
      <3>2. NewTokens(s, y).new \in Int /\ NewTokens(s, y).cached \in Nat
        BY ONLY EngineInv, <2>1, <3>1, NewTokensFacts DEF y
      <3> QED BY <1>1, <3>2 DEF y
    <2>6. /\ Given(w, x) /\ w.table \in Seq(Gpu) /\ w.map \in Seq(Pairs) /\ w.cached \in Nat
          /\ w.table # <<>> /\ Covers(Len(w.table), x)
      <3> DEFINE T == Tables(seq)
                 n == Slots(seq)
                 c == Computed(phase, seq, out)
      <3>1. Core(mem, T, n, c, lost)
        BY InvFacts
      <3> HIDE DEF T, n, c, w
      <3>2. Given(w, x)
        BY <2>1, <2>3, <2>4, <3>1, AllocateSeqFacts DEF w
      <3> QED BY <1>3, <2>4, <3>2, GivenTable DEF Given
    <2>7. w.table \in Seq(Blocks) /\ ToSet(w.table) \subseteq Gpu
      <3>1. Gpu \subseteq Blocks
        BY ONLY <2>3, BlockFacts
      <3> HIDE DEF w
      <3> QED BY <2>6, <3>1, ElementsIn
    <2>8. w.ok /\ w = AllocateSeq(s, TRUE)
      BY <1>3
    <2> HIDE DEF known, i, w
    <2>9. Renewed(seq, sq, s, "prefill", w.table, x, known)
      <3>1. seq[s] \in SeqRecs /\ skip \in Nat /\ w.cached \in Int
        BY ONLY <2>1, <2>3, <2>4, <2>6
      <3> HIDE DEF skip
      <3>2. /\ v \in SeqRecs /\ v.status = "prefill" /\ v.table = w.table /\ v.slots = x
            /\ v.computed = known /\ v.len = x
        BY <2>4, <2>7, <3>1 DEF SeqRecs, Statuses, Live
      <3> HIDE DEF v
      <3> QED BY <2>1, <2>3, <3>2 DEF Renewed
    <2> HIDE DEF sq, v
    <2>10. Dropped(sq, seq', k)
      BY <1>3, <2>9, DropOwnerDrops DEF Renewed
    <2>11. /\ seq' \in [Seqs -> SeqRecs]
           /\ seq'[s].status = "prefill" /\ seq'[s].table = w.table /\ seq'[s].slots = x
           /\ seq'[s].computed = known /\ seq'[s].len = x
           /\ \A z \in Seqs \ {s} : /\ seq'[z].len = seq[z].len
                                    /\ seq'[z].computed = seq[z].computed
                                    /\ seq'[z].status = seq[z].status
                                    /\ z # entries[k] => seq'[z] = seq[z]
                                    /\ z = entries[k] => seq'[z].table = <<>>
      <3>1. /\ sq[s].status = "prefill" /\ sq[s].table = w.table /\ sq[s].slots = x
            /\ sq[s].computed = known /\ sq[s].len = x
            /\ \A z \in Seqs \ {s} : sq[z] = seq[z]
        BY <2>9 DEF Renewed
      <3>2. /\ seq' \in [Seqs -> SeqRecs] /\ seq'[s] = sq[s]
        BY <2>1, <2>3, <2>10 DEF Dropped
      <3>3. \A z \in Seqs \ {s} : /\ seq'[z].len = sq[z].len
                                  /\ seq'[z].computed = sq[z].computed
                                  /\ seq'[z].status = sq[z].status
                                  /\ z # entries[k] => seq'[z] = sq[z]
                                  /\ z = entries[k] => seq'[z].table = <<>>
        BY <2>10 DEF Dropped
      <3>4. \A z \in Seqs \ {s} : /\ seq'[z].len = seq[z].len
                                  /\ seq'[z].computed = seq[z].computed
                                  /\ seq'[z].status = seq[z].status
                                  /\ z # entries[k] => seq'[z] = seq[z]
                                  /\ z = entries[k] => seq'[z].table = <<>>
        BY ONLY <3>1, <3>3
      <3>5. /\ seq'[s].status = "prefill" /\ seq'[s].table = w.table /\ seq'[s].slots = x
            /\ seq'[s].computed = known /\ seq'[s].len = x
        BY ONLY <3>1, <3>2
      <3> QED BY ONLY <3>2, <3>4, <3>5
    <2>12. Core(mem', Tables(seq'), Slots(seq'), Computed(phase', seq', out'), lost')
      <3>1. Core(DropEntry(m1, k), Tables(DropOwner(sq, k)), Slots(DropOwner(sq, k)),
                 Counts(sq), lost)
        <4>1. known <= x
          BY <2>4
        <4>2. m1 = [w.m EXCEPT !.comp = @ \cup Leading(w.table, known)]
          OBVIOUS
        <4> HIDE DEF m1, x, k
        <4> QED BY <1>1, <2>1, <2>2, <2>3, <2>4, <2>8, <2>9, <4>1, <4>2, AdmitCore DEF x
      <3>2. Computed(phase', seq', out') = Counts(sq)
        <4>1. Counts(seq') = Counts(sq)
          BY <2>10 DEF Counts, Dropped
        <4> QED BY ONLY <1>1, <1>3, <4>1, ComputedIdle
      <3> QED BY <1>1, <1>3, <3>1, <3>2
    <2> HIDE DEF m1
    <2>13. /\ out' \in Outs /\ out'.decodes = out.decodes /\ out'.prefills = out.prefills
           /\ out'.fresh = Append(out.fresh, s) /\ out'.preempted = out.preempted
      <3> DEFINE ch == [out.chunk EXCEPT ![s] = chunk]
                 u == out.used + i.new
                 fs == Append(out.fresh, s)
                 si == out.swapIn \o w.map
      <3>1. chunk \in Nat
        BY <2>5
      <3> HIDE DEF chunk
      <3>2. /\ out \in Outs /\ ch \in [Seqs -> Nat] /\ u \in Int
            /\ fs \in Seq(Seqs) /\ si \in Seq(Pairs)
        <4>1. out \in Outs
          BY InvFacts
        <4>2. /\ out.chunk \in [Seqs -> Nat] /\ out.used \in Int
              /\ out.fresh \in Seq(Seqs) /\ out.swapIn \in Seq(Pairs)
          BY <4>1 DEF Outs
        <4>3. i.new \in Nat /\ w.map \in Seq(Pairs)
          BY <2>5, <2>6
        <4> QED BY <2>1, <3>1, <4>1, <4>2, <4>3
      <3>3. out' = [out EXCEPT !.chunk = ch, !.used = u, !.fresh = fs, !.swapIn = si]
        BY <1>3, <3>2 DEF Outs
      <3> HIDE DEF ch, u, si
      <3>4. /\ out' \in Outs /\ out'.decodes = out.decodes /\ out'.prefills = out.prefills
            /\ out'.fresh = fs /\ out'.preempted = out.preempted
        <4> HIDE DEF fs
        <4> QED BY <3>2, <3>3 DEF Outs
      <3> QED BY <3>4
    <2>14. entries' \in [Keys -> Seqs \cup {None}] /\ entries'[k] = None
           /\ \A e \in Keys \ {k} : entries'[e] = entries[e]
      BY <1>3, <2>3, InvFacts
    <2>15. Shape(phase', kv', seq', waiting', running', out', pending', entries')
      BY <1>1, <1>3, <2>1, <2>4, <2>11, <2>13, <2>14, InvFacts DEF Shape
    <2>16. /\ entries[k] \notin ToSet(running) /\ entries[k] \notin ToSet(pending.seqs)
           /\ entries[k] # None => seq[entries[k]].status = "finished"
      BY <2>3, ListFacts DEF Retained
    <2>17. /\ \A z \in ToSet(running) : seq'[z] = seq[z]
           /\ \A z \in ToSet(waiting') : seq'[z] = seq[z]
      <3>1. \A z \in ToSet(waiting) : z # entries[k] /\ z \in Seqs
        BY ONLY EngineInv, <2>3, <2>16, ListFacts
      <3>2. \A z \in ToSet(running) : z # entries[k] /\ z \in Seqs /\ z # s
        BY ONLY EngineInv, <2>2, <2>16, ListFacts
      <3> QED BY ONLY <2>1, <2>11, <3>1, <3>2
    <2>18. Fitted(seq'[s])
      <3>1. (Len(w.table) - 1) * BlockSize < x /\ x <= Len(w.table) * BlockSize
        BY <2>6 DEF Covers
      <3> QED BY <2>4, <2>6, <2>11, <3>1 DEF Fitted
    <2>19. Owners(phase', seq', running', pending', entries')
      <3>1. Owned(phase', seq', running', pending', entries')
        <4> SUFFICES ASSUME NEW z \in Seqs, seq'[z].table # <<>>
                     PROVE  \/ Active(seq'[z]) \/ entries'[info[z].key] = z
                            \/ z \in ToSet(pending.seqs)
          BY <1>1 DEF Owned
        <4>1. CASE z = s
          BY <2>11, <4>1 DEF Active
        <4>2. CASE z # s
          <5>1. z # entries[k] /\ seq'[z] = seq[z]
            BY <2>11, <4>2
          <5>2. \/ Active(seq[z]) \/ entries[info[z].key] = z \/ z \in ToSet(pending.seqs)
            BY <1>1, <5>1, ListFacts DEF Owned
          <5>3. info[z].key \in Keys
            BY InvFacts
          <5> QED BY <2>14, <5>1, <5>2, <5>3
        <4> QED BY <4>1, <4>2
      <3>2. Fitting(seq', running')
        <4>1. \A z \in Seqs \ {s} : Active(seq'[z]) => seq'[z] = seq[z]
          <5> SUFFICES ASSUME NEW z \in Seqs \ {s}, Active(seq'[z]) PROVE seq'[z] = seq[z]
            OBVIOUS
          <5>1. seq'[z].status = seq[z].status
            BY <2>11
          <5>2. seq[z].status # "finished"
            BY <5>1 DEF Active
          <5>3. z # entries[k]
            BY ONLY <2>3, <2>16, <5>2
          <5> QED BY <2>11, <5>3
        <4>2. Fitting(seq, running) /\ running' = running
          BY ONLY EngineInv, <1>1, ListFacts
        <4>3. \A z \in Seqs : seq'[z].status = "new" => seq'[z].computed = 0
          <5> SUFFICES ASSUME NEW z \in Seqs, seq'[z].status = "new" PROVE seq'[z].computed = 0
            OBVIOUS
          <5>1. z # s
            BY <2>11
          <5> QED BY <2>11, <4>2, <5>1 DEF Fitting
        <4>4. \A z \in Seqs : Active(seq'[z]) => Fitted(seq'[z])
          BY <2>18, <4>1, <4>2 DEF Fitting
        <4>5. \A z \in ToSet(running) : seq'[z] = seq[z]
          BY ONLY <2>17
        <4> QED BY ONLY <4>2, <4>3, <4>4, <4>5 DEF Fitting
      <3>3. Leaving(seq', running', pending')
        <4>1. \A z \in ToSet(pending.seqs) : seq'[z] = seq[z]
          BY <2>2, <2>11, <2>16, ListFacts
        <4>2. ToSet(<<>>) = {}
          BY DEF ToSet
        <4>3. \A z \in Seqs : z \notin ToSet(pending.seqs) => ToSet(seq'[z].table) \subseteq Gpu
          BY ONLY EngineInv, <2>7, <2>11, <4>2, ListFacts DEF Leaving
        <4> QED BY ONLY EngineInv, <1>1, <4>1, <4>3, ListFacts DEF Leaving
      <3>4. Retained(seq', running', pending', entries')
        <4> SUFFICES ASSUME NEW e \in Keys, entries'[e] # None
                     PROVE  /\ info[entries'[e]].key = e
                            /\ seq'[entries'[e]].status = "finished"
                            /\ seq'[entries'[e]].table # <<>>
                            /\ entries'[e] \notin ToSet(running)
                            /\ entries'[e] \notin ToSet(pending.seqs)
          BY <1>1 DEF Retained
        <4>1. e # k /\ entries'[e] = entries[e]
          BY <2>14
        <4>2. /\ info[entries[e]].key = e
              /\ seq[entries[e]].status = "finished" /\ seq[entries[e]].table # <<>>
              /\ entries[e] \notin ToSet(running) /\ entries[e] \notin ToSet(pending.seqs)
          BY <4>1, ListFacts DEF Retained
        <4>3. entries[e] \in Seqs /\ entries[e] # s
          BY <2>2, <4>1, InvFacts
        <4>4. entries[e] # entries[k]
          BY ONLY EngineInv, <2>3, <4>1, <4>2, <4>3, ListFacts DEF Retained
        <4> QED BY ONLY <2>11, <4>1, <4>2, <4>3, <4>4
      <3> QED BY <3>1, <3>2, <3>3, <3>4 DEF Owners
    <2>20. Queues(phase', seq', waiting', running', out')
      <3>1. Apart(seq, waiting, running, out)
        BY <1>1, InvFacts DEF Queues, Scheduling
      <3>2. s \notin Batched(out) /\ s \notin ToSet(out.preempted)
        BY ONLY <2>1, <3>1 DEF Apart, Batched
      <3>3. /\ out.fresh \in Seq(Seqs) /\ ToSet(out.fresh) \subseteq Seqs
            /\ out.preempted \in Seq(Seqs) /\ ToSet(out.preempted) \subseteq Seqs
        BY InvFacts, ElementsIn DEF Outs
      <3>4. /\ IsInjective(out'.fresh) /\ ToSet(out'.fresh) = ToSet(out.fresh) \cup {s}
        <4>1. IsInjective(out.fresh) /\ s \notin ToSet(out.fresh)
          BY <3>1, <3>2 DEF Apart, Batched
        <4> QED BY ONLY <2>1, <2>13, <3>3, <4>1, AppendSet
      <3>5. Batched(out') = Batched(out) \cup {s}
        BY ONLY <2>13, <3>4 DEF Batched
      <3>6. \A z \in Batched(out) \cup ToSet(out.preempted) : seq'[z] = seq[z]
        <4>1. \A z \in Batched(out) \cup ToSet(out.preempted) : z \in Seqs /\ z # s
          BY <3>2, <3>3, ListFacts
        <4>2. \A z \in Batched(out) \cup ToSet(out.preempted) : seq[z].status # "finished"
          BY <3>1 DEF Apart, Batched
        <4>3. \A z \in Batched(out) \cup ToSet(out.preempted) : z # entries[k]
          BY <2>3, <2>16, <4>1, <4>2
        <4> QED BY ONLY <2>11, <4>1, <4>3
      <3>7. Apart(seq', waiting', running', out')
        <4>1. /\ \A z \in ToSet(out.decodes) : seq'[z] = seq[z]
              /\ \A z \in ToSet(out.prefills) : seq'[z] = seq[z]
              /\ \A z \in ToSet(out.fresh) : seq'[z] = seq[z]
              /\ \A z \in ToSet(out.preempted) : seq'[z] = seq[z]
          BY <3>6 DEF Batched
        <4>2. Batched(out') \cap ToSet(running') = {}
          BY ONLY <1>1, <2>2, <3>1, <3>5 DEF Apart
        <4>3. seq'[s].status = "prefill" /\ s \notin ToSet(out.prefills)
          BY <2>11, <3>2 DEF Batched
        <4>4. ToSet(out.preempted) \cap ToSet(waiting') = {}
          BY <2>1, <3>1 DEF Apart
        <4> QED BY <2>13, <3>1, <3>4, <4>1, <4>2, <4>3, <4>4 DEF Apart
      <3>8. \A z \in Batched(out') : seq'[z].slots = seq'[z].len
        <4>1. \A z \in Batched(out) : seq[z].slots = seq[z].len
          BY <1>1, InvFacts DEF Queues, Scheduling
        <4> QED BY ONLY <2>11, <3>5, <3>6, <4>1
      <3>9. running' = running /\ phase' = "prefill"
        BY <1>1, <1>3
      <3>10. \A z \in ToSet(waiting') : seq'[z].status = "waiting"
        BY <2>1, <2>17, ListFacts
      <3>11. \A z \in ToSet(running') : Active(seq'[z])
        BY ONLY EngineInv, <1>1, <2>17, <3>9, ListFacts
      <3>12. IsInjective(waiting') /\ IsInjective(running')
        BY <2>1, <3>9, ListFacts
      <3> QED BY ONLY <3>7, <3>8, <3>9, <3>10, <3>11, <3>12 DEF Queues, Scheduling
    <2> QED BY ONLY <2>12, <2>15, <2>19, <2>20 DEF SettledNext, Settled
  <1> QED BY <1>1, <1>2, <1>3

-----------------------------------------------------------------------------
(***************************************************************************)
(* The end of the schedule.                                                *)
(***************************************************************************)
\* The batch, as the scheduler lists it.
LEMMA BatchFacts ==
    ASSUME EngineInv
    PROVE  Batch = Batched(out) /\ Batch \subseteq Seqs
  <1>1. out.decodes \in Seq(Seqs) /\ out.prefills \in Seq(Seqs) /\ out.fresh \in Seq(Seqs)
    BY InvFacts DEF Outs
  <1> DEFINE p == out.decodes \o out.prefills
  <1>2. p \in Seq(Seqs) /\ ToSet(p) = ToSet(out.decodes) \cup ToSet(out.prefills)
    BY <1>1, ConcatSet
  <1> HIDE DEF p
  <1>3. ToSet(p \o out.fresh) = ToSet(p) \cup ToSet(out.fresh)
    BY <1>1, <1>2, ConcatSet
  <1>4. Batch = ToSet(p \o out.fresh)
    BY DEF Batch, p
  <1> QED BY <1>2, <1>3, <1>4, ListFacts DEF Batched

\* A scheduled sequence is active, and all of its tokens have slots.
LEMMA BatchFitted ==
    ASSUME EngineInv, phase = "scheduled", NEW s \in Batched(out)
    PROVE  /\ s \in Seqs /\ Active(seq[s]) /\ Fitted(seq[s]) /\ seq[s].slots = seq[s].len
           /\ seq[s].len \in Nat /\ seq[s].computed \in Nat /\ out.chunk[s] \in Nat
           /\ seq[s].computed <= seq[s].len
           /\ ComputedAfter(s) \in Nat /\ ComputedAfter(s) <= seq[s].len
  <1>1. s \in Seqs
    BY ListFacts
  <1>2. Apart(seq, waiting, running, out) /\ seq[s].slots = seq[s].len
    BY InvFacts DEF Queues, Scheduling
  <1>3. Active(seq[s])
    BY <1>2 DEF Apart, Batched, Active
  <1>4. Fitted(seq[s])
    BY <1>1, <1>3, ListFacts DEF Fitting
  <1>5. /\ seq[s].len \in Nat /\ seq[s].computed \in Nat /\ seq[s].computed <= seq[s].len
    BY ONLY EngineInv, <1>1, InvFacts, SeqFacts
  <1>6. out.chunk[s] \in Nat
    BY <1>1, InvFacts DEF Outs
  <1>7. ComputedAfter(s) \in Nat /\ ComputedAfter(s) <= seq[s].len
    BY ONLY <1>5, <1>6 DEF ComputedAfter, Least
  <1> QED BY ONLY <1>1, <1>2, <1>3, <1>4, <1>5, <1>6, <1>7

\* The blocks that its computed tokens fill are in its table.
LEMMA BatchBlocks ==
    ASSUME EngineInv, phase = "scheduled", NEW s \in Batched(out)
    PROVE  /\ NewlyComputed(s) \subseteq ToSet(seq[s].table)
           /\ \A i \in DOMAIN seq[s].table :
                 i * BlockSize <= ComputedAfter(s) => seq[s].table[i] \in NewlyComputed(s)
  <1> DEFINE t == seq[s].table
             x == seq[s].len
             y == ComputedAfter(s)
  <1>1. t \in Seq(Blocks) /\ x \in Nat /\ y \in Nat /\ y <= x /\ Covers(Len(t), x)
    <2>1. t \in Seq(Blocks)
      BY BatchFitted, InvFacts, SeqFacts
    <2> QED BY <2>1, BatchFitted DEF Fitted, Covers
  <1>2. NewlyComputed(s) = Leading(t, y)
    BY DEF NewlyComputed, Leading
  <1> HIDE DEF t, x, y
  <1>3. /\ Leading(t, y) \subseteq ToSet(t)
        /\ \A i \in DOMAIN t : i * BlockSize <= y => t[i] \in Leading(t, y)
    BY ONLY <1>1, LeadingFacts
  <1> QED BY <1>2, <1>3 DEF t, y

\* What counts as computed once the batch is on its way to the worker.
Scheduled == [s \in Seqs |-> IF s \in Batched(out) THEN ComputedAfter(s) ELSE seq[s].computed]

\* The batch's blocks are marked as computed.
LEMMA ScheduledCore ==
    ASSUME EngineInv, phase = "scheduled", NEW S, S = UNION {NewlyComputed(s) : s \in Batch},
           NEW L, L \in [Blocks -> Int],
           NEW m2, m2 = [mem EXCEPT !.comp = @ \cup S, !.last = L]
    PROVE  Core(m2, Tables(seq), Slots(seq), Scheduled, lost)
  <1> DEFINE T == Tables(seq)
             n == Slots(seq)
             c == Counts(seq)
  <1>1. Core(mem, T, n, c, lost) /\ mem \in Mems /\ Sound(mem) /\ seq \in [Seqs -> SeqRecs]
        /\ Setting
    BY ComputedIdle, InvFacts
  <1>2. \A b \in S : b \in Blocks /\ mem.ref[b] > 0
    <2> SUFFICES ASSUME NEW b \in S PROVE b \in Blocks /\ mem.ref[b] > 0
      OBVIOUS
    <2>1. PICK s \in Batch : b \in NewlyComputed(s)
      OBVIOUS
    <2>2. s \in Batched(out) /\ s \in Seqs
      BY BatchFacts
    <2>3. b \in ToSet(seq[s].table)
      BY <2>1, <2>2, BatchBlocks
    <2>4. b \in ToSet(T[s])
      BY <2>2, <2>3 DEF Tables
    <2> HIDE DEF T, n, c
    <2>5. b \in Blocks /\ mem.ref[b] > lost[b] /\ mem.ref[b] \in Nat /\ lost[b] \in Nat
      BY ONLY <1>1, <2>2, <2>4, CoreRefs
    <2> QED BY <2>5
  <1>3. /\ m2 \in Mems /\ m2.ref = mem.ref /\ m2.hash = mem.hash
        /\ m2.comp = mem.comp \cup S
    BY <1>1, <1>2 DEF Mems
  <1>4. Marks(mem, m2)
    BY <1>1, <1>2, <1>3 DEF Marks, Sound
  <1>5. Core(m2, T, n, c, lost)
    <2> HIDE DEF T, n, c
    <2> QED BY <1>1, <1>4, CoreMark
  <1>6. ASSUME NEW z \in Seqs PROVE Seated(m2, z, T[z], n[z], Scheduled[z])
    <2>1. Seated(m2, z, T[z], n[z], c[z])
      BY ONLY <1>5 DEF Core
    <2>2. CASE z \in Batched(out)
      <3>1. Scheduled[z] = ComputedAfter(z) /\ T[z] = seq[z].table
        BY <2>2 DEF Scheduled, Tables
      <3>2. \A i \in DOMAIN T[z] : i * BlockSize <= ComputedAfter(z) => T[z][i] \in S
        <4>1. \A i \in DOMAIN T[z] :
                 i * BlockSize <= ComputedAfter(z) => T[z][i] \in NewlyComputed(z)
          BY <2>2, <3>1, BatchBlocks
        <4>2. NewlyComputed(z) \subseteq S
          BY <2>2, BatchFacts
        <4> QED BY <4>1, <4>2
      <3> QED BY <1>3, <2>1, <3>1, <3>2 DEF Seated
    <2>3. CASE z \notin Batched(out)
      BY <2>1, <2>3 DEF Scheduled, Counts
    <2> QED BY ONLY <2>2, <2>3
  <1> QED BY <1>5, <1>6 DEF Core

\* The queues after the step is scheduled: the batch goes on running, and who was
\* preempted waits in front.
Requeued == running \o out.decodes \o Kept(out.prefills,
                {s \in Seqs : seq[s].len - seq[s].computed = out.chunk[s]})
            \o Kept(out.prefills, Seqs \ {s \in Seqs :
                        seq[s].len - seq[s].computed = out.chunk[s]})
            \o out.fresh

\* The requeued sequences are the running and the batched ones, each once.
LEMMA RequeuedFacts ==
    ASSUME EngineInv, phase = "scheduled"
    PROVE  /\ Requeued \in Seq(Seqs) /\ IsInjective(Requeued)
           /\ ToSet(Requeued) = ToSet(running) \cup Batched(out)
  <1> DEFINE E == {s \in Seqs : seq[s].len - seq[s].computed = out.chunk[s]}
             closing == Kept(out.prefills, E)
             going == Kept(out.prefills, Seqs \ E)
  <1>1. /\ out.decodes \in Seq(Seqs) /\ out.prefills \in Seq(Seqs) /\ out.fresh \in Seq(Seqs)
        /\ running \in Seq(Seqs) /\ IsInjective(running)
        /\ Apart(seq, waiting, running, out)
    BY InvFacts DEF Outs, Queues, Scheduling
  <1> HIDE DEF E
  <1>2. /\ closing \in Seq(Seqs) /\ ToSet(closing) = ToSet(out.prefills) \cap E
        /\ IsInjective(closing)
        /\ going \in Seq(Seqs) /\ ToSet(going) = ToSet(out.prefills) \cap (Seqs \ E)
        /\ IsInjective(going)
    BY <1>1, KeptSet DEF Apart
  <1>3. ToSet(out.prefills) \subseteq Seqs
    BY <1>1, ElementsIn
  <1>4. /\ ToSet(running) \cap ToSet(out.decodes) = {}
        /\ ToSet(out.decodes) \cap ToSet(out.prefills) = {}
        /\ ToSet(out.decodes) \cap ToSet(out.fresh) = {}
        /\ ToSet(running) \cap ToSet(out.prefills) = {}
        /\ ToSet(running) \cap ToSet(out.fresh) = {}
        /\ ToSet(out.prefills) \cap ToSet(out.fresh) = {}
        /\ IsInjective(out.decodes) /\ IsInjective(out.fresh)
    BY <1>1 DEF Apart, Batched
  <1> HIDE DEF closing, going
  <1> DEFINE p1 == running \o out.decodes
             p2 == p1 \o closing
             p3 == p2 \o going
             p4 == p3 \o out.fresh
  <1>5. /\ p1 \in Seq(Seqs) /\ ToSet(p1) = ToSet(running) \cup ToSet(out.decodes)
        /\ IsInjective(p1)
    BY <1>1, <1>4, ConcatSet
  <1> HIDE DEF p1
  <1>6. p2 \in Seq(Seqs) /\ ToSet(p2) = ToSet(p1) \cup ToSet(closing) /\ IsInjective(p2)
    <2>1. ToSet(p1) \cap ToSet(closing) = {}
      BY ONLY <1>2, <1>4, <1>5
    <2> QED BY <1>2, <1>5, <2>1, ConcatSet
  <1> HIDE DEF p2
  <1>7. p3 \in Seq(Seqs) /\ ToSet(p3) = ToSet(p2) \cup ToSet(going) /\ IsInjective(p3)
    <2>1. ToSet(p2) \cap ToSet(going) = {}
      BY <1>2, <1>4, <1>5, <1>6
    <2> QED BY <1>2, <1>6, <2>1, ConcatSet
  <1> HIDE DEF p3
  <1>8. p4 \in Seq(Seqs) /\ ToSet(p4) = ToSet(p3) \cup ToSet(out.fresh) /\ IsInjective(p4)
    <2>1. ToSet(p3) \cap ToSet(out.fresh) = {}
      BY <1>2, <1>4, <1>5, <1>6, <1>7
    <2> QED BY <1>1, <1>4, <1>7, <2>1, ConcatSet
  <1>9. ToSet(p4) = ToSet(running) \cup Batched(out)
    BY ONLY <1>2, <1>3, <1>5, <1>6, <1>7, <1>8 DEF Batched
  <1> HIDE DEF p4
  <1>10. Requeued = p4
    BY ONLY DEF Requeued, p4, p3, p2, p1, closing, going, E
  <1> QED BY <1>8, <1>9, <1>10

\* The batch is handed to the worker, and its tokens count as computed.
LEMMA EndScheduleStep ==
    ASSUME EngineInv, EndSchedule
    PROVE  SettledNext
  <1> DEFINE copies == out.swapOut \o pending.copies
             S == UNION {NewlyComputed(s) : s \in Batch}
             L == [b \in Blocks |-> Ranked(mem.last[b])]
             stamp(s) == Ranked(IF s \in Batch THEN Now ELSE seq[s].last)
  <1>1. /\ phase = "scheduled" /\ running' = Requeued
        /\ waiting' = Reverse(out.preempted) \o waiting
        /\ out' = [out EXCEPT !.swapOut = copies]
        /\ pending' = [pending EXCEPT !.copies = <<>>]
        /\ mem' = [mem EXCEPT !.comp = @ \cup S, !.last = L]
        /\ seq' = [s \in Seqs |-> [seq[s] EXCEPT !.last = stamp(s)]]
        /\ phase' = IF Batch = {} /\ copies = <<>> THEN "idle" ELSE "worker"
        /\ kv' = kv /\ entries' = entries /\ lost' = lost
    BY DEF EndSchedule, Requeued
  <1>2. /\ Setting /\ mem \in Mems /\ seq \in [Seqs -> SeqRecs] /\ out \in Outs
        /\ pending \in Pendings /\ waiting \in Seq(Seqs)
        /\ Apart(seq, waiting, running, out)
    BY <1>1, InvFacts DEF Queues, Scheduling
  <1>3. L \in [Blocks -> Int] /\ \A s \in Seqs : stamp(s) \in Int
    <2>1. \A t \in Int : Ranked(t) \in Int
      BY <1>2, StampFacts
    <2>2. Now \in Int
      BY <1>2, StampFacts
    <2>3. \A s \in Seqs : seq[s].last \in Int
      BY <1>2, SeqFacts
    <2>4. \A b \in Blocks : mem.last[b] \in Int
      BY <1>2 DEF Mems
    <2> QED BY <2>1, <2>2, <2>3, <2>4
  <1> HIDE DEF S, L, stamp
  <1>4. /\ seq' \in [Seqs -> SeqRecs]
        /\ \A x \in Seqs : /\ seq'[x].status = seq[x].status /\ seq'[x].len = seq[x].len
                           /\ seq'[x].computed = seq[x].computed
                           /\ seq'[x].slots = seq[x].slots /\ seq'[x].table = seq[x].table
    <2> SUFFICES ASSUME NEW x \in Seqs
                 PROVE  LET q == [seq[x] EXCEPT !.last = stamp(x)] IN
                        /\ q \in SeqRecs /\ q.status = seq[x].status /\ q.len = seq[x].len
                        /\ q.computed = seq[x].computed
                        /\ q.slots = seq[x].slots /\ q.table = seq[x].table
      BY <1>1
    <2> DEFINE g == stamp(x)
    <2>1. seq[x] \in SeqRecs /\ g \in Int
      BY <1>2, <1>3
    <2> HIDE DEF g
    <2>2. LET q == [seq[x] EXCEPT !.last = g] IN
          /\ q \in SeqRecs /\ q.status = seq[x].status /\ q.len = seq[x].len
          /\ q.computed = seq[x].computed
          /\ q.slots = seq[x].slots /\ q.table = seq[x].table
      BY <2>1 DEF SeqRecs
    <2> QED BY <2>2 DEF g
  <1>5. /\ out' \in Outs /\ out'.chunk = out.chunk /\ Batched(out') = Batched(out)
        /\ pending' \in Pendings /\ pending'.seqs = pending.seqs
    <2>1. copies \in Seq(Pairs)
      <3>1. out.swapOut \in Seq(Pairs) /\ pending.copies \in Seq(Pairs)
        BY <1>2 DEF Outs, Pendings
      <3> QED BY <3>1, ConcatSet
    <2> HIDE DEF copies
    <2>2. /\ out' \in Outs /\ out'.chunk = out.chunk /\ out'.decodes = out.decodes
          /\ out'.prefills = out.prefills /\ out'.fresh = out.fresh
      BY <1>1, <1>2, <2>1 DEF Outs
    <2>3. <<>> \in Seq(Pairs)
      OBVIOUS
    <2>4. pending' \in Pendings /\ pending'.seqs = pending.seqs
      BY <1>1, <1>2, <2>3 DEF Pendings
    <2> QED BY <2>2, <2>4 DEF Batched
  <1> HIDE DEF copies
  <1>6. phase' \in {"idle", "worker"} /\ (phase' = "idle" => Batched(out) = {})
    BY <1>1, BatchFacts
  <1>7. /\ running' \in Seq(Seqs) /\ IsInjective(running')
        /\ ToSet(running') = ToSet(running) \cup Batched(out)
    BY <1>1, RequeuedFacts
  <1>8. /\ waiting' \in Seq(Seqs) /\ IsInjective(waiting')
        /\ ToSet(waiting') = ToSet(waiting) \cup ToSet(out.preempted)
    <2> DEFINE p == out.preempted
               r == Reverse(p)
    <2>1. p \in Seq(Seqs) /\ IsInjective(p) /\ ToSet(p) \cap ToSet(waiting) = {}
          /\ IsInjective(waiting)
      BY <1>2, ListFacts DEF Apart, Outs
    <2> HIDE DEF p
    <2>2. r \in Seq(Seqs) /\ IsInjective(r) /\ ToSet(r) = ToSet(p)
      BY <2>1, ReverseSet
    <2>3. waiting' = r \o waiting
      BY <1>1 DEF p
    <2> HIDE DEF r
    <2>4. /\ waiting' \in Seq(Seqs) /\ IsInjective(waiting')
          /\ ToSet(waiting') = ToSet(r) \cup ToSet(waiting)
      BY ONLY <1>2, <2>1, <2>2, <2>3, ConcatSet
    <2> QED BY <2>2, <2>4 DEF p
  <1>9. Shape(phase', kv', seq', waiting', running', out', pending', entries')
    BY <1>1, <1>4, <1>5, <1>6, <1>7, <1>8, InvFacts DEF Shape, Phases
  <1>10. Core(mem', Tables(seq'), Slots(seq'), Computed(phase', seq', out'), lost')
    <2>1. Core(mem', Tables(seq), Slots(seq), Scheduled, lost)
      BY <1>1, <1>3, ScheduledCore DEF S
    <2>2. Tables(seq') = Tables(seq) /\ Slots(seq') = Slots(seq)
      BY <1>4, SameColumns
    <2>3. Computed(phase', seq', out') = Scheduled
      <3>1. CASE phase' = "worker"
        BY ONLY <1>4, <1>5, <3>1 DEF Computed, Scheduled, ComputedAfter
      <3>2. CASE phase' = "idle"
        BY ONLY <1>4, <1>6, <3>2 DEF Computed, Scheduled
      <3> QED BY ONLY <1>6, <3>1, <3>2
    <2> QED BY <1>1, <2>1, <2>2, <2>3
  <1>11. /\ \A z \in ToSet(running') : z \in Seqs /\ Active(seq[z])
         /\ \A z \in ToSet(waiting') : z \in Seqs /\ seq[z].status = "waiting"
    <2>1. \A z \in ToSet(running) : z \in Seqs /\ Active(seq[z])
      BY <1>1, ListFacts
    <2>2. \A z \in Batched(out) : z \in Seqs /\ Active(seq[z])
      BY <1>1, BatchFitted
    <2>3. \A z \in ToSet(out.preempted) : z \in Seqs /\ seq[z].status = "waiting"
      <3>1. ToSet(out.preempted) \subseteq Seqs
        BY <1>2, ElementsIn DEF Outs
      <3> QED BY <1>2, <3>1 DEF Apart
    <2>4. \A z \in ToSet(waiting) : z \in Seqs /\ seq[z].status = "waiting"
      BY ONLY EngineInv, ListFacts
    <2> QED BY <1>7, <1>8, <2>1, <2>2, <2>3, <2>4
  <1>12. Owners(phase', seq', running', pending', entries')
    <2>1. Owned(phase', seq', running', pending', entries')
      <3>1. \A s \in Seqs : seq[s].table # <<>> =>
                Active(seq[s]) \/ entries[info[s].key] = s \/ s \in ToSet(pending.seqs)
        BY <1>1, ListFacts DEF Owned
      <3> QED BY <1>1, <1>4, <1>5, <3>1 DEF Owned, Active
    <2>2. Fitting(seq', running')
      <3>1. \A s \in Seqs : /\ Active(seq[s]) => Fitted(seq[s])
                            /\ seq[s].status = "new" => seq[s].computed = 0
        BY ListFacts DEF Fitting
      <3>2. \A s \in Seqs : Fitted(seq'[s]) <=> Fitted(seq[s])
        BY <1>4 DEF Fitted
      <3>3. \A z \in ToSet(running') : seq'[z].status # "finished"
        BY <1>4, <1>11 DEF Active
      <3> QED BY <1>4, <3>1, <3>2, <3>3 DEF Fitting, Active
    <2>3. Leaving(seq', running', pending')
      <3>1. \A z \in ToSet(pending.seqs) : z \in Seqs /\ z \notin ToSet(running')
        BY <1>11, ListFacts DEF Leaving, Active
      <3> QED BY ONLY EngineInv, <1>4, <1>5, <3>1, ListFacts DEF Leaving
    <2>4. Retained(seq', running', pending', entries')
      <3>1. \A k \in Keys : entries[k] # None => entries[k] \in Seqs
        BY InvFacts
      <3>2. \A k \in Keys : entries[k] # None => entries[k] \notin ToSet(running')
        BY <1>11, ListFacts DEF Retained, Active
      <3> QED BY <1>1, <1>4, <1>5, <3>1, <3>2, ListFacts DEF Retained
    <2> QED BY <2>1, <2>2, <2>3, <2>4 DEF Owners
  <1>13. Queues(phase', seq', waiting', running', out')
    <2>1. \A z \in Batched(out') : seq'[z].slots = seq'[z].len
      BY ONLY EngineInv, <1>1, <1>4, <1>5, BatchFitted
    <2>2. Batched(out') \subseteq ToSet(running')
      BY <1>5, <1>7
    <2>3. /\ \A z \in ToSet(running') : Active(seq'[z])
          /\ \A z \in ToSet(waiting') : seq'[z].status = "waiting"
      BY <1>4, <1>11 DEF Active
    <2> QED BY <1>6, <1>7, <1>8, <2>1, <2>2, <2>3 DEF Queues, Scheduling
  <1> QED BY <1>9, <1>10, <1>12, <1>13 DEF SettledNext, Settled

-----------------------------------------------------------------------------
(***************************************************************************)
(* The worker.                                                             *)
(***************************************************************************)
Copying == INSTANCE Induction WITH Combine <- CopyBlock

Tensors == [Blocks -> [1..BlockSize -> HashSet]]

\* Copying blocks onto blocks.
LEMMA CopyFacts ==
    ASSUME NEW t, t \in Tensors, NEW map, map \in Seq(Pairs)
    PROVE  Copy(t, map) \in Tensors
  <1> DEFINE N == Len(map)
  <1>1. N \in Nat /\ DOMAIN map = 1..N /\ \A i \in 1..N : map[i] \in Pairs
    BY ElementsIn
  <1> HIDE DEF N
  <1>2. PICK run : Copying!Runs(run, N, t, map)
    BY <1>1, Copying!FoldRun
  <1>3. Copy(t, map) = Copying!Fold(t, map)
    BY DEF Copy, Copying!Fold, FoldLeft, MapThenFoldSet, Copying!FoldLeft,
           Copying!MapThenFoldSet, Copying!Max, Max
  <1>4. /\ run[0] = t /\ run[N] = Copy(t, map)
        /\ \A i \in 1..N : run[i] = CopyBlock(run[i - 1], map[i])
    BY <1>2, <1>3 DEF Copying!Runs
  <1> DEFINE S == {i \in 0..N : run[i] \in Tensors}
  <1>5. 0 \in S
    BY <1>1, <1>4
  <1>6. ASSUME NEW i \in 1..N, i - 1 \in S PROVE i \in S
    <2>1. /\ run[i - 1] \in Tensors /\ map[i] \in Pairs
          /\ run[i] = CopyBlock(run[i - 1], map[i])
      BY <1>1, <1>4, <1>6
    <2>2. map[i][1] \in Blocks /\ map[i][2] \in Blocks
      BY <2>1 DEF Pairs
    <2>3. run[i] \in Tensors
      BY <2>1, <2>2 DEF CopyBlock, Tensors
    <2> QED BY <1>1, <2>3
  <1>7. N \in S
    <2>1. \A i \in 1..N : i - 1 \in S => i \in S
      BY <1>6
    <2>2. N \in 0..N
      BY <1>1
    <2> HIDE DEF S
    <2> QED BY <1>1, <1>5, <2>1, <2>2, UpTo
  <1> QED BY <1>4, <1>7

\* What the tensors hold after the worker are contents.
LEMMA WorkerTensors ==
    ASSUME EngineInv, Worker
    PROVE  kv' \in Tensors
  <1> DEFINE t == Copy(Copy(kv, out.swapIn), out.swapOut)
             sound(s) == \A p \in 0..(FirstRun(s) - 1) : Holds(t, s, p)
             writers(b, j) == {x \in Batch \X (1..conf.gpu) :
                 /\ x[2] <= Len(seq[x[1]].table) /\ seq[x[1]].table[x[2]] = b
                 /\ (x[2] - 1) * BlockSize + j - 1 \in
                       FirstRun(x[1])..(ComputedAfter(x[1]) - 1)}
             cell(b, j) == IF writers(b, j) = {} THEN t[b][j]
                           ELSE IF \E x \in writers(b, j) : ~sound(x[1]) THEN NoHash
                           ELSE LET x == CHOOSE x \in writers(b, j) : TRUE IN Hash(x[1], x[2])
  <1>1. kv' = [b \in Blocks |-> [j \in 1..BlockSize |-> cell(b, j)]]
    BY DEF Worker
  <1>2. t \in Tensors
    <2> DEFINE u == Copy(kv, out.swapIn)
    <2>1. kv \in Tensors /\ out.swapIn \in Seq(Pairs) /\ out.swapOut \in Seq(Pairs)
      <3>1. kv \in Tensors /\ out \in Outs
        BY InvFacts DEF Tensors
      <3> QED BY ONLY <3>1 DEF Outs
    <2>2. u \in Tensors
      BY ONLY <2>1, CopyFacts
    <2> HIDE DEF u
    <2>3. Copy(u, out.swapOut) \in Tensors
      <3>1. u \in Tensors /\ out.swapOut \in Seq(Pairs)
        BY ONLY <2>1, <2>2
      <3> QED BY ONLY <3>1, CopyFacts, Zenon
    <2> QED BY <2>3 DEF u
  <1> HIDE DEF t, sound
  <1>3. ASSUME NEW b \in Blocks, NEW j \in 1..BlockSize PROVE cell(b, j) \in HashSet
    <2> DEFINE w == writers(b, j)
    <2>1. CASE w = {}
      <3>1. cell(b, j) = t[b][j]
        BY <2>1
      <3> HIDE DEF cell
      <3>2. t[b][j] \in HashSet
        BY <1>2 DEF Tensors
      <3> QED BY <3>1, <3>2
    <2>2. CASE w # {}
      <3> DEFINE x == CHOOSE x \in w : TRUE
      <3>1. w \subseteq Batch \X (1..conf.gpu)
        OBVIOUS
      <3> HIDE DEF w
      <3>2. x \in w
        BY <2>2, Zenon
      <3> HIDE DEF x
      <3>3. x[1] \in Seqs /\ x[2] \in Nat \ {0}
        <4>1. x \in Batch \X (1..conf.gpu)
          BY ONLY <3>1, <3>2
        <4>2. conf.gpu \in Nat
          BY InvFacts DEF Setting, Conf
        <4> QED BY <4>1, <4>2, BatchFacts
      <3>4. Hash(x[1], x[2]) \in HashSet /\ NoHash \in HashSet
        BY ONLY EngineInv, <3>3, HashFacts, InvFacts
      <3>5. cell(b, j) = IF \E y \in w : ~sound(y[1]) THEN NoHash ELSE Hash(x[1], x[2])
        BY <2>2 DEF w, x
      <3> HIDE DEF cell
      <3> QED BY ONLY <3>4, <3>5
    <2> QED BY <2>1, <2>2
  <1> HIDE DEF cell
  <1>4. kv' \in [Blocks -> [1..BlockSize -> HashSet]]
    BY <1>1, <1>3
  <1> QED BY ONLY <1>4 DEF Tensors

\* The worker changes nothing but the tensors.
LEMMA WorkerStep ==
    ASSUME EngineInv, Worker
    PROVE  SettledNext
  <1>1. /\ phase = "worker" /\ phase' = "process" /\ mem' = mem /\ seq' = seq
        /\ waiting' = waiting /\ running' = running /\ out' = out
        /\ pending' = pending /\ entries' = entries /\ lost' = lost
    BY DEF Worker
  <1>2. Shape(phase', kv', seq', waiting', running', out', pending', entries')
    <2>1. kv' \in [Blocks -> [1..BlockSize -> HashSet]]
      BY WorkerTensors DEF Tensors
    <2> QED BY <1>1, <2>1, InvFacts DEF Shape, Phases
  <1>3. Core(mem', Tables(seq'), Slots(seq'), Computed(phase', seq', out'), lost')
    <2>1. Computed(phase', seq', out') = Computed(phase, seq, out)
      BY ONLY <1>1 DEF Computed
    <2> QED BY ONLY EngineInv, <1>1, <2>1, InvFacts
  <1>4. Owners(phase', seq', running', pending', entries')
    BY <1>1, InvFacts DEF Owners, Owned, Fitting, Leaving, Retained
  <1>5. Queues(phase', seq', waiting', running', out')
    BY <1>1, InvFacts DEF Queues, Scheduling
  <1> QED BY <1>2, <1>3, <1>4, <1>5 DEF SettledNext, Settled

-----------------------------------------------------------------------------
(***************************************************************************)
(* The results.                                                            *)
(***************************************************************************)
\* Fewer tokens count as computed.
LEMMA CoreFewer ==
    ASSUME NEW m, NEW T, NEW n, NEW c, NEW l, Core(m, T, n, c, l), NEW c2,
           \A s \in Seqs : c[s] \in Nat /\ c2[s] \in Nat /\ c2[s] <= c[s]
    PROVE  Core(m, T, n, c2, l)
  <1>1. ASSUME NEW s \in Seqs PROVE Seated(m, s, T[s], n[s], c2[s])
    <2>1. Seated(m, s, T[s], n[s], c[s]) /\ T[s] \in Seq(Blocks)
      BY DEF Core
    <2>2. c[s] \in Nat /\ c2[s] \in Nat /\ c2[s] <= c[s]
      OBVIOUS
    <2>3. \A i \in DOMAIN T[s] : i * BlockSize \in Int
      <3>1. DOMAIN T[s] \subseteq Int
        BY <2>1
      <3> QED BY <3>1, Scaling
    <2> QED BY <2>1, <2>2, <2>3 DEF Seated
  <1> QED BY <1>1 DEF Core

\* A sequence of the batch after its results: still active, or finished with all
\* but its last token computed.
LEMMA AdvanceFacts ==
    ASSUME EngineInv, phase = "process", ~Overrun, NEW s \in Seqs
    PROVE  /\ Advance(s) \in SeqRecs
           /\ Advance(s).table = seq[s].table /\ Advance(s).slots = seq[s].slots
           /\ Advance(s).computed = Computed(phase, seq, out)[s]
           /\ Advance(s).computed <= Advance(s).len /\ info[s].prompt <= Advance(s).len
           /\ s \notin Batch => Advance(s) = seq[s]
           /\ s \in Batch => /\ Active(Advance(s)) \/ Advance(s).status = "finished"
                             /\ Advance(s).status # "new" /\ Fitted(Advance(s))
                             /\ Advance(s).status = "finished"
                                => Advance(s).computed = Advance(s).slots
  <1> DEFINE q == seq[s]
             c == q.computed + out.chunk[s]
             a == Advance(s)
  <1>1. /\ q \in SeqRecs /\ q.len \in Nat /\ q.computed \in Nat /\ q.computed <= q.len
        /\ info[s].prompt <= q.len /\ c \in Nat /\ info[s].prompt \in Nat
        /\ q.slots \in Nat /\ q.computed <= c
    <2>1. out.chunk[s] \in Nat
      BY InvFacts DEF Outs
    <2>2. info[s] \in Job
      BY ONLY EngineInv, InvFacts, HashFacts
    <2>3. /\ q \in SeqRecs /\ q.len \in Nat /\ q.computed \in Nat /\ q.computed <= q.len
          /\ info[s].prompt <= q.len /\ q.slots \in Nat
      BY InvFacts, SeqFacts
    <2>4. info[s].prompt \in Nat
      BY <2>2 DEF Job
    <2>5. c \in Nat /\ q.computed <= c
      BY <2>1, <2>3
    <2> QED BY <2>3, <2>4, <2>5
  <1>2. Batch = Batched(out)
    BY BatchFacts
  <1>3. CASE s \notin Batch
    BY <1>1, <1>2, <1>3 DEF Advance, Computed
  <1>4. CASE s \in Batch
    <2>1. c <= q.len
      BY <1>1, <1>4 DEF Overrun
    <2>2. Computed(phase, seq, out)[s] = c
      BY <1>1, <1>2, <1>4, <2>1 DEF Computed, Least
    <2>3. s \in ToSet(running) /\ q.slots = q.len
      BY <1>2, <1>4, InvFacts DEF Queues, Scheduling
    <2>4. Active(q) /\ Fitted(q)
      BY <2>3, ListFacts DEF Fitting
    <2>5. \/ c < q.len /\ a = [q EXCEPT !.computed = c]
          \/ c = q.len /\ a = [q EXCEPT !.computed = c, !.len = @ + 1, !.status = "finished"]
          \/ c = q.len /\ a = [q EXCEPT !.computed = c, !.len = @ + 1, !.status = "decode"]
      <3> DEFINE done == q.len + 1 >= info[s].prompt + Most(info[s].output, 1)
      <3>1. a = IF c < q.len THEN [q EXCEPT !.computed = c]
                ELSE [q EXCEPT !.computed = c, !.len = @ + 1,
                               !.status = IF done THEN "finished" ELSE "decode"]
        BY <1>4 DEF Advance
      <3> HIDE DEF done, q, c, a
      <3>2. c < q.len \/ c = q.len
        BY ONLY <1>1, <2>1
      <3> QED BY <1>1, <3>1, <3>2
    <2> HIDE DEF q, c, a
    <2>6. \/ /\ c < q.len /\ a \in SeqRecs /\ a.table = q.table /\ a.slots = q.slots
             /\ a.computed = c /\ a.len = q.len /\ a.status = q.status
          \/ /\ c = q.len /\ a \in SeqRecs /\ a.table = q.table /\ a.slots = q.slots
             /\ a.computed = c /\ a.len = q.len + 1 /\ a.status \in {"finished", "decode"}
      <3>1. CASE c < q.len /\ a = [q EXCEPT !.computed = c]
        BY <1>1, <3>1 DEF SeqRecs
      <3>2. ASSUME c = q.len, NEW st \in {"finished", "decode"},
                   a = [q EXCEPT !.computed = c, !.len = @ + 1, !.status = st]
            PROVE  /\ c = q.len /\ a \in SeqRecs /\ a.table = q.table /\ a.slots = q.slots
                   /\ a.computed = c /\ a.len = q.len + 1 /\ a.status \in {"finished", "decode"}
        <4> DEFINE k == q.len + 1
        <4>1. k \in Nat /\ st \in Statuses
          BY <1>1 DEF Statuses, Live
        <4> HIDE DEF k
        <4>2. a = [q EXCEPT !.computed = c, !.len = k, !.status = st]
          BY <3>2 DEF k
        <4>3. /\ a \in SeqRecs /\ a.table = q.table /\ a.slots = q.slots
              /\ a.computed = c /\ a.len = k /\ a.status = st
          BY <1>1, <4>1, <4>2 DEF SeqRecs
        <4> QED BY <3>2, <4>3 DEF k
      <3> QED BY ONLY <2>5, <3>1, <3>2
    <2>7. a \in SeqRecs /\ a.table = q.table /\ a.slots = q.slots /\ a.computed = c
      BY <2>6
    <2>8. a.computed <= a.len /\ info[s].prompt <= a.len
      BY <1>1, <2>1, <2>6
    <2>9. (Active(a) \/ a.status = "finished") /\ a.status # "new"
      BY <2>4, <2>6 DEF Active
    <2>10. /\ q.table # <<>> /\ (Len(q.table) - 1) * BlockSize < q.slots
           /\ q.slots <= Len(q.table) * BlockSize
      BY <2>4 DEF Fitted
    <2>11. a.slots <= a.len /\ a.len <= a.slots + 1 /\ a.computed <= a.slots
      BY <1>1, <2>1, <2>3, <2>6 DEF q
    <2>12. Fitted(a)
      BY <2>7, <2>10, <2>11 DEF Fitted
    <2>13. a.status = "finished" => a.computed = a.slots
      BY ONLY <1>1, <2>3, <2>4, <2>6 DEF q, Active
    <2> QED BY ONLY <1>4, <2>2, <2>7, <2>8, <2>9, <2>12, <2>13 DEF a, q
  <1> QED BY <1>3, <1>4

Freeing == INSTANCE Induction WITH Combine <- FreeSeq

\* The tables and slots when the sequences of S have lost theirs.
TablesBut(S) == [s \in Seqs |-> IF s \in S THEN <<>> ELSE seq[s].table]
SlotsBut(S) == [s \in Seqs |-> IF s \in S THEN 0 ELSE seq[s].slots]

\* The tables of a list of sequences are freed, one after the other.
LEMMA FreeAllCore ==
    ASSUME EngineInv, NEW c, Core(mem, Tables(seq), Slots(seq), c, lost),
           NEW q, q \in Seq(Seqs), IsInjective(q)
    PROVE  Core(FoldLeft(FreeSeq, mem, q), TablesBut(ToSet(q)), SlotsBut(ToSet(q)), c, lost)
  <1> DEFINE N == Len(q)
             G(i) == {q[j] : j \in 1..i}
             R(i) == TablesBut(G(i))
             M(i) == SlotsBut(G(i))
  <1>1. /\ N \in Nat /\ DOMAIN q = 1..N /\ \A i \in 1..N : q[i] \in Seqs
        /\ ToSet(q) = G(N)
    BY ElementsIn DEF ToSet
  <1> HIDE DEF N
  <1>2. Setting /\ seq \in [Seqs -> SeqRecs]
    BY InvFacts
  <1>3. PICK run : Freeing!Runs(run, N, mem, q)
    BY <1>1, Freeing!FoldRun
  <1>4. FoldLeft(FreeSeq, mem, q) = Freeing!Fold(mem, q)
    BY DEF Freeing!Fold, FoldLeft, MapThenFoldSet, Freeing!FoldLeft,
           Freeing!MapThenFoldSet, Freeing!Max, Max
  <1>5. /\ run[0] = mem /\ run[N] = FoldLeft(FreeSeq, mem, q)
        /\ \A i \in 1..N : run[i] = FreeSeq(run[i - 1], q[i])
    BY <1>3, <1>4 DEF Freeing!Runs
  <1> DEFINE S == {i \in 0..N : Core(run[i], R(i), M(i), c, lost)}
  <1>6. 0 \in S
    <2>1. G(0) = {}
      OBVIOUS
    <2>2. R(0) = Tables(seq) /\ M(0) = Slots(seq)
      BY <2>1 DEF TablesBut, SlotsBut, Tables, Slots
    <2>3. Core(run[0], R(0), M(0), c, lost)
      BY <1>5, <2>2
    <2>4. 0 \in 0..N
      BY ONLY <1>1
    <2> QED BY ONLY <2>3, <2>4
  <1>7. ASSUME NEW i \in 1..N, i - 1 \in S PROVE i \in S
    <2> DEFINE x == q[i]
               T1 == R(i - 1)
               n1 == M(i - 1)
               T2 == R(i)
               n2 == M(i)
               m == run[i - 1]
    <2>1. x \in Seqs /\ run[i] = FreeSeq(m, x) /\ Core(m, T1, n1, c, lost)
      BY ONLY <1>1, <1>5, <1>7
    <2>2. G(i) = G(i - 1) \cup {x} /\ x \notin G(i - 1)
      BY <1>1 DEF IsInjective
    <2> HIDE DEF G
    <2>3. T1[x] = seq[x].table /\ T2[x] = <<>>
      BY <2>1, <2>2 DEF TablesBut
    <2>4. Alike(T1, T2, x) /\ Alike(n1, n2, x) /\ Alike(c, c, x)
      BY ONLY <2>2 DEF TablesBut, SlotsBut, Alike
    <2>5. T2 \in [Seqs -> Seq(Blocks)]
      <3>1. \A s \in Seqs : seq[s].table \in Seq(Blocks)
        BY <1>2, SeqFacts
      <3>2. <<>> \in Seq(Blocks)
        OBVIOUS
      <3> QED BY ONLY <3>1, <3>2 DEF TablesBut
    <2> HIDE DEF T1, T2, n1, n2, m, x
    <2>6. Emptied(T1, n1, c, T2, n2, c, x)
      BY ONLY <2>3, <2>4, <2>5 DEF Emptied
    <2>7. Core(FreeSeq(m, x), T2, n2, c, lost)
      BY <1>2, <2>1, <2>3, <2>6, CoreFreeSeq
    <2> QED BY ONLY <1>1, <2>1, <2>7 DEF T2, n2
  <1>8. N \in S
    <2>1. \A i \in 1..N : i - 1 \in S => i \in S
      BY <1>7
    <2>2. N \in 0..N
      BY <1>1
    <2> HIDE DEF S
    <2> QED BY <1>1, <1>6, <2>1, <2>2, UpTo
  <1> QED BY ONLY <1>1, <1>5, <1>8

\* The results do not fit the sequences: the engine stops, with its blocks as
\* they were.
LEMMA OverrunStep ==
    ASSUME EngineInv, Process, Overrun
    PROVE  SettledNext
  <1>1. /\ phase = "process" /\ phase' = "overrun" /\ mem' = mem /\ seq' = seq
        /\ pending' = pending /\ out' = NoOut /\ kv' = kv /\ waiting' = waiting
        /\ running' = running /\ entries' = entries /\ lost' = lost
    BY DEF Process
  <1>2. out' \in Outs
    BY ONLY <1>1 DEF NoOut, Outs
  <1>3. Shape(phase', kv', seq', waiting', running', out', pending', entries')
    BY ONLY EngineInv, <1>1, <1>2, InvFacts DEF Shape, Phases
  <1>4. Core(mem', Tables(seq'), Slots(seq'), Computed(phase', seq', out'), lost')
    <2> DEFINE T == Tables(seq)
               n == Slots(seq)
               c == Computed(phase, seq, out)
               c2 == Counts(seq)
    <2>1. Core(mem, T, n, c, lost)
      BY ONLY EngineInv, InvFacts
    <2>2. \A s \in Seqs : c[s] \in Nat /\ c2[s] \in Nat /\ c2[s] <= c[s]
      <3> SUFFICES ASSUME NEW s \in Seqs PROVE c[s] \in Nat /\ c2[s] \in Nat /\ c2[s] <= c[s]
        OBVIOUS
      <3>1. /\ seq[s].len \in Nat /\ seq[s].computed \in Nat
            /\ seq[s].computed <= seq[s].len
        BY InvFacts, SeqFacts
      <3>2. out.chunk[s] \in Nat
        BY InvFacts DEF Outs
      <3> QED BY <3>1, <3>2 DEF Computed, Counts, Least
    <2> HIDE DEF T, n, c, c2
    <2>3. Core(mem, T, n, c2, lost)
      BY <2>1, <2>2, CoreFewer
    <2>4. Computed(phase', seq', out') = c2
      BY <1>1, ComputedIdle DEF c2
    <2> QED BY ONLY <1>1, <2>3, <2>4 DEF T, n
  <1>5. Owners(phase', seq', running', pending', entries')
    BY ONLY EngineInv, <1>1, InvFacts DEF Owners, Owned, Fitting, Leaving, Retained
  <1>6. Queues(phase', seq', waiting', running', out')
    BY ONLY EngineInv, <1>1, InvFacts DEF Queues, Scheduling
  <1> QED BY ONLY <1>3, <1>4, <1>5, <1>6 DEF SettledNext, Settled

\* The results are processed; when somebody finished, the tables that the worker
\* has copied are freed first.
LEMMA ProcessStep ==
    ASSUME EngineInv, Process, ~Overrun
    PROVE  SettledNext
  <1> DEFINE some == \E s \in Batch : Advance(s).status = "finished"
             gone == IF some THEN pending.seqs ELSE <<>>
             D == ToSet(gone)
             A(s) == Advance(s)
  <1>1. /\ phase = "process" /\ phase' = IF some THEN "finish" ELSE "idle"
        /\ mem' = FoldLeft(FreeSeq, mem, gone)
        /\ seq' = [s \in Seqs |-> IF s \in D THEN Unowned(A(s)) ELSE A(s)]
        /\ pending' = [pending EXCEPT !.seqs = IF some THEN <<>> ELSE @]
        /\ out' = NoOut /\ kv' = kv /\ waiting' = waiting
        /\ running' = running /\ entries' = entries /\ lost' = lost
    <2> DEFINE next == [s \in Seqs |-> Advance(s)]
    <2>1. Batch \subseteq Seqs
      BY BatchFacts
    <2>2. \A s \in Seqs : next[s] = Advance(s)
      OBVIOUS
    <2>3. (\E s \in Batch : next[s].status = "finished") <=> some
      BY <2>1, <2>2
    <2> QED BY <2>2, <2>3 DEF Process
  <1>2. /\ gone \in Seq(Seqs) /\ IsInjective(gone) /\ D \subseteq ToSet(pending.seqs)
        /\ (some => D = ToSet(pending.seqs))
        /\ (~some => D = {} /\ pending'.seqs = pending.seqs)
        /\ (some => pending'.seqs = <<>>) /\ pending' \in Pendings
    <2>1. pending.seqs \in Seq(Seqs) /\ IsInjective(pending.seqs) /\ pending \in Pendings
      BY ListFacts, InvFacts DEF Leaving
    <2>2. <<>> \in Seq(Seqs) /\ IsInjective(<<>>) /\ ToSet(<<>>) = {}
      BY DEF IsInjective, ToSet
    <2>3. CASE some
      <3>1. pending' = [pending EXCEPT !.seqs = <<>>]
        BY <1>1, <2>3
      <3>2. pending' \in Pendings /\ pending'.seqs = <<>>
        BY <2>1, <2>2, <3>1 DEF Pendings
      <3> QED BY ONLY <2>1, <2>3, <3>2
    <2>4. CASE ~some
      <3>1. pending' = pending
        BY <1>1, <2>1, <2>4 DEF Pendings
      <3> QED BY <2>1, <2>2, <2>4, <3>1
    <2> QED BY <2>3, <2>4
  <1>3. /\ Batch \subseteq ToSet(running) /\ Batch \subseteq Seqs
        /\ \A s \in ToSet(running) : s \in Seqs /\ Active(seq[s])
        /\ \A s \in ToSet(pending.seqs) :
              s \in Seqs /\ s \notin ToSet(running) /\ seq[s].status = "finished"
    BY <1>1, BatchFacts, InvFacts, ListFacts DEF Queues, Leaving
  <1>4. ASSUME NEW s \in Seqs
        PROVE  /\ A(s) \in SeqRecs /\ A(s).table = seq[s].table /\ A(s).slots = seq[s].slots
               /\ A(s).computed = Computed(phase, seq, out)[s]
               /\ A(s).computed <= A(s).len /\ info[s].prompt <= A(s).len
               /\ s \notin Batch => A(s) = seq[s]
               /\ s \in Batch => /\ Active(A(s)) \/ A(s).status = "finished"
                                 /\ A(s).status # "new" /\ Fitted(A(s))
                                 /\ A(s).status = "finished" => A(s).computed = A(s).slots
    BY <1>1, AdvanceFacts
  <1> HIDE DEF A
  <1>5. /\ seq' \in [Seqs -> SeqRecs]
        /\ \A s \in Seqs : /\ seq'[s].status = A(s).status /\ seq'[s].len = A(s).len
                           /\ seq'[s].computed = A(s).computed
                           /\ s \notin D => seq'[s] = A(s)
                           /\ s \in D => seq'[s].table = <<>> /\ seq'[s].slots = 0
    <2> SUFFICES ASSUME NEW s \in Seqs
                 PROVE  /\ seq'[s] \in SeqRecs
                        /\ seq'[s].status = A(s).status /\ seq'[s].len = A(s).len
                        /\ seq'[s].computed = A(s).computed
                        /\ s \notin D => seq'[s] = A(s)
                        /\ s \in D => seq'[s].table = <<>> /\ seq'[s].slots = 0
      BY <1>1
    <2>1. seq'[s] = IF s \in D THEN Unowned(A(s)) ELSE A(s)
      BY <1>1
    <2>2. A(s) \in SeqRecs
      BY <1>4
    <2> HIDE DEF D
    <2> QED BY ONLY <2>1, <2>2, UnownedFacts
  <1> HIDE DEF some, gone, D
  <1>6. out' \in Outs
    BY <1>1 DEF NoOut, Outs
  <1>7. phase' \in {"idle", "finish"} /\ (phase' = "finish" <=> some)
    BY ONLY <1>1
  <1>8. Shape(phase', kv', seq', waiting', running', out', pending', entries')
    BY <1>1, <1>2, <1>4, <1>5, <1>6, <1>7, InvFacts DEF Shape, Phases
  <1>9. Core(mem', Tables(seq'), Slots(seq'), Computed(phase', seq', out'), lost')
    <2> DEFINE c == Computed(phase, seq, out)
    <2>1. Core(mem, Tables(seq), Slots(seq), c, lost)
      BY InvFacts
    <2>2. Computed(phase', seq', out') = c
      <3>1. Computed(phase', seq', out') = Counts(seq')
        BY ONLY <1>7, ComputedIdle
      <3>2. Counts(seq') = c
        BY <1>4, <1>5 DEF Counts, Computed
      <3> QED BY ONLY <3>1, <3>2
    <2> HIDE DEF c
    <2>3. Core(FoldLeft(FreeSeq, mem, gone), TablesBut(D), SlotsBut(D), c, lost)
      BY <1>2, <2>1, FreeAllCore DEF D
    <2>4. Tables(seq') = TablesBut(D) /\ Slots(seq') = SlotsBut(D)
      BY <1>4, <1>5 DEF Tables, Slots, TablesBut, SlotsBut
    <2> QED BY ONLY <1>1, <2>2, <2>3, <2>4
  <1>10. \A s \in ToSet(pending.seqs) : s \notin Batch /\ A(s) = seq[s]
    BY <1>3, <1>4
  <1>11. \A s \in Seqs \ Batch : /\ s \notin D => seq'[s] = seq[s]
                                 /\ seq'[s].status = seq[s].status
    BY <1>4, <1>5
  <1>12. \A s \in Batch : seq'[s] = A(s)
    BY <1>2, <1>3, <1>5
  <1>13. Owned(phase', seq', running', pending', entries')
    <2> SUFFICES ASSUME NEW s \in Seqs, seq'[s].table # <<>>
                 PROVE  \/ Active(seq'[s]) \/ entries[info[s].key] = s
                        \/ s \in ToSet(pending'.seqs)
                        \/ phase' = "finish" /\ s \in ToSet(running) /\ seq'[s].status = "finished"
      BY <1>1 DEF Owned
    <2>1. s \notin D /\ seq'[s] = A(s)
      BY <1>5
    <2>2. CASE s \in Batch
      <3>1. A(s).status = "finished" => some
        BY <2>2 DEF some, A
      <3> QED BY ONLY <1>3, <1>4, <1>7, <2>1, <2>2, <3>1
    <2>3. CASE s \notin Batch
      <3>1. seq'[s] = seq[s]
        BY ONLY <1>11, <2>1, <2>3
      <3>2. Active(seq[s]) \/ entries[info[s].key] = s \/ s \in ToSet(pending.seqs)
        BY <1>1, <3>1, ListFacts DEF Owned
      <3>3. s \in ToSet(pending.seqs) => s \in ToSet(pending'.seqs)
        BY ONLY <1>2, <2>1
      <3> QED BY ONLY <3>1, <3>2, <3>3
    <2> QED BY <2>2, <2>3
  <1>14. Fitting(seq', running')
    <2>1. ASSUME NEW s \in Seqs PROVE /\ Active(seq'[s]) => Fitted(seq'[s])
                                      /\ seq'[s].status = "new" => seq'[s].computed = 0
      <3>1. CASE s \in Batch
        BY ONLY <1>4, <1>12, <3>1
      <3>2. CASE s \notin Batch /\ s \notin D
        BY <1>11, <3>2, ListFacts DEF Fitting
      <3>3. CASE s \notin Batch /\ s \in D
        BY <1>2, <1>3, <1>11, <3>3 DEF Active
      <3> QED BY <3>1, <3>2, <3>3
    <2>2. ASSUME NEW s \in ToSet(running), seq'[s].status = "finished"
          PROVE  Fitted(seq'[s]) /\ seq'[s].computed = seq'[s].slots
      <3>1. s \in Seqs /\ seq[s].status # "finished"
        BY <1>3 DEF Active
      <3>2. s \in Batch
        BY <1>11, <2>2, <3>1
      <3> QED BY <1>4, <1>12, <2>2, <3>1, <3>2
    <2> QED BY ONLY <1>1, <2>1, <2>2 DEF Fitting
  <1>15. Leaving(seq', running', pending')
    <2>1. CASE some
      <3>1. IsInjective(pending'.seqs) /\ ToSet(pending'.seqs) = {}
        BY <1>2, <2>1 DEF IsInjective, ToSet
      <3>2. ASSUME NEW s \in Seqs PROVE ToSet(seq'[s].table) \subseteq Gpu
        <4>1. CASE s \in D
          <5>1. ToSet(<<>>) = {}
            BY DEF ToSet
          <5> QED BY ONLY <1>5, <4>1, <5>1
        <4>2. CASE s \notin D
          <5>1. s \notin ToSet(pending.seqs) /\ seq'[s].table = seq[s].table
            BY <1>2, <1>4, <1>5, <2>1, <4>2
          <5> QED BY ONLY EngineInv, <5>1, ListFacts DEF Leaving
        <4> QED BY <4>1, <4>2
      <3> QED BY <3>1, <3>2 DEF Leaving
    <2>2. CASE ~some
      <3>1. D = {} /\ pending'.seqs = pending.seqs
        BY <1>2, <2>2
      <3>2. \A s \in Seqs : seq'[s].table = seq[s].table
        BY ONLY <1>4, <1>5, <3>1
      <3>3. \A s \in ToSet(pending.seqs) : seq'[s] = seq[s]
        BY ONLY <1>3, <1>10, <1>11, <3>1
      <3> QED BY <1>1, <3>1, <3>2, <3>3, ListFacts DEF Leaving
    <2> QED BY <2>1, <2>2
  <1>16. Retained(seq', running', pending', entries')
    <2> SUFFICES ASSUME NEW k \in Keys, entries[k] # None
                 PROVE  /\ info[entries[k]].key = k
                        /\ seq'[entries[k]].status = "finished" /\ seq'[entries[k]].table # <<>>
                        /\ entries[k] \notin ToSet(running)
                        /\ entries[k] \notin ToSet(pending'.seqs)
      BY <1>1 DEF Retained
    <2>1. /\ info[entries[k]].key = k /\ entries[k] \in Seqs
          /\ seq[entries[k]].status = "finished" /\ seq[entries[k]].table # <<>>
          /\ entries[k] \notin ToSet(running) /\ entries[k] \notin ToSet(pending.seqs)
      BY InvFacts, ListFacts DEF Retained
    <2>2. entries[k] \notin Batch /\ entries[k] \notin D
      BY ONLY <1>2, <1>3, <2>1
    <2>3. seq'[entries[k]] = seq[entries[k]]
      BY ONLY <1>11, <2>1, <2>2
    <2>4. entries[k] \notin ToSet(pending'.seqs)
      <3>1. ToSet(<<>>) = {}
        BY ONLY DEF ToSet
      <3> QED BY ONLY <1>2, <2>1, <3>1
    <2> QED BY ONLY <2>1, <2>3, <2>4
  <1>17. Queues(phase', seq', waiting', running', out')
    <2>1. \A s \in ToSet(waiting) : seq'[s].status = "waiting"
      <3>1. \A s \in ToSet(waiting) : s \in Seqs /\ seq[s].status = "waiting"
        BY ListFacts
      <3>2. \A s \in ToSet(waiting) : s \notin Batch
        BY <1>3, <3>1 DEF Active
      <3> QED BY ONLY <1>11, <3>1, <3>2
    <2>2. \A s \in ToSet(running) : Active(seq'[s]) \/ (some /\ seq'[s].status = "finished")
      <3> SUFFICES ASSUME NEW s \in ToSet(running)
                   PROVE  Active(seq'[s]) \/ (some /\ seq'[s].status = "finished")
        OBVIOUS
      <3>1. CASE s \in Batch
        <4>1. A(s).status = "finished" => some
          BY ONLY <3>1 DEF some, A
        <4> QED BY <1>3, <1>4, <1>12, <3>1, <4>1
      <3>2. CASE s \notin Batch
        BY ONLY <1>3, <1>11, <3>2 DEF Active
      <3> QED BY <3>1, <3>2
    <2>3. some => \E s \in ToSet(running) : seq'[s].status = "finished"
      <3>1. some => \E s \in Batch : A(s).status = "finished"
        BY DEF some, A
      <3> QED BY ONLY <1>3, <1>12, <3>1
    <2>4. IsInjective(waiting) /\ IsInjective(running)
      BY ONLY EngineInv, ListFacts
    <2> QED BY <1>1, <1>7, <2>1, <2>2, <2>3, <2>4 DEF Queues, Scheduling
  <1> QED BY <1>8, <1>9, <1>13, <1>14, <1>15, <1>16, <1>17 DEF SettledNext, Settled, Owners

-----------------------------------------------------------------------------
(***************************************************************************)
(* Finished sequences.                                                     *)
(***************************************************************************)
\* The first of the finished sequences in the running queue, and the queue
\* without it.
LEMMA HeadFinished ==
    ASSUME EngineInv, phase = "finish", NEW s, s = Head(Finished),
           NEW R, R = Kept(running, Seqs \ {s})
    PROVE  /\ s \in Seqs /\ s \in ToSet(running) /\ seq[s].status = "finished"
           /\ Fitted(seq[s]) /\ seq[s].computed = seq[s].slots
           /\ s \notin ToSet(pending.seqs) /\ ToSet(seq[s].table) \subseteq Gpu
           /\ \A e \in Keys : entries[e] # s
           /\ R \in Seq(Seqs) /\ IsInjective(R) /\ ToSet(R) = ToSet(running) \ {s}
           /\ Len(Finished) = 1 => \A z \in ToSet(R) : Active(seq[z])
           /\ Len(Finished) # 1 => \E z \in ToSet(R) : seq[z].status = "finished"
  <1> DEFINE E == {z \in Seqs : seq[z].status = "finished"}
             F == Kept(running, E)
  <1>1. /\ running \in Seq(Seqs) /\ IsInjective(running) /\ ToSet(running) \subseteq Seqs
        /\ \A z \in ToSet(running) : Active(seq[z]) \/ seq[z].status = "finished"
    BY InvFacts, ListFacts
  <1>2. Finished = F
    BY DEF Finished
  <1> HIDE DEF E
  <1>3. F \in Seq(Seqs) /\ IsInjective(F) /\ ToSet(F) = ToSet(running) \cap E
    BY <1>1, KeptSet
  <1> HIDE DEF F
  <1>4. F # <<>>
    <2>1. \E z \in ToSet(running) : seq[z].status = "finished"
      BY InvFacts DEF Queues
    <2>2. ToSet(F) # {}
      BY ONLY <1>1, <1>3, <2>1 DEF E
    <2> QED BY <1>3, <2>2, ElementsIn
  <1>5. s \in ToSet(F)
    BY <1>2, <1>3, <1>4, TailSet
  <1>6. s \in Seqs /\ s \in ToSet(running) /\ seq[s].status = "finished"
    BY ONLY <1>3, <1>5 DEF E
  <1>7. Fitted(seq[s]) /\ seq[s].computed = seq[s].slots
    BY ONLY EngineInv, <1>6, ListFacts DEF Fitting
  <1>8. s \notin ToSet(pending.seqs) /\ ToSet(seq[s].table) \subseteq Gpu
    BY ONLY EngineInv, <1>6, ListFacts DEF Leaving
  <1>9. \A e \in Keys : entries[e] # s
    BY ONLY EngineInv, <1>6, InvFacts, ListFacts DEF Retained
  <1>10. R \in Seq(Seqs) /\ IsInjective(R) /\ ToSet(R) = ToSet(running) \ {s}
    <2> DEFINE X == Seqs \ {s}
    <2> HIDE DEF X
    <2>1. /\ Kept(running, X) \in Seq(Seqs) /\ IsInjective(Kept(running, X))
          /\ ToSet(Kept(running, X)) = ToSet(running) \cap X
      BY <1>1, KeptSet
    <2> QED BY <1>1, <2>1 DEF X
  <1>11. /\ Len(F) \in Nat \ {0} /\ DOMAIN F = 1..Len(F) /\ s = F[1]
         /\ \A z \in ToSet(F) : \E i \in 1..Len(F) : F[i] = z
         /\ \A i \in 1..Len(F) : F[i] \in ToSet(F)
    <2>1. s = F[1]
      BY <1>2, <1>3, <1>4
    <2> QED BY ONLY <1>3, <1>4, <2>1, ElementsIn
  <1>12. Len(F) = 1 => \A z \in ToSet(R) : Active(seq[z])
    <2> SUFFICES ASSUME Len(F) = 1, NEW z \in ToSet(R) PROVE Active(seq[z])
      OBVIOUS
    <2>1. z \in ToSet(running) /\ z # s /\ z \in Seqs
      BY <1>1, <1>10
    <2>2. z \notin ToSet(F)
      BY <1>11, <2>1
    <2>3. seq[z].status # "finished"
      BY <1>3, <2>1, <2>2 DEF E
    <2> QED BY <1>1, <2>1, <2>3
  <1>13. Len(F) # 1 => \E z \in ToSet(R) : seq[z].status = "finished"
    <2> SUFFICES ASSUME Len(F) # 1 PROVE \E z \in ToSet(R) : seq[z].status = "finished"
      OBVIOUS
    <2>1. 2 \in 1..Len(F) /\ 1 \in 1..Len(F)
      BY <1>11
    <2>2. F[2] # F[1]
      BY ONLY <1>3, <1>11, <2>1 DEF IsInjective
    <2>3. F[2] \in ToSet(F)
      BY ONLY <1>11, <2>1
    <2>4. F[2] \in ToSet(R) /\ seq[F[2]].status = "finished"
      BY ONLY <1>3, <1>10, <1>11, <2>2, <2>3 DEF E
    <2> QED BY <2>4
  <1> QED BY <1>2, <1>6, <1>7, <1>8, <1>9, <1>10, <1>12, <1>13

\* Only s and the sequence x, a retained one if any, have changed, and they only
\* in what they own; s has left the running queue.
Leaves(s, x) ==
    /\ seq' \in [Seqs -> SeqRecs]
    /\ \A z \in Seqs : /\ seq'[z].status = seq[z].status /\ seq'[z].len = seq[z].len
                       /\ seq'[z].computed = seq[z].computed
                       /\ z # s /\ z # x => seq'[z] = seq[z]
    /\ running' = Kept(running, Seqs \ {s})
    /\ phase' = IF Len(Finished) = 1 THEN "idle" ELSE "finish"
    /\ kv' = kv /\ waiting' = waiting /\ out' = out

\* What all three ends of a finished sequence have in common.
LEMMA FinishRest ==
    ASSUME EngineInv, phase = "finish", NEW s, s = Head(Finished), NEW k \in Keys,
           Leaves(s, entries[k])
    PROVE  /\ Fitting(seq', running') /\ Queues(phase', seq', waiting', running', out')
           /\ Computed(phase', seq', out') = Counts(seq)
           /\ pending' \in Pendings /\ entries' \in [Keys -> Seqs \cup {None}]
              => Shape(phase', kv', seq', waiting', running', out', pending', entries')
           /\ \A z \in ToSet(running') : seq'[z] = seq[z] /\ z \in Seqs
           /\ \A z \in Seqs : z # s /\ z \in ToSet(running) /\ seq[z].status = "finished"
                 => phase' = "finish" /\ z \in ToSet(running')
           /\ ToSet(running') = ToSet(running) \ {s}
  <1> DEFINE R == Kept(running, Seqs \ {s})
             x == entries[k]
  <1>1. /\ seq' \in [Seqs -> SeqRecs]
        /\ \A z \in Seqs : /\ seq'[z].status = seq[z].status /\ seq'[z].len = seq[z].len
                           /\ seq'[z].computed = seq[z].computed
                           /\ z # s /\ z # x => seq'[z] = seq[z]
        /\ running' = R
        /\ phase' = IF Len(Finished) = 1 THEN "idle" ELSE "finish"
        /\ kv' = kv /\ waiting' = waiting /\ out' = out
    BY DEF Leaves
  <1>2. /\ s \in Seqs /\ s \in ToSet(running) /\ seq[s].status = "finished"
        /\ R \in Seq(Seqs) /\ IsInjective(R) /\ ToSet(R) = ToSet(running) \ {s}
        /\ Len(Finished) = 1 => \A z \in ToSet(R) : Active(seq[z])
        /\ Len(Finished) # 1 => \E z \in ToSet(R) : seq[z].status = "finished"
    BY HeadFinished
  <1> HIDE DEF R
  <1>3. x \notin ToSet(running) /\ (x \in Seqs => seq[x].status = "finished")
    <2>1. None \notin Seqs /\ ToSet(running) \subseteq Seqs
      BY ONLY EngineInv, InvFacts, ListFacts
    <2> QED BY <2>1, ListFacts DEF Retained
  <1> HIDE DEF x
  <1>4. \A z \in ToSet(R) : seq'[z] = seq[z] /\ z \in Seqs
    BY ONLY EngineInv, <1>1, <1>2, <1>3, ListFacts
  <1>5. phase' \in {"idle", "finish"}
    BY <1>1
  <1>6. \A z \in Seqs : Active(seq'[z]) => seq'[z] = seq[z]
    BY <1>1, <1>2, <1>3 DEF Active
  <1>7. Fitting(seq', running')
    <2>1. Fitting(seq, running)
      BY ListFacts
    <2>2. \A z \in Seqs : /\ Active(seq'[z]) => Fitted(seq'[z])
                          /\ seq'[z].status = "new" => seq'[z].computed = 0
      BY ONLY <1>1, <1>6, <2>1 DEF Fitting
    <2>3. \A z \in ToSet(R) : seq'[z].status = "finished" =>
              Fitted(seq'[z]) /\ seq'[z].computed = seq'[z].slots
      BY ONLY <1>2, <1>4, <2>1 DEF Fitting
    <2> QED BY ONLY <1>1, <2>2, <2>3 DEF Fitting
  <1>8. Queues(phase', seq', waiting', running', out')
    <2>1. \A z \in ToSet(waiting) : seq'[z].status = "waiting"
      BY <1>1, ListFacts
    <2>2. \A z \in ToSet(R) :
              Active(seq'[z]) \/ (phase' = "finish" /\ seq'[z].status = "finished")
      <3> SUFFICES ASSUME NEW z \in ToSet(R)
                   PROVE  Active(seq[z]) \/ (phase' = "finish" /\ seq[z].status = "finished")
        BY <1>4
      <3>1. CASE Len(Finished) = 1
        BY <1>2, <3>1
      <3>2. CASE Len(Finished) # 1
        <4>1. Active(seq[z]) \/ seq[z].status = "finished"
          BY <1>2, ListFacts
        <4> QED BY ONLY <1>1, <3>2, <4>1
      <3> QED BY ONLY <3>1, <3>2
    <2>3. phase' = "finish" => \E z \in ToSet(R) : seq'[z].status = "finished"
      BY <1>1, <1>2, <1>4
    <2> QED BY <1>1, <1>2, <1>5, <2>1, <2>2, <2>3, ListFacts DEF Queues, Scheduling
  <1>9. Computed(phase', seq', out') = Counts(seq)
    <2>1. Computed(phase', seq', out') = Counts(seq')
      BY <1>5, ComputedIdle
    <2>2. Counts(seq') = Counts(seq)
      BY <1>1 DEF Counts
    <2> QED BY ONLY <2>1, <2>2
  <1>10. ASSUME pending' \in Pendings, entries' \in [Keys -> Seqs \cup {None}]
         PROVE  Shape(phase', kv', seq', waiting', running', out', pending', entries')
    BY ONLY EngineInv, <1>1, <1>2, <1>5, <1>10, InvFacts DEF Shape, Phases
  <1>11. \A z \in Seqs : z # s /\ z \in ToSet(running) /\ seq[z].status = "finished"
             => phase' = "finish" /\ z \in ToSet(R)
    BY ONLY <1>1, <1>2 DEF Active
  <1> QED BY <1>1, <1>2, <1>4, <1>7, <1>8, <1>9, <1>10, <1>11

\* A finished sequence keeps its blocks, as the owner of its key's entry.
LEMMA KeepStep ==
    ASSUME EngineInv, phase = "finish", NEW s, s = Head(Finished),
           NEW k \in Keys, k = info[s].key,
           running' = Kept(running, Seqs \ {s}),
           phase' = IF Len(Finished) = 1 THEN "idle" ELSE "finish",
           UNCHANGED <<kv, waiting, out, pending, lost>>,
           mem' = DropEntry(mem, k), seq' = DropOwner(seq, k),
           entries' = [entries EXCEPT ![k] = s]
    PROVE  SettledNext
  <1> DEFINE x == entries[k]
  <1>1. /\ s \in Seqs /\ s \in ToSet(running) /\ seq[s].status = "finished"
        /\ Fitted(seq[s]) /\ s \notin ToSet(pending.seqs)
        /\ \A e \in Keys : entries[e] # s
    BY HeadFinished
  <1>2. /\ Setting /\ seq \in [Seqs -> SeqRecs] /\ x \in Seqs \cup {None} /\ None \notin Seqs
        /\ entries \in [Keys -> Seqs \cup {None}] /\ pending \in Pendings
    BY ONLY EngineInv, InvFacts
  <1>3. Dropped(seq, seq', k)
    BY <1>2, DropOwnerDrops
  <1>4. Leaves(s, x)
    BY <1>3 DEF Leaves, Dropped
  <1>5. /\ Fitting(seq', running') /\ Queues(phase', seq', waiting', running', out')
        /\ Computed(phase', seq', out') = Counts(seq)
        /\ pending' \in Pendings /\ entries' \in [Keys -> Seqs \cup {None}]
           => Shape(phase', kv', seq', waiting', running', out', pending', entries')
        /\ \A z \in ToSet(running') : seq'[z] = seq[z] /\ z \in Seqs
        /\ \A z \in Seqs : z # s /\ z \in ToSet(running) /\ seq[z].status = "finished"
              => phase' = "finish" /\ z \in ToSet(running')
        /\ ToSet(running') = ToSet(running) \ {s}
    <2>1. Leaves(s, entries[k])
      BY <1>4
    <2> QED BY <2>1, FinishRest
  <1>6. /\ entries' \in [Keys -> Seqs \cup {None}] /\ entries'[k] = s
        /\ \A e \in Keys \ {k} : entries'[e] = entries[e]
    BY <1>1, <1>2
  <1>7. Shape(phase', kv', seq', waiting', running', out', pending', entries')
    BY <1>2, <1>5, <1>6
  <1>8. Core(mem', Tables(seq'), Slots(seq'), Computed(phase', seq', out'), lost')
    <2> DEFINE c == Counts(seq)
    <2>1. Core(mem, Tables(seq), Slots(seq), c, lost)
      <3>1. Computed(phase, seq, out) = c
        BY ComputedIdle
      <3> QED BY ONLY EngineInv, <3>1, InvFacts
    <2> HIDE DEF c
    <2>2. Core(DropEntry(mem, k), Tables(DropOwner(seq, k)), Slots(DropOwner(seq, k)), c, lost)
      BY ONLY <1>2, <2>1, DropEntryCore
    <2> QED BY <1>5, <2>2 DEF c
  <1>9. /\ s # x /\ seq'[s] = seq[s] /\ seq[s].table # <<>>
    BY ONLY <1>1, <1>3 DEF Dropped, Fitted
  <1>10. /\ \A z \in Seqs : z # x => seq'[z] = seq[z]
         /\ x \in Seqs => seq'[x].table = <<>>
    BY ONLY <1>3 DEF Dropped
  <1>11. x \notin ToSet(pending.seqs)
    BY <1>2, ListFacts DEF Retained
  <1>12. pending' = pending
    OBVIOUS
  <1> HIDE DEF x
  <1>13. Owned(phase', seq', running', pending', entries')
    <2> SUFFICES ASSUME NEW z \in Seqs, seq'[z].table # <<>>
                 PROVE  \/ Active(seq'[z]) \/ entries'[info[z].key] = z
                        \/ z \in ToSet(pending.seqs)
                        \/ phase' = "finish" /\ z \in ToSet(running')
                           /\ seq'[z].status = "finished"
      BY <1>12 DEF Owned
    <2>1. CASE z = s
      BY <1>6, <2>1
    <2>2. CASE z # s
      <3>1. z # x /\ seq'[z] = seq[z]
        BY <1>10
      <3>2. \/ Active(seq[z]) \/ entries[info[z].key] = z \/ z \in ToSet(pending.seqs)
            \/ z \in ToSet(running) /\ seq[z].status = "finished"
        BY <3>1, ListFacts DEF Owned
      <3>3. entries[info[z].key] = z => entries'[info[z].key] = z
        <4>1. info[z].key \in Keys
          BY ONLY EngineInv, InvFacts
        <4> QED BY ONLY <1>6, <3>1, <4>1 DEF x
      <3> QED BY <1>5, <2>2, <3>1, <3>2, <3>3
    <2> QED BY ONLY <2>1, <2>2
  <1>14. Leaving(seq', running', pending')
    <2>1. \A z \in ToSet(pending.seqs) : seq'[z] = seq[z]
      BY ONLY EngineInv, <1>10, <1>11, ListFacts
    <2>2. ToSet(<<>>) = {}
      BY ONLY DEF ToSet
    <2>3. \A z \in Seqs : z \notin ToSet(pending.seqs) => ToSet(seq'[z].table) \subseteq Gpu
      BY ONLY EngineInv, <1>10, <2>2, ListFacts DEF Leaving
    <2> QED BY ONLY EngineInv, <1>5, <1>12, <2>1, <2>3, ListFacts DEF Leaving
  <1>15. Retained(seq', running', pending', entries')
    <2> SUFFICES ASSUME NEW e \in Keys, entries'[e] # None
                 PROVE  /\ info[entries'[e]].key = e
                        /\ seq'[entries'[e]].status = "finished"
                        /\ seq'[entries'[e]].table # <<>>
                        /\ entries'[e] \notin ToSet(running')
                        /\ entries'[e] \notin ToSet(pending.seqs)
      BY <1>12 DEF Retained
    <2>1. CASE e = k
      BY <1>1, <1>5, <1>6, <1>9, <2>1
    <2>2. CASE e # k
      <3>1. entries'[e] = entries[e]
        BY <1>6, <2>2
      <3>2. /\ info[entries[e]].key = e
            /\ seq[entries[e]].status = "finished" /\ seq[entries[e]].table # <<>>
            /\ entries[e] \notin ToSet(running) /\ entries[e] \notin ToSet(pending.seqs)
        BY <3>1, ListFacts DEF Retained
      <3>3. entries[e] \in Seqs /\ entries[e] # x
        <4>1. entries[e] \in Seqs
          BY <1>2, <3>1
        <4>2. x # None => info[x].key = k
          BY ONLY EngineInv, ListFacts DEF Retained, x
        <4> QED BY ONLY <1>2, <2>2, <3>2, <4>1, <4>2
      <3> QED BY ONLY <1>5, <1>10, <3>1, <3>2, <3>3
    <2> QED BY ONLY <2>1, <2>2
  <1> QED BY ONLY <1>5, <1>7, <1>8, <1>13, <1>14, <1>15 DEF SettledNext, Settled, Owners

\* Its blocks, and its key's entry, are freed.
LEMMA FreeStep ==
    ASSUME EngineInv, phase = "finish", NEW s, s = Head(Finished),
           NEW k \in Keys, k = info[s].key,
           running' = Kept(running, Seqs \ {s}),
           phase' = IF Len(Finished) = 1 THEN "idle" ELSE "finish",
           UNCHANGED <<kv, waiting, out, pending, lost>>,
           mem' = FreeSeq(DropEntry(mem, k), s),
           seq' = [DropOwner(seq, k) EXCEPT ![s] = Unowned(@)],
           entries' = [entries EXCEPT ![k] = None]
    PROVE  SettledNext
  <1> DEFINE x == entries[k]
             sq == DropOwner(seq, k)
  <1>1. /\ s \in Seqs /\ s \in ToSet(running) /\ seq[s].status = "finished"
        /\ s \notin ToSet(pending.seqs) /\ \A e \in Keys : entries[e] # s
    BY HeadFinished
  <1>2. /\ Setting /\ seq \in [Seqs -> SeqRecs] /\ x \in Seqs \cup {None} /\ None \notin Seqs
        /\ entries \in [Keys -> Seqs \cup {None}] /\ pending \in Pendings /\ k \in Keys
    <2>1. /\ Setting /\ seq \in [Seqs -> SeqRecs] /\ None \notin Seqs
          /\ entries \in [Keys -> Seqs \cup {None}] /\ pending \in Pendings
      BY ONLY EngineInv, InvFacts
    <2> QED BY ONLY <2>1
  <1>3. Dropped(seq, sq, k) /\ sq \in [Seqs -> SeqRecs] /\ sq[s] = seq[s]
    <2>1. Dropped(seq, sq, k)
      BY ONLY <1>2, DropOwnerDrops
    <2>2. s # x
      BY ONLY <1>1, <1>2
    <2> QED BY ONLY <1>1, <2>1, <2>2 DEF Dropped
  <1> HIDE DEF sq
  <1>4. /\ seq' \in [Seqs -> SeqRecs] /\ seq'[s] = Unowned(seq[s])
        /\ \A z \in Seqs \ {s} : seq'[z] = sq[z]
        /\ seq'[s].table = <<>> /\ seq'[s].slots = 0
        /\ seq'[s].status = seq[s].status /\ seq'[s].len = seq[s].len
        /\ seq'[s].computed = seq[s].computed
    <2>1. seq' = [sq EXCEPT ![s] = Unowned(seq[s])]
      BY <1>3 DEF sq
    <2> DEFINE u == Unowned(seq[s])
    <2>2. /\ u \in SeqRecs /\ u.table = <<>> /\ u.slots = 0 /\ u.status = seq[s].status
          /\ u.len = seq[s].len /\ u.computed = seq[s].computed
      BY ONLY <1>1, <1>2, UnownedFacts
    <2> HIDE DEF u
    <2>3. seq' = [sq EXCEPT ![s] = u]
      BY <2>1 DEF u
    <2>4. seq' \in [Seqs -> SeqRecs] /\ seq'[s] = u /\ \A z \in Seqs \ {s} : seq'[z] = sq[z]
      <3>1. s \in Seqs /\ sq \in [Seqs -> SeqRecs] /\ u \in SeqRecs
        BY ONLY <1>1, <1>3, <2>2
      <3> QED BY ONLY <2>3, <3>1
    <2> QED BY ONLY <2>2, <2>4 DEF u
  <1>5. /\ \A z \in Seqs : z # x /\ z # s => seq'[z] = seq[z]
        /\ x \in Seqs => seq'[x].table = <<>>
        /\ \A z \in Seqs : /\ seq'[z].status = seq[z].status /\ seq'[z].len = seq[z].len
                           /\ seq'[z].computed = seq[z].computed
    <2>1. \A z \in Seqs : /\ sq[z].status = seq[z].status /\ sq[z].len = seq[z].len
                          /\ sq[z].computed = seq[z].computed
                          /\ z # x => sq[z] = seq[z]
                          /\ z = x => sq[z].table = <<>>
      BY ONLY <1>3 DEF Dropped
    <2>2. /\ \A z \in Seqs \ {s} : seq'[z] = sq[z]
          /\ seq'[s].status = seq[s].status /\ seq'[s].len = seq[s].len
          /\ seq'[s].computed = seq[s].computed
      BY ONLY <1>4
    <2>3. s \in Seqs /\ s # x
      BY ONLY <1>1, <1>2
    <2> HIDE DEF x
    <2> QED BY ONLY <2>1, <2>2, <2>3
  <1>6. Leaves(s, x)
    <2>1. /\ running' = Kept(running, Seqs \ {s})
          /\ phase' = IF Len(Finished) = 1 THEN "idle" ELSE "finish"
          /\ kv' = kv /\ waiting' = waiting /\ out' = out
      OBVIOUS
    <2> QED BY ONLY <1>4, <1>5, <2>1 DEF Leaves
  <1>7. /\ Fitting(seq', running') /\ Queues(phase', seq', waiting', running', out')
        /\ Computed(phase', seq', out') = Counts(seq)
        /\ pending' \in Pendings /\ entries' \in [Keys -> Seqs \cup {None}]
           => Shape(phase', kv', seq', waiting', running', out', pending', entries')
        /\ \A z \in ToSet(running') : seq'[z] = seq[z] /\ z \in Seqs
        /\ \A z \in Seqs : z # s /\ z \in ToSet(running) /\ seq[z].status = "finished"
              => phase' = "finish" /\ z \in ToSet(running')
        /\ ToSet(running') = ToSet(running) \ {s}
    <2>1. Leaves(s, entries[k])
      BY <1>6
    <2> QED BY <2>1, FinishRest
  <1>8. /\ entries' \in [Keys -> Seqs \cup {None}] /\ entries'[k] = None
        /\ \A e \in Keys \ {k} : entries'[e] = entries[e]
    BY <1>1, <1>2
  <1>9. Shape(phase', kv', seq', waiting', running', out', pending', entries')
    <2>1. pending' = pending
      OBVIOUS
    <2> QED BY ONLY <1>2, <1>7, <1>8, <2>1
  <1>10. Core(mem', Tables(seq'), Slots(seq'), Computed(phase', seq', out'), lost')
    <2> DEFINE c == Counts(seq)
               m == DropEntry(mem, k)
               T == Tables(sq)
               n == Slots(sq)
               T2 == Tables(seq')
               n2 == Slots(seq')
    <2>1. Core(mem, Tables(seq), Slots(seq), c, lost)
      <3>1. Computed(phase, seq, out) = c
        BY ComputedIdle
      <3> QED BY ONLY EngineInv, <3>1, InvFacts
    <2> HIDE DEF c
    <2>2. Core(m, T, n, c, lost)
      BY ONLY <1>2, <2>1, DropEntryCore DEF m, T, n, sq
    <2>3. T[s] = seq[s].table /\ T2[s] = <<>> /\ T2 \in [Seqs -> Seq(Blocks)]
      <3>1. T2 \in [Seqs -> Seq(Blocks)]
        BY <1>4, Columns
      <3>2. T[s] = sq[s].table /\ T2[s] = seq'[s].table
        BY <1>1 DEF Tables
      <3> HIDE DEF T, T2
      <3> QED BY ONLY <1>3, <1>4, <3>1, <3>2
    <2>4. Alike(T, T2, s) /\ Alike(n, n2, s) /\ Alike(c, c, s)
      <3>1. \A z \in Seqs \ {s} : seq'[z] = sq[z]
        BY ONLY <1>4
      <3> QED BY ONLY <3>1 DEF Alike, Tables, Slots, T, T2, n, n2
    <2> HIDE DEF m, T, n, T2, n2
    <2>5. Emptied(T, n, c, T2, n2, c, s)
      BY ONLY <2>3, <2>4 DEF Emptied
    <2>6. Core(FreeSeq(m, s), T2, n2, c, lost)
      BY <1>1, <1>2, <2>2, <2>3, <2>5, CoreFreeSeq
    <2> QED BY <1>7, <2>6 DEF T2, n2, m, c
  <1>11. /\ Owned(phase, seq, running, pending, entries)
         /\ Leaving(seq, running, pending) /\ Retained(seq, running, pending, entries)
         /\ ToSet(pending.seqs) \subseteq Seqs /\ \A z \in Seqs : info[z].key \in Keys
    <2>1. \A z \in Seqs : info[z].key \in Keys
      BY InvFacts
    <2> QED BY ONLY EngineInv, <2>1, ListFacts
  <1>12. pending' = pending
    OBVIOUS
  <1>13. /\ s # x /\ x \notin ToSet(pending.seqs)
         /\ x # None => info[x].key = k
         /\ \A e \in Keys : e # k => entries[e] # x \/ x = None
    <2>1. \A e \in Keys : entries[e] # None =>
              info[entries[e]].key = e /\ entries[e] \notin ToSet(pending.seqs)
      BY ONLY <1>11 DEF Retained
    <2> QED BY ONLY <1>1, <1>2, <1>11, <2>1
  <1>14. \A e \in Keys : entries[e] = x => e = k \/ x = None
    BY ONLY <1>13
  <1>15. entries[k] = x
    OBVIOUS
  <1> HIDE DEF x
  <1>16. Owned(phase', seq', running', pending', entries')
    <2> SUFFICES ASSUME NEW z \in Seqs, seq'[z].table # <<>>
                 PROVE  \/ Active(seq'[z]) \/ entries'[info[z].key] = z
                        \/ z \in ToSet(pending.seqs)
                        \/ phase' = "finish" /\ z \in ToSet(running')
                           /\ seq'[z].status = "finished"
      BY <1>12, Zenon DEF Owned
    <2>0. z \in Seqs /\ seq'[z].table # <<>>
      OBVIOUS
    <2>1. z # s /\ z # x /\ seq'[z] = seq[z]
      BY ONLY <1>4, <1>5, <2>0
    <2>2. \/ Active(seq[z]) \/ entries[info[z].key] = z \/ z \in ToSet(pending.seqs)
          \/ z \in ToSet(running) /\ seq[z].status = "finished"
      BY ONLY <1>11, <2>0, <2>1 DEF Owned
    <2>3. entries[info[z].key] = z => entries'[info[z].key] = z
      BY ONLY <1>8, <1>11, <1>15, <2>0, <2>1
    <2> QED BY ONLY <1>7, <2>0, <2>1, <2>2, <2>3
  <1>17. Leaving(seq', running', pending')
    <2>1. \A z \in ToSet(pending.seqs) : seq'[z] = seq[z]
      <3> SUFFICES ASSUME NEW z \in ToSet(pending.seqs) PROVE seq'[z] = seq[z]
        OBVIOUS
      <3>1. z \in ToSet(pending.seqs)
        OBVIOUS
      <3>2. z \in Seqs
        BY ONLY <1>11, <3>1
      <3>3. s \notin ToSet(pending.seqs) /\ x \notin ToSet(pending.seqs)
        BY ONLY <1>1, <1>13
      <3>4. z # s /\ z # x
        BY ONLY <3>1, <3>3
      <3> QED BY ONLY <1>5, <3>2, <3>4
    <2>2. ToSet(<<>>) = {}
      BY ONLY DEF ToSet
    <2>3. \A z \in Seqs : z \notin ToSet(pending.seqs) => ToSet(seq'[z].table) \subseteq Gpu
      <3>1. \A z \in Seqs : z \notin ToSet(pending.seqs) => ToSet(seq[z].table) \subseteq Gpu
        BY ONLY <1>11 DEF Leaving
      <3>2. \A z \in Seqs : seq'[z].table = seq[z].table \/ seq'[z].table = <<>>
        BY ONLY <1>4, <1>5
      <3> QED BY ONLY <2>2, <3>1, <3>2
    <2>4. IsInjective(pending.seqs) /\ \A z \in ToSet(pending.seqs) :
              seq[z].status = "finished" /\ z \notin ToSet(running)
              /\ ToSet(seq[z].table) \subseteq Cpu
      BY ONLY <1>11 DEF Leaving
    <2> QED BY ONLY <1>7, <1>12, <2>1, <2>3, <2>4 DEF Leaving
  <1>18. Retained(seq', running', pending', entries')
    <2> SUFFICES ASSUME NEW e \in Keys, entries'[e] # None
                 PROVE  /\ info[entries'[e]].key = e
                        /\ seq'[entries'[e]].status = "finished"
                        /\ seq'[entries'[e]].table # <<>>
                        /\ entries'[e] \notin ToSet(running')
                        /\ entries'[e] \notin ToSet(pending.seqs)
      BY <1>12, Zenon DEF Retained
    <2>0. e \in Keys /\ entries'[e] # None
      OBVIOUS
    <2>1. e # k /\ entries'[e] = entries[e]
      BY ONLY <1>8, <2>0
    <2>2. /\ info[entries[e]].key = e
          /\ seq[entries[e]].status = "finished" /\ seq[entries[e]].table # <<>>
          /\ entries[e] \notin ToSet(running) /\ entries[e] \notin ToSet(pending.seqs)
      BY ONLY <1>11, <2>0, <2>1 DEF Retained
    <2>3. entries[e] \in Seqs /\ entries[e] # x /\ entries[e] # s
      BY ONLY <1>1, <1>2, <1>14, <2>0, <2>1
    <2> QED BY ONLY <1>5, <1>7, <2>1, <2>2, <2>3
  <1> QED BY ONLY <1>7, <1>9, <1>10, <1>16, <1>17, <1>18 DEF SettledNext, Settled, Owners

\* The blocks of a finished sequence that is swapped out.
LEMMA SwapFacts ==
    ASSUME EngineInv, phase = "finish", NEW s, s = Head(Finished),
           NEW w, w = SwapOutSeq(s),
           NEW T2, T2 \in [Seqs -> Seq(Blocks)], Alike(Tables(seq), T2, s), T2[s] = w.table
    PROVE  /\ w.map \in Seq(Pairs)
           /\ Core(w.m, T2, Slots(seq), Counts(seq), AddLost(w.orphans))
  <1> DEFINE T == Tables(seq)
             n == Slots(seq)
             c == Counts(seq)
             T0 == [T EXCEPT ![s] = <<>>]
  <1>1. /\ s \in Seqs /\ Fitted(seq[s]) /\ seq[s].computed = seq[s].slots
        /\ ToSet(seq[s].table) \subseteq Gpu
    BY HeadFinished
  <1>2. Setting /\ seq \in [Seqs -> SeqRecs] /\ Core(mem, T, n, c, lost) /\ lost \in [Blocks -> Nat]
    <2>1. Computed(phase, seq, out) = c
      BY ComputedIdle
    <2> QED BY <2>1, InvFacts
  <1>3. T[s] = seq[s].table /\ n[s] = seq[s].slots /\ c[s] = seq[s].slots
        /\ T \in [Seqs -> Seq(Blocks)]
    BY <1>1, <1>2, Columns DEF Tables, Slots, Counts
  <1>4. T0 \in [Seqs -> Seq(Blocks)] /\ T0[s] = <<>> /\ Alike(T, T0, s)
    <2>1. <<>> \in Seq(Blocks)
      OBVIOUS
    <2> HIDE DEF T
    <2> QED BY <1>1, <1>3, <2>1 DEF Alike
  <1> HIDE DEF T, n, c, T0
  <1>5. Emptied(T, n, c, T0, n, c, s)
    BY <1>4 DEF Emptied, Alike
  <1>6. ToSet(T[s]) \subseteq Gpu
    BY ONLY <1>1, <1>3
  <1>7. w.map \in Seq(Pairs)
    BY <1>1, <1>2, <1>3, <1>5, <1>6, SwapOutCore
  <1>8. Core(w.m, T2, n, c, More(lost, w.orphans))
    BY <1>1, <1>2, <1>3, <1>6, SwapOutSeats DEF T
  <1> QED BY <1>7, <1>8 DEF AddLost, More, n, c

\* The copies of its blocks are made by the next step; until then its table, of
\* CPU blocks now, is pending.
LEMMA SwapStep ==
    ASSUME EngineInv, phase = "finish", NEW s, s = Head(Finished),
           NEW w, w = SwapOutSeq(s),
           running' = Kept(running, Seqs \ {s}),
           phase' = IF Len(Finished) = 1 THEN "idle" ELSE "finish",
           UNCHANGED <<kv, waiting, out, entries>>,
           mem' = w.m, lost' = AddLost(w.orphans),
           seq' = [seq EXCEPT ![s].table = w.table],
           pending' = [copies |-> pending.copies \o w.map, seqs |-> Append(pending.seqs, s)]
    PROVE  SettledNext
  <1> DEFINE t == w.table
  <1>1. /\ s \in Seqs /\ s \in ToSet(running) /\ seq[s].status = "finished"
        /\ s \notin ToSet(pending.seqs) /\ \A e \in Keys : entries[e] # s
        /\ ToSet(seq[s].table) \subseteq Gpu
    BY HeadFinished
  <1>2. /\ Setting /\ seq \in [Seqs -> SeqRecs] /\ info[s].key \in Keys
        /\ entries \in [Keys -> Seqs \cup {None}] /\ pending \in Pendings
        /\ Core(mem, Tables(seq), Slots(seq), Counts(seq), lost)
    <2>1. Computed(phase, seq, out) = Counts(seq)
      BY ComputedIdle
    <2> QED BY ONLY EngineInv, <1>1, <2>1, InvFacts
  <1>3. t \in Seq(Cpu) /\ t \in Seq(Blocks) /\ ToSet(t) \subseteq Cpu
    <2> DEFINE T == Tables(seq)
               n == Slots(seq)
               c == Counts(seq)
               T0 == [T EXCEPT ![s] = <<>>]
    <2>1. /\ Core(mem, T, n, c, lost) /\ T[s] = seq[s].table /\ ToSet(T[s]) \subseteq Gpu
          /\ T \in [Seqs -> Seq(Blocks)]
      BY ONLY <1>1, <1>2, Columns DEF Tables
    <2>2. <<>> \in Seq(Blocks)
      OBVIOUS
    <2> HIDE DEF T, n, c
    <2>3. Emptied(T, n, c, T0, n, c, s)
      BY ONLY <1>1, <2>1, <2>2 DEF Emptied, Alike
    <2> HIDE DEF T0
    <2>4. t \in Seq(Cpu)
      BY <1>1, <1>2, <2>1, <2>3, SwapOutCore
    <2>5. Cpu \subseteq Blocks
      BY ONLY <1>2, BlockFacts
    <2> HIDE DEF t
    <2> QED BY ONLY <2>4, <2>5, ElementsIn
  <1> HIDE DEF t
  <1>4. /\ seq' \in [Seqs -> SeqRecs]
        /\ seq'[s].table = t /\ seq'[s].slots = seq[s].slots /\ seq'[s].len = seq[s].len
        /\ seq'[s].status = seq[s].status /\ seq'[s].computed = seq[s].computed
        /\ \A z \in Seqs \ {s} : seq'[z] = seq[z]
    <2> DEFINE u == [seq[s] EXCEPT !.table = t]
    <2>1. seq[s] \in SeqRecs
      BY <1>1, <1>2
    <2>2. /\ u \in SeqRecs /\ u.table = t /\ u.slots = seq[s].slots /\ u.len = seq[s].len
          /\ u.status = seq[s].status /\ u.computed = seq[s].computed
      BY <1>3, <2>1 DEF SeqRecs
    <2>3. seq' = [seq EXCEPT ![s] = u]
      BY DEF t
    <2> HIDE DEF u
    <2>4. seq' \in [Seqs -> SeqRecs] /\ seq'[s] = u /\ \A z \in Seqs \ {s} : seq'[z] = seq[z]
      <3>1. s \in Seqs /\ seq \in [Seqs -> SeqRecs] /\ u \in SeqRecs
        BY ONLY <1>1, <1>2, <2>2
      <3> QED BY ONLY <2>3, <3>1
    <2> QED BY <2>2, <2>4
  <1>5. Leaves(s, entries[info[s].key])
    BY <1>4 DEF Leaves
  <1>6. /\ Fitting(seq', running') /\ Queues(phase', seq', waiting', running', out')
        /\ Computed(phase', seq', out') = Counts(seq)
        /\ pending' \in Pendings /\ entries' \in [Keys -> Seqs \cup {None}]
           => Shape(phase', kv', seq', waiting', running', out', pending', entries')
        /\ \A z \in ToSet(running') : seq'[z] = seq[z] /\ z \in Seqs
        /\ \A z \in Seqs : z # s /\ z \in ToSet(running) /\ seq[z].status = "finished"
              => phase' = "finish" /\ z \in ToSet(running')
        /\ ToSet(running') = ToSet(running) \ {s}
    BY <1>2, <1>5, FinishRest
  <1>7. /\ w.map \in Seq(Pairs)
        /\ Core(mem', Tables(seq'), Slots(seq'), Counts(seq), lost')
    <2> DEFINE T2 == Tables(seq')
    <2>1. /\ T2 \in [Seqs -> Seq(Blocks)] /\ T2[s] = t /\ Alike(Tables(seq), T2, s)
      <3>1. T2 \in [Seqs -> Seq(Blocks)]
        BY <1>4, Columns
      <3> QED BY ONLY <1>1, <1>4, <3>1 DEF Tables, Alike
    <2>2. Slots(seq') = Slots(seq)
      BY <1>4 DEF Slots
    <2> HIDE DEF T2
    <2>3. /\ w.map \in Seq(Pairs)
          /\ Core(w.m, T2, Slots(seq), Counts(seq), AddLost(w.orphans))
      BY <2>1, SwapFacts DEF t
    <2> QED BY <2>2, <2>3 DEF T2
  <1>8. /\ pending' \in Pendings /\ pending'.seqs = Append(pending.seqs, s)
        /\ IsInjective(pending'.seqs) /\ ToSet(pending'.seqs) = ToSet(pending.seqs) \cup {s}
    <2>1. /\ pending.seqs \in Seq(Seqs) /\ pending.copies \in Seq(Pairs)
          /\ IsInjective(pending.seqs)
      BY ONLY EngineInv, <1>2, ListFacts DEF Leaving, Pendings
    <2>2. pending.copies \o w.map \in Seq(Pairs)
      BY ONLY <1>7, <2>1, ConcatSet
    <2>3. /\ Append(pending.seqs, s) \in Seq(Seqs)
          /\ IsInjective(Append(pending.seqs, s))
          /\ ToSet(Append(pending.seqs, s)) = ToSet(pending.seqs) \cup {s}
      BY ONLY <1>1, <2>1, AppendSet
    <2> QED BY <2>2, <2>3 DEF Pendings
  <1>9. Shape(phase', kv', seq', waiting', running', out', pending', entries')
    BY <1>2, <1>6, <1>8
  <1>10. Owned(phase', seq', running', pending', entries')
    <2> SUFFICES ASSUME NEW z \in Seqs, seq'[z].table # <<>>
                 PROVE  \/ Active(seq'[z]) \/ entries[info[z].key] = z
                        \/ z \in ToSet(pending'.seqs)
                        \/ phase' = "finish" /\ z \in ToSet(running')
                           /\ seq'[z].status = "finished"
      BY DEF Owned
    <2>1. CASE z = s
      BY <1>8, <2>1
    <2>2. CASE z # s
      <3>1. seq'[z] = seq[z]
        BY ONLY <1>4, <2>2
      <3>2. \/ Active(seq[z]) \/ entries[info[z].key] = z \/ z \in ToSet(pending.seqs)
            \/ z \in ToSet(running) /\ seq[z].status = "finished"
        BY <3>1, ListFacts DEF Owned
      <3> QED BY <1>6, <1>8, <2>2, <3>1, <3>2
    <2> QED BY ONLY <2>1, <2>2
  <1>11. Leaving(seq', running', pending')
    <2>1. \A z \in ToSet(pending.seqs) : seq'[z] = seq[z] /\ z # s
      BY ONLY EngineInv, <1>1, <1>4, ListFacts
    <2>2. \A z \in ToSet(pending'.seqs) : seq'[z].status = "finished" /\ z \notin ToSet(running')
                                          /\ ToSet(seq'[z].table) \subseteq Cpu
      <3>1. \A z \in ToSet(pending.seqs) : seq[z].status = "finished" /\ z \notin ToSet(running)
                                            /\ ToSet(seq[z].table) \subseteq Cpu
        BY ONLY EngineInv, ListFacts DEF Leaving
      <3> QED BY ONLY <1>1, <1>3, <1>4, <1>6, <1>8, <2>1, <3>1
    <2>3. \A z \in Seqs : z \notin ToSet(pending'.seqs) => ToSet(seq'[z].table) \subseteq Gpu
      BY ONLY EngineInv, <1>4, <1>8, ListFacts DEF Leaving
    <2> QED BY <1>8, <2>2, <2>3 DEF Leaving
  <1>12. Retained(seq', running', pending', entries')
    <2> SUFFICES ASSUME NEW e \in Keys, entries[e] # None
                 PROVE  /\ info[entries[e]].key = e
                        /\ seq'[entries[e]].status = "finished"
                        /\ seq'[entries[e]].table # <<>>
                        /\ entries[e] \notin ToSet(running')
                        /\ entries[e] \notin ToSet(pending'.seqs)
      BY DEF Retained
    <2>1. /\ info[entries[e]].key = e /\ entries[e] # s /\ entries[e] \in Seqs
          /\ seq[entries[e]].status = "finished" /\ seq[entries[e]].table # <<>>
          /\ entries[e] \notin ToSet(running) /\ entries[e] \notin ToSet(pending.seqs)
      BY <1>1, <1>2, ListFacts DEF Retained
    <2> QED BY ONLY <1>4, <1>6, <1>8, <2>1
  <1>13. Core(mem', Tables(seq'), Slots(seq'), Computed(phase', seq', out'), lost')
    BY ONLY <1>6, <1>7
  <1> QED BY ONLY <1>6, <1>9, <1>10, <1>11, <1>12, <1>13 DEF SettledNext, Settled, Owners

\* Whatever becomes of its blocks, the finished sequence leaves the engine.
LEMMA FinishOneStep ==
    ASSUME EngineInv, FinishOne
    PROVE  SettledNext
  <1> DEFINE s == Head(Finished)
             k == info[s].key
             w == SwapOutSeq(s)
  <1>1. /\ phase = "finish"
        /\ \/ /\ mem' = DropEntry(mem, k) /\ seq' = DropOwner(seq, k)
              /\ entries' = [entries EXCEPT ![k] = s]
              /\ UNCHANGED <<pending, lost>>
           \/ /\ mem' = w.m /\ lost' = AddLost(w.orphans)
              /\ seq' = [seq EXCEPT ![s].table = w.table]
              /\ pending' = [copies |-> pending.copies \o w.map,
                             seqs |-> Append(pending.seqs, s)]
              /\ UNCHANGED entries
           \/ /\ mem' = FreeSeq(DropEntry(mem, k), s)
              /\ seq' = [DropOwner(seq, k) EXCEPT ![s] = Unowned(@)]
              /\ entries' = [entries EXCEPT ![k] = None]
              /\ UNCHANGED <<pending, lost>>
        /\ running' = Kept(running, Seqs \ {s})
        /\ phase' = IF Len(Finished) = 1 THEN "idle" ELSE "finish"
        /\ UNCHANGED <<kv, waiting, out>>
    BY DEF FinishOne
  <1>2. k \in Keys
    BY ONLY EngineInv, <1>1, HeadFinished, InvFacts
  <1> HIDE DEF s, k, w
  <1>3. CASE /\ mem' = DropEntry(mem, k) /\ seq' = DropOwner(seq, k)
             /\ entries' = [entries EXCEPT ![k] = s]
             /\ UNCHANGED <<pending, lost>>
    <2>1. UNCHANGED <<kv, waiting, out, pending, lost>>
      BY <1>1, <1>3
    <2>2. s = Head(Finished) /\ k = info[s].key
      BY ONLY DEF s, k
    <2> QED BY <1>1, <1>2, <1>3, <2>1, <2>2, KeepStep
  <1>4. CASE /\ mem' = w.m /\ lost' = AddLost(w.orphans)
             /\ seq' = [seq EXCEPT ![s].table = w.table]
             /\ pending' = [copies |-> pending.copies \o w.map,
                            seqs |-> Append(pending.seqs, s)]
             /\ UNCHANGED entries
    <2>1. UNCHANGED <<kv, waiting, out, entries>>
      BY <1>1, <1>4
    <2>2. s = Head(Finished) /\ w = SwapOutSeq(s)
      BY ONLY DEF s, w
    <2> QED BY <1>1, <1>4, <2>1, <2>2, SwapStep
  <1>5. CASE /\ mem' = FreeSeq(DropEntry(mem, k), s)
             /\ seq' = [DropOwner(seq, k) EXCEPT ![s] = Unowned(@)]
             /\ entries' = [entries EXCEPT ![k] = None]
             /\ UNCHANGED <<pending, lost>>
    <2>1. UNCHANGED <<kv, waiting, out, pending, lost>>
      BY ONLY <1>1, <1>5
    <2>2. s = Head(Finished) /\ k = info[s].key
      BY DEF s, k
    <2> QED BY <1>1, <1>2, <1>5, <2>1, <2>2, FreeStep
  <1> QED BY <1>1, <1>3, <1>4, <1>5

-----------------------------------------------------------------------------
(***************************************************************************)
(* The invariant, and what it says.                                        *)
(***************************************************************************)
\* An idle engine without requests satisfies the invariant.
LEMMA InitInv ==
    ASSUME Init
    PROVE  EngineInv
  <1>1. conf \in Conf /\ info \in [Seqs -> Job]
    <2>1. PICK u \in Setups : conf = u.conf /\ info = u.jobs
      BY DEF Init
    <2> QED BY ONLY <2>1, EngineAssumption
  <1>2. Setting
    BY ONLY <1>1 DEF Setting
  <1>3. /\ phase = "idle"
        /\ mem = [ref |-> [b \in Blocks |-> 0], hash |-> [b \in Blocks |-> NoHash],
                  comp |-> {}, last |-> [b \in Blocks |-> NoStamp]]
        /\ kv = [b \in Blocks |-> [j \in 1..BlockSize |-> NoHash]]
        /\ seq = [s \in Seqs |->
                    [status |-> "new", len |-> info[s].prompt, computed |-> 0,
                     memo |-> NoMemo, skip |-> 0, slots |-> 0, table |-> <<>>,
                     last |-> NoStamp]]
        /\ waiting = <<>> /\ running = <<>> /\ out = NoOut
        /\ pending = [copies |-> <<>>, seqs |-> <<>>]
        /\ entries = [k \in Keys |-> None]
        /\ lost = [b \in Blocks |-> 0]
    BY DEF Init
  <1>4. NoHash \in HashSet
    BY ONLY <1>2, HashFacts
  <1>5. ToSet(<<>>) = {} /\ IsInjective(<<>>) /\ DOMAIN <<>> = {}
    BY ONLY DEF ToSet, IsInjective
  <1>6. seq \in [Seqs -> SeqRecs]
        /\ \A s \in Seqs : /\ seq[s].status = "new" /\ seq[s].len = info[s].prompt
                           /\ seq[s].computed = 0 /\ seq[s].slots = 0
                           /\ seq[s].table = <<>> /\ info[s].prompt \in Nat
    <2>1. ASSUME NEW s \in Seqs
          PROVE  [status |-> "new", len |-> info[s].prompt, computed |-> 0,
                  memo |-> NoMemo, skip |-> 0, slots |-> 0, table |-> <<>>,
                  last |-> NoStamp] \in SeqRecs
      <3>1. info[s].prompt \in Nat
        BY <1>1 DEF Job
      <3>2. <<>> \in Seq(Blocks)
        OBVIOUS
      <3> QED BY <3>1, <3>2 DEF SeqRecs, Statuses, NoMemo, NoStamp
    <2>2. \A s \in Seqs : info[s].prompt \in Nat
      BY ONLY <1>1 DEF Job
    <2> QED BY ONLY <1>3, <2>1, <2>2
  <1>7. out \in Outs /\ pending \in Pendings /\ pending.seqs = <<>>
    <2>1. <<>> \in Seq(Seqs) /\ <<>> \in Seq(Pairs)
      OBVIOUS
    <2> QED BY <1>3, <2>1 DEF NoOut, Outs, Pendings
  <1>8. Shape(phase, kv, seq, waiting, running, out, pending, entries)
    <2>1. <<>> \in Seq(Seqs)
      OBVIOUS
    <2>2. kv \in [Blocks -> [1..BlockSize -> HashSet]]
      BY <1>3, <1>4
    <2>3. \A s \in Seqs : seq[s].computed <= seq[s].len /\ info[s].prompt <= seq[s].len
      BY <1>6
    <2> QED BY <1>3, <1>6, <1>7, <2>1, <2>2, <2>3 DEF Shape, Phases
  <1>9. Core(mem, Tables(seq), Slots(seq), Computed(phase, seq, out), lost)
    <2> DEFINE T == Tables(seq)
               n == Slots(seq)
               c == Computed(phase, seq, out)
    <2>1. /\ mem \in Mems /\ mem.comp = {} /\ lost \in [Blocks -> Nat]
          /\ \A b \in Blocks : mem.ref[b] = 0 /\ mem.hash[b] = NoHash /\ lost[b] = 0
      BY <1>3, <1>4 DEF Mems, NoStamp
    <2>2. Sound(mem)
      <3>1. \A dev \in Devices : dev \subseteq Blocks
        BY ONLY <1>2, BlockFacts
      <3> QED BY <2>1, <3>1 DEF Sound
    <2>3. T \in [Seqs -> Seq(Blocks)] /\ \A s \in Seqs : T[s] = <<>>
      BY <1>6, Columns DEF Tables
    <2>4. \A s \in Seqs : Seated(mem, s, T[s], n[s], c[s])
      BY <1>5, <2>3 DEF Seated
    <2>5. Accounted(mem, T, lost)
      <3>1. \A b \in Blocks : Having(T, b) = {}
        BY ONLY <1>5, <2>3 DEF Having
      <3>2. Cardinality({}) = 0
        BY FS_EmptySet
      <3>3. \A b \in Blocks : mem.ref[b] = 0 /\ lost[b] = 0
        BY <2>1
      <3> HIDE DEF T
      <3> QED BY ONLY <3>1, <3>2, <3>3 DEF Accounted
    <2> HIDE DEF T, n, c
    <2>6. Core(mem, T, n, c, lost)
      BY ONLY <2>1, <2>2, <2>3, <2>4, <2>5 DEF Core
    <2> QED BY <2>6 DEF T, n, c
  <1>10. Owners(phase, seq, running, pending, entries)
    <2>1. Owned(phase, seq, running, pending, entries)
      BY <1>6 DEF Owned
    <2>2. Fitting(seq, running)
      BY <1>3, <1>5, <1>6 DEF Fitting, Active
    <2>3. Leaving(seq, running, pending)
      BY <1>5, <1>6, <1>7 DEF Leaving
    <2>4. Retained(seq, running, pending, entries)
      BY <1>3 DEF Retained
    <2> QED BY ONLY <2>1, <2>2, <2>3, <2>4 DEF Owners
  <1>11. Queues(phase, seq, waiting, running, out)
    BY <1>3, <1>5 DEF Queues, Scheduling
  <1> QED BY <1>1, <1>8, <1>9, <1>10, <1>11 DEF EngineInv

\* Every step of the engine keeps the invariant.
LEMMA EngineStep ==
    ASSUME EngineInv, Engine
    PROVE  SettledNext /\ conf' = conf /\ info' = info
  <1>1. conf' = conf /\ info' = info
    BY DEF Engine
  <1>2. CASE StartStep
    BY <1>1, <1>2, StartStepStep
  <1>3. CASE RunHead
    BY ONLY EngineInv, <1>1, <1>3, RunHeadStep
  <1>4. CASE PreemptLast
    BY <1>1, <1>4, PreemptLastStep
  <1>5. CASE StopRunning
    <2>1. /\ phase = "running" /\ phase' \in {"scheduled", "prefill"}
          /\ UNCHANGED <<mem, kv, seq, waiting, running, out, pending, entries, lost>>
      BY <1>5 DEF StopRunning
    <2> QED BY <1>1, <2>1, PhaseStep
  <1>6. CASE AdmitHead
    BY <1>1, <1>6, AdmitHeadStep
  <1>7. CASE IgnoreHead
    BY <1>1, <1>7, IgnoreHeadStep
  <1>8. CASE StopPrefill
    <2>1. /\ phase = "prefill" /\ phase' = "scheduled"
          /\ UNCHANGED <<mem, kv, seq, waiting, running, out, pending, entries, lost>>
      BY <1>8 DEF StopPrefill
    <2> QED BY <1>1, <2>1, PhaseStep
  <1>9. CASE EndSchedule
    BY <1>1, <1>9, EndScheduleStep
  <1>10. CASE Worker
    BY <1>1, <1>10, WorkerStep
  <1>11. CASE Process
    BY <1>1, <1>11, OverrunStep, ProcessStep
  <1>12. CASE FinishOne
    BY <1>1, <1>12, FinishOneStep
  <1> QED BY <1>2, <1>3, <1>4, <1>5, <1>6, <1>7, <1>8, <1>9, <1>10, <1>11, <1>12 DEF Engine

\* So does every step of a client.
LEMMA ClientStep ==
    ASSUME EngineInv, NEW s \in Seqs, Client(s)
    PROVE  SettledNext /\ conf' = conf /\ info' = info
  <1>1. conf' = conf /\ info' = info
    BY DEF Client
  <1>2. CASE Arrive(s)
    BY ONLY EngineInv, <1>1, <1>2, ArriveStep
  <1>3. CASE Migrate(s)
    <2>1. Still /\ seq[s].status = "new" /\ (MigrateToGpu(s) \/ MigrateToCpu(s))
      BY <1>3 DEF Migrate, Still, Sendable
    <2> QED BY ONLY EngineInv, <1>1, <2>1, MigrateToGpuStep, MigrateToCpuStep
  <1> QED BY <1>2, <1>3 DEF Client

\* And a step that changes nothing.
LEMMA NextInv ==
    ASSUME EngineInv, [Next]_vars
    PROVE  EngineInv'
  <1>1. SettledNext /\ conf' = conf /\ info' = info
    <2>1. CASE Engine
      BY ONLY EngineInv, <2>1, EngineStep
    <2>2. CASE \E s \in Seqs : Client(s)
      BY ONLY EngineInv, <2>2, ClientStep
    <2>3. CASE UNCHANGED vars
      <3>1. /\ conf' = conf /\ info' = info /\ phase' = phase /\ mem' = mem /\ kv' = kv
            /\ seq' = seq /\ waiting' = waiting /\ running' = running /\ out' = out
            /\ pending' = pending /\ entries' = entries /\ lost' = lost
        BY ONLY <2>3 DEF vars
      <3>2. Settled(phase, kv, mem, seq, waiting, running, out, pending, entries, lost)
        BY InvFacts DEF Settled
      <3> QED BY ONLY <3>1, <3>2 DEF SettledNext
    <2> QED BY <2>1, <2>2, <2>3 DEF Next
  <1>2. Setting
    BY InvFacts
  <1> QED BY ONLY <1>1, <1>2, InvAfter DEF SettledNext

\* The invariant holds in every state of every engine.
THEOREM EngineInvariant == Spec => []EngineInv
  <1>1. Init => EngineInv
    BY ONLY InitInv
  <1>2. EngineInv /\ [Next]_vars => EngineInv'
    BY NextInv
  <1> QED BY ONLY <1>1, <1>2, PTL DEF Spec

\* The invariant bounds the types.
LEMMA InvTypeOK ==
    ASSUME EngineInv
    PROVE  TypeOK
  <1>1. /\ phase \in Phases /\ kv \in [Blocks -> [1..BlockSize -> HashSet]]
        /\ entries \in [Keys -> Seqs \cup {None}] /\ lost \in [Blocks -> Nat]
        /\ mem \in Mems /\ Sound(mem) /\ seq \in [Seqs -> SeqRecs]
    BY InvFacts
  <1>2. /\ mem.ref \in [Blocks -> Nat] /\ mem.hash \in [Blocks -> HashSet]
        /\ mem.comp \subseteq {b \in Blocks : mem.ref[b] > 0}
    BY <1>1 DEF Mems, Sound
  <1>3. ASSUME NEW s \in Seqs
        PROVE  /\ seq[s].status \in Statuses
               /\ {seq[s].len, seq[s].computed, seq[s].skip, seq[s].slots} \subseteq Nat
               /\ seq[s].computed <= seq[s].len /\ seq[s].table \in Seq(Blocks)
    BY ONLY EngineInv, <1>1, InvFacts, SeqFacts
  <1>4. ToSet(waiting) \cup ToSet(running) \subseteq Seqs
    BY ListFacts
  <1> QED BY ONLY <1>1, <1>2, <1>3, <1>4 DEF TypeOK, Phases

\* The variables of an engine keep their types.
THEOREM EngineTypeOK == Spec => []TypeOK
  <1>1. EngineInv => TypeOK
    BY InvTypeOK
  <1> QED BY <1>1, EngineInvariant, PTL

\* Its reference counts are exact.
LEMMA InvRefsExact ==
    ASSUME EngineInv
    PROVE  RefsExact
  <1>1. Accounted(mem, Tables(seq), lost)
    BY InvFacts DEF Core
  <1>2. \A b \in Blocks :
           Having(Tables(seq), b) = {s \in Seqs : b \in ToSet(seq[s].table)}
    BY DEF Having, Tables
  <1> QED BY <1>1, <1>2 DEF Accounted, RefsExact

\* A block is referenced as often as tables have it, and by what was lost: for
\* every workload, migration and preemption.
THEOREM EngineRefsExact == Spec => []RefsExact
  <1>1. EngineInv => RefsExact
    BY InvRefsExact
  <1> QED BY <1>1, EngineInvariant, PTL

\* Whoever owns blocks has a reason to.
LEMMA InvOwnersLive ==
    ASSUME EngineInv
    PROVE  OwnersLive
  <1>1. ASSUME NEW s \in Seqs, seq[s].table # <<>>
        PROVE  \/ seq[s].status \in {"prefill", "decode"}
               \/ entries[info[s].key] = s
               \/ s \in ToSet(pending.seqs)
               \/ phase = "finish" /\ s \in ToSet(Finished)
    <2>1. \/ Active(seq[s]) \/ entries[info[s].key] = s \/ s \in ToSet(pending.seqs)
          \/ phase = "finish" /\ s \in ToSet(running) /\ seq[s].status = "finished"
      BY ONLY EngineInv, <1>1, ListFacts DEF Owned
    <2>2. s \in ToSet(running) /\ seq[s].status = "finished" => s \in ToSet(Finished)
      <3> DEFINE E == {z \in Seqs : seq[z].status = "finished"}
      <3>1. Finished = Kept(running, E)
        BY DEF Finished
      <3>2. seq[s].status = "finished" => s \in E
        OBVIOUS
      <3> HIDE DEF E
      <3>3. ToSet(Kept(running, E)) = ToSet(running) \cap E
        BY InvFacts, KeptSet
      <3> QED BY ONLY <3>1, <3>2, <3>3
    <2> QED BY <2>1, <2>2 DEF Active
  <1>2. ASSUME NEW k \in Keys, entries[k] # None
        PROVE  /\ info[entries[k]].key = k
               /\ seq[entries[k]].status = "finished"
               /\ seq[entries[k]].table # <<>>
               /\ ToSet(seq[entries[k]].table) \subseteq Gpu
    <2>1. entries[k] \in Seqs
      BY <1>2, InvFacts
    <2>2. /\ info[entries[k]].key = k /\ seq[entries[k]].status = "finished"
          /\ seq[entries[k]].table # <<>> /\ entries[k] \notin ToSet(pending.seqs)
      BY ONLY EngineInv, <1>2, ListFacts DEF Retained
    <2> QED BY ONLY EngineInv, <2>1, <2>2, ListFacts DEF Leaving
  <1> QED BY ONLY <1>1, <1>2 DEF OwnersLive

\* Only live sequences own blocks, and a retained entry's owner has finished and
\* holds GPU blocks.
THEOREM EngineOwnersLive == Spec => []OwnersLive
  <1>1. EngineInv => OwnersLive
    BY InvOwnersLive
  <1> QED BY <1>1, EngineInvariant, PTL

\* Tables name blocks by their content.
LEMMA InvTablesAddressed ==
    ASSUME EngineInv
    PROVE  TablesAddressed
  <1>1. \A dev \in {Gpu, Cpu} : \A b, c \in dev :
           mem.hash[b] # NoHash /\ mem.hash[b] = mem.hash[c] => b = c
    BY InvFacts DEF Sound, Devices
  <1>2. ASSUME NEW s \in Seqs, NEW i \in DOMAIN seq[s].table, i * BlockSize <= seq[s].slots
        PROVE  mem.hash[seq[s].table[i]] = Hash(s, i)
    <2> DEFINE T == Tables(seq)
               n == Slots(seq)
               c == Computed(phase, seq, out)
    <2>1. Seated(mem, s, T[s], n[s], c[s])
      BY ONLY EngineInv, InvFacts DEF Core
    <2>2. T[s] = seq[s].table /\ n[s] = seq[s].slots
      BY DEF Tables, Slots
    <2> HIDE DEF T, n, c
    <2> QED BY ONLY <1>2, <2>1, <2>2 DEF Seated, Content
  <1> QED BY ONLY <1>1, <1>2 DEF TablesAddressed

\* A device caches a content once, and a table's full blocks are the blocks cached
\* for their content.
THEOREM EngineTablesAddressed == Spec => []TablesAddressed
  <1>1. EngineInv => TablesAddressed
    BY InvTablesAddressed
  <1> QED BY <1>1, EngineInvariant, PTL
-----------------------------------------------------------------------------
(***************************************************************************)
(* The tokens that count as computed, where nobody disturbs the engine.    *)
(***************************************************************************)
\* A request's length when it finishes.
Final(s) == info[s].prompt + Most(info[s].output, 1)

\* The tokens of s: before its next token is sampled all others are computed.
Told(s, q) ==
    IF q.status = "finished" THEN q.len = Final(s) /\ q.computed = q.len - 1
    ELSE /\ q.len < Final(s)
         /\ q.status = "decode" => q.computed = q.len - 1
         /\ q.status = "waiting" => q.computed = 0

\* A retained table has a slot for every token but the last one.
Readable(s, q) ==
    /\ info[s].keep /\ ~info[s].free
    /\ q.slots = q.len - 1 /\ q.slots <= Len(q.table) * BlockSize

\* No sequence of the batch will have more computed tokens than it has.
Tally(p, sq, o, e) ==
    /\ p # "overrun"
    /\ \A s \in Seqs : Told(s, sq[s])
    /\ p \in Scheduling \cup {"worker", "process"} =>
          \A s \in Batched(o) : sq[s].computed + o.chunk[s] <= sq[s].len
    /\ \A k \in Keys : e[k] # None => Readable(e[k], sq[e[k]])

Tallied == Tally(phase, seq, out, entries)
TalliedNext == Tally(phase', seq', out', entries')

\* The sequences count their tokens alike.
AlikeTokens(sq, sq2) ==
    \A s \in Seqs : /\ sq2[s].status = sq[s].status /\ sq2[s].len = sq[s].len
                    /\ sq2[s].computed = sq[s].computed

\* The entries that stay are those of unchanged tables.
AlikeEntries(sq, e, sq2, e2) ==
    \A k \in Keys : e2[k] # None =>
        /\ e[k] = e2[k] /\ e2[k] \in Seqs
        /\ sq2[e2[k]].slots = sq[e[k]].slots /\ sq2[e2[k]].table = sq[e[k]].table

\* A step that counts no token, and adds nobody to the batch.
LEMMA TallyQuiet ==
    ASSUME Tallied, NEW p, NEW sq, NEW o, NEW e, p # "overrun",
           AlikeTokens(seq, sq), AlikeEntries(seq, entries, sq, e),
           \/ Batched(o) = {}
           \/ p \notin Scheduling \cup {"worker", "process"}
           \/ /\ phase \in Scheduling \cup {"worker", "process"}
              /\ Batched(o) = Batched(out) /\ Batched(out) \subseteq Seqs
              /\ o.chunk = out.chunk
    PROVE  Tally(p, sq, o, e)
  <1>1. \A s \in Seqs : Told(s, sq[s])
    BY DEF Tallied, Tally, Told, AlikeTokens
  <1>2. ASSUME p \in Scheduling \cup {"worker", "process"}, NEW s \in Batched(o)
        PROVE  sq[s].computed + o.chunk[s] <= sq[s].len
    <2>1. /\ phase \in Scheduling \cup {"worker", "process"}
          /\ s \in Batched(out) /\ s \in Seqs /\ o.chunk = out.chunk
      BY <1>2
    <2>2. seq[s].computed + out.chunk[s] <= seq[s].len
      BY <2>1 DEF Tallied, Tally
    <2>3. sq[s].len = seq[s].len /\ sq[s].computed = seq[s].computed
      BY <2>1 DEF AlikeTokens
    <2> QED BY <2>1, <2>2, <2>3
  <1>3. ASSUME NEW k \in Keys, e[k] # None
        PROVE  Readable(e[k], sq[e[k]])
    <2>1. /\ entries[k] = e[k] /\ e[k] \in Seqs /\ entries[k] # None
          /\ sq[e[k]].slots = seq[e[k]].slots /\ sq[e[k]].table = seq[e[k]].table
      BY <1>3 DEF AlikeEntries
    <2>2. sq[e[k]].len = seq[e[k]].len
      BY <2>1 DEF AlikeTokens
    <2>3. Readable(e[k], seq[e[k]])
      BY <2>1 DEF Tallied, Tally
    <2> QED BY ONLY <2>1, <2>2, <2>3 DEF Readable
  <1> QED BY <1>1, <1>2, <1>3 DEF Tally

\* The tokens of an idle engine.
LEMMA TallyInit ==
    ASSUME Init
    PROVE  Tallied
  <1>1. phase = "idle" /\ \A k \in Keys : entries[k] = None
    BY DEF Init
  <1>2. ASSUME NEW s \in Seqs
        PROVE  Told(s, seq[s])
    <2>1. seq[s].status = "new" /\ seq[s].len = info[s].prompt
      BY DEF Init
    <2>2. info[s] \in Job
      BY EngineAssumption DEF Init
    <2>3. info[s].prompt \in Nat /\ info[s].output \in Nat
      BY <2>2 DEF Job
    <2> QED BY ONLY <2>1, <2>3 DEF Told, Final, Most
  <1>3. "idle" \notin Scheduling \cup {"worker", "process"}
    BY ONLY DEF Scheduling
  <1> QED BY ONLY <1>1, <1>2, <1>3 DEF Tallied, Tally

\* Steps of the engine that leave the sequences and the entries alone.
LEMMA TallySame ==
    ASSUME EngineInv, Tallied, seq' = seq, entries' = entries,
           phase' # "overrun",
           \/ Batched(out') = {}
           \/ phase' \notin Scheduling \cup {"worker", "process"}
           \/ out' = out /\ phase \in Scheduling \cup {"worker", "process"}
    PROVE  TalliedNext
  <1>1. AlikeTokens(seq, seq') /\ AlikeEntries(seq, entries, seq', entries')
    BY InvFacts DEF AlikeTokens, AlikeEntries
  <1>2. Batched(out) \subseteq Seqs
    BY ListFacts
  <1> QED BY <1>1, <1>2, TallyQuiet DEF TalliedNext

\* An empty output has no batch.
LEMMA NoBatch == Batched(NoOut) = {}
  <1>1. ToSet(<<>>) = {}
    BY DEF ToSet
  <1> QED BY <1>1 DEF Batched, NoOut

\* The steps of the engine that only move its phase.
LEMMA TallyPhases ==
    ASSUME EngineInv, Tallied, StartStep \/ StopRunning \/ StopPrefill \/ Worker
    PROVE  TalliedNext
  <1>1. CASE StartStep
    BY <1>1, NoBatch, TallySame DEF StartStep
  <1>2. CASE StopRunning
    BY <1>2, TallySame DEF StopRunning, Scheduling
  <1>3. CASE StopPrefill
    BY <1>3, TallySame DEF StopPrefill, Scheduling
  <1>4. CASE Worker
    BY <1>4, TallySame DEF Worker
  <1> QED BY <1>1, <1>2, <1>3, <1>4

\* The end of the schedule.
LEMMA TallyEnd ==
    ASSUME EngineInv, Tallied, EndSchedule
    PROVE  TalliedNext
  <1>1. /\ phase = "scheduled" /\ phase' \in {"idle", "worker"} /\ entries' = entries
        /\ \E copies : out' = [out EXCEPT !.swapOut = copies]
        /\ \E stamps : seq' = [s \in Seqs |-> [seq[s] EXCEPT !.last = stamps[s]]]
    <2> DEFINE stamps == [s \in Seqs |->
                    Ranked(IF s \in Batch THEN Now ELSE seq[s].last)]
    <2>1. seq' = [s \in Seqs |-> [seq[s] EXCEPT !.last = stamps[s]]]
      BY DEF EndSchedule
    <2>2. \E st : seq' = [s \in Seqs |-> [seq[s] EXCEPT !.last = st[s]]]
      <3> HIDE DEF stamps
      <3> QED BY <2>1
    <2> QED BY <2>2 DEF EndSchedule
  <1>2. PICK copies : out' = [out EXCEPT !.swapOut = copies]
    BY <1>1
  <1>3. PICK stamps : seq' = [s \in Seqs |-> [seq[s] EXCEPT !.last = stamps[s]]]
    BY <1>1
  <1>4. \A s \in Seqs : /\ seq'[s].status = seq[s].status /\ seq'[s].len = seq[s].len
                        /\ seq'[s].computed = seq[s].computed
                        /\ seq'[s].slots = seq[s].slots /\ seq'[s].table = seq[s].table
    BY <1>3, InvFacts DEF SeqRecs
  <1>5. AlikeTokens(seq, seq') /\ AlikeEntries(seq, entries, seq', entries')
    BY ONLY EngineInv, <1>1, <1>4, InvFacts DEF AlikeTokens, AlikeEntries
  <1>6. Batched(out') = Batched(out) /\ out'.chunk = out.chunk
    BY <1>2, InvFacts DEF Batched, Outs
  <1>7. Batched(out) \subseteq Seqs
    BY ListFacts
  <1> QED BY <1>1, <1>5, <1>6, <1>7, TallyQuiet DEF TalliedNext, Scheduling

\* Only s changes, and it does not finish.
LEMMA TallyOne ==
    ASSUME EngineInv, Tallied, NEW s \in Seqs, NEW v,
           seq' = [seq EXCEPT ![s] = v], v.status # "finished", Told(s, v),
           seq[s].status # "finished", entries' = entries, phase' # "overrun",
           \/ phase' \notin Scheduling \cup {"worker", "process"}
           \/ /\ phase \in Scheduling \cup {"worker", "process"}
              /\ Batched(out') = Batched(out) /\ s \notin Batched(out)
              /\ out'.chunk = out.chunk
    PROVE  TalliedNext
  <1>1. seq'[s] = v /\ \A z \in Seqs \ {s} : seq'[z] = seq[z]
    BY InvFacts
  <1>2. \A z \in Seqs : Told(z, seq'[z])
    BY <1>1 DEF Tallied, Tally
  <1>3. ASSUME NEW k \in Keys, entries[k] # None
        PROVE  Readable(entries[k], seq'[entries[k]])
    <2>1. entries[k] \in Seqs
      BY <1>3, InvFacts
    <2>2. seq[entries[k]].status = "finished"
      BY <1>3, ListFacts DEF Retained
    <2>3. seq'[entries[k]] = seq[entries[k]]
      BY <1>1, <2>1, <2>2
    <2>4. Readable(entries[k], seq[entries[k]])
      BY <1>3 DEF Tallied, Tally
    <2> QED BY <2>3, <2>4
  <1>4. ASSUME phase' \in Scheduling \cup {"worker", "process"}, NEW z \in Batched(out')
        PROVE  seq'[z].computed + out'.chunk[z] <= seq'[z].len
    <2>1. z \in Batched(out) /\ z # s /\ z \in Seqs
      BY <1>4, ListFacts
    <2>2. seq'[z] = seq[z] /\ out'.chunk = out.chunk
      BY <1>1, <1>4, <2>1
    <2>3. seq[z].computed + out.chunk[z] <= seq[z].len
      BY <1>4, <2>1 DEF Tallied, Tally
    <2> QED BY <2>2, <2>3
  <1> QED BY <1>2, <1>3, <1>4 DEF TalliedNext, Tally

\* A request arrives, or is ignored.
LEMMA TallyRelabel ==
    ASSUME EngineInv, Tallied, (\E s \in Seqs : Arrive(s)) \/ IgnoreHead
    PROVE  TalliedNext
  <1>1. ASSUME NEW s \in Seqs, Arrive(s)
        PROVE  TalliedNext
    <2> DEFINE v == [seq[s] EXCEPT !.status = "waiting"]
    <2>1. seq' = [seq EXCEPT ![s] = v]
      BY ONLY EngineInv, <1>1, InvFacts DEF Arrive
    <2>2. seq[s].status = "new" /\ seq[s].computed = 0 /\ seq[s] \in SeqRecs
      BY <1>1, InvFacts, ListFacts DEF Arrive, Sendable, Fitting
    <2>3. Told(s, seq[s])
      BY DEF Tallied, Tally
    <2>4. v.status = "waiting" /\ v.len = seq[s].len /\ v.computed = 0
      BY <2>2 DEF SeqRecs
    <2> HIDE DEF v
    <2>5. Told(s, v)
      BY ONLY <2>2, <2>3, <2>4 DEF Told
    <2>6. phase' = "idle" /\ entries' = entries
      BY <1>1 DEF Arrive
    <2> QED BY <2>1, <2>2, <2>4, <2>5, <2>6, TallyOne DEF Scheduling
  <1>2. ASSUME IgnoreHead
        PROVE  TalliedNext
    <2> DEFINE s == Head(waiting)
               v == [seq[s] EXCEPT !.status = "ignored"]
    <2>1. s \in Seqs /\ seq[s].status = "waiting"
      <3>1. waiting \in Seq(Seqs) /\ waiting # <<>>
        BY <1>2, InvFacts DEF IgnoreHead
      <3>2. s \in ToSet(waiting)
        BY <3>1 DEF ToSet
      <3> QED BY ONLY EngineInv, <3>2, ListFacts
    <2>2. seq' = [seq EXCEPT ![s] = v] /\ phase = "prefill" /\ phase' = "prefill"
          /\ entries' = entries /\ out' = out
      BY <1>2, InvFacts DEF IgnoreHead
    <2> HIDE DEF s
    <2>3. Told(s, seq[s]) /\ seq[s] \in SeqRecs
      BY <2>1, InvFacts DEF Tallied, Tally
    <2>4. v.status = "ignored" /\ v.len = seq[s].len
      BY ONLY <2>3 DEF SeqRecs
    <2> HIDE DEF v
    <2>5. Told(s, v)
      BY ONLY <2>1, <2>3, <2>4 DEF Told
    <2>6. s \notin Batched(out)
      <3>1. Apart(seq, waiting, running, out)
        BY ONLY EngineInv, <2>2, InvFacts DEF Queues, Scheduling
      <3> QED BY ONLY <2>1, <3>1 DEF Apart, Batched
    <2> QED BY <2>1, <2>2, <2>4, <2>5, <2>6, TallyOne DEF Scheduling
  <1> QED BY <1>1, <1>2

\* A preempted request starts again.
LEMMA TallyPreempt ==
    ASSUME EngineInv, Tallied, PreemptLast
    PROVE  TalliedNext
  <1> DEFINE v == Last(running)
             u == [Unowned(seq[v]) EXCEPT !.status = "waiting", !.computed = 0]
  <1>1. v \in Seqs /\ v \in ToSet(running) /\ phase = "running"
    <2>1. running \in Seq(Seqs) /\ running # <<>> /\ phase = "running"
      BY InvFacts DEF PreemptLast
    <2>2. v \in ToSet(running)
      BY ONLY <2>1 DEF ToSet, Last
    <2> QED BY ONLY EngineInv, <2>1, <2>2, ListFacts
  <1>2. /\ entries' = entries
        /\ \/ phase' = "noswap" /\ seq' = seq /\ out' = out
           \/ /\ phase' = "running" /\ seq' = [seq EXCEPT ![v] = u]
              /\ \E cs, ps : out' = [out EXCEPT !.swapOut = cs, !.preempted = ps]
    <2>1. CASE ~CanSwapOut(v)
      BY <2>1 DEF PreemptLast
    <2>2. CASE CanSwapOut(v)
      <3>1. phase' = "running" /\ entries' = entries
        BY <1>1, <2>2 DEF PreemptLast
      <3>2. seq' = [seq EXCEPT ![v] = u]
        BY <1>1, <2>2, InvFacts DEF PreemptLast
      <3>3. \E w : out' = [out EXCEPT !.swapOut = @ \o w.map, !.preempted = Append(@, v)]
        BY <2>2 DEF PreemptLast
      <3>4. PICK w : out' = [out EXCEPT !.swapOut = @ \o w.map, !.preempted = Append(@, v)]
        BY ONLY <3>3
      <3> QED BY ONLY <3>1, <3>2, <3>4
    <2> QED BY <2>1, <2>2
  <1>3. CASE phase' = "noswap" /\ seq' = seq /\ out' = out
    BY <1>1, <1>2, <1>3, TallySame DEF Scheduling
  <1>4. CASE /\ phase' = "running" /\ seq' = [seq EXCEPT ![v] = u]
             /\ \E cs, ps : out' = [out EXCEPT !.swapOut = cs, !.preempted = ps]
    <2> HIDE DEF v
    <2>1. seq[v] \in SeqRecs /\ Told(v, seq[v]) /\ seq[v].status # "finished"
      BY <1>1, InvFacts, ListFacts DEF Tallied, Tally, Active
    <2>2. Unowned(seq[v]) \in SeqRecs /\ Unowned(seq[v]).len = seq[v].len
      BY ONLY <2>1, UnownedFacts
    <2>3. u.status = "waiting" /\ u.computed = 0 /\ u.len = seq[v].len
      BY ONLY <2>2 DEF SeqRecs
    <2> HIDE DEF u
    <2>4. Told(v, u)
      BY <2>1, <2>3 DEF Told
    <2>5. Batched(out') = Batched(out) /\ out'.chunk = out.chunk
      BY <1>4, InvFacts DEF Batched, Outs
    <2>6. v \notin Batched(out)
      <3>1. Apart(seq, waiting, running, out)
        BY <1>1, InvFacts DEF Queues, Scheduling
      <3> QED BY <1>1, <3>1 DEF Apart
    <2> QED BY <1>1, <1>2, <1>4, <2>1, <2>3, <2>4, <2>5, <2>6, TallyOne DEF Scheduling
  <1> QED BY <1>2, <1>3, <1>4

\* A chunk is as large as wanted, or smaller.
LEMMA ChunkSize ==
    ASSUME EngineInv, NEW k \in Int
    PROVE  Chunk(k) \in Int /\ Chunk(k) <= k
  <1> DEFINE d == TokenBudget - out.used
             b == BlockSize
  <1>1. d \in Int /\ b \in Nat \ {0}
    BY ONLY EngineInv, InvFacts, EngineAssumption DEF Outs
  <1> HIDE DEF d, b
  <1>2. (d \div b) \in Int
    BY <1>1
  <1>3. (d \div b) * b \in Int
    BY ONLY <1>1, <1>2
  <1> QED BY <1>3 DEF Chunk, Least, Floor, d, b

\* How many tokens a scheduled chunk has: no more than are left to compute, and
\* with the cached ones no more than that either.
LEMMA ChunkFacts ==
    ASSUME EngineInv, NEW s \in Seqs, NEW c \in Int
    PROVE  LET n == NewTokens(s, c)
               rest == seq[s].len - seq[s].computed
               hit == Least(Most(0, c - seq[s].computed), rest)
           IN  /\ n.new \in Int /\ n.cached \in Nat
               /\ seq[s].status = "decode" => n.new <= 1
               /\ seq[s].status # "decode" /\ rest > 0 =>
                     /\ n.new <= rest /\ n.new + n.cached <= rest
                     /\ n.new <= rest - hit \/ (rest = hit /\ n.new <= 1)
  <1> DEFINE n == NewTokens(s, c)
             rest == seq[s].len - seq[s].computed
             hit == Least(Most(0, c - seq[s].computed), rest)
  <1>1. seq[s].len \in Nat /\ seq[s].computed \in Nat /\ seq[s].computed <= seq[s].len
    BY InvFacts, SeqFacts
  <1>2. n.new \in Int /\ n.cached \in Nat
    BY NewTokensFacts
  <1>3. rest \in Nat /\ hit \in 0..rest
    BY <1>1 DEF Least, Most
  <1>4. \A k \in Int : Chunk(k) <= k
    BY ChunkSize
  <1>5. n = IF seq[s].status = "decode" THEN [new |-> Chunk(1), cached |-> 0]
            ELSE IF rest = hit /\ hit > 0 THEN [new |-> Chunk(1), cached |-> hit - 1]
            ELSE [new |-> Chunk(rest - hit), cached |-> hit]
    BY DEF NewTokens
  <1> HIDE DEF n, rest, hit
  <1>6. CASE seq[s].status = "decode"
    <2>1. n.new = Chunk(1)
      BY <1>5, <1>6
    <2>2. n.new <= 1
      BY ONLY <1>2, <1>4, <2>1
    <2> QED BY ONLY <1>2, <1>6, <2>2 DEF n
  <1>7. CASE seq[s].status # "decode" /\ rest = hit /\ hit > 0
    <2>1. n.new = Chunk(1) /\ n.cached = hit - 1
      BY <1>5, <1>7
    <2>2. n.new <= 1
      BY ONLY <1>2, <1>4, <2>1
    <2>3. n.new <= rest /\ n.new + n.cached <= rest
      BY <1>2, <1>3, <1>7, <2>1, <2>2
    <2> QED BY <1>2, <1>7, <2>2, <2>3 DEF n, rest, hit
  <1>8. CASE seq[s].status # "decode" /\ ~(rest = hit /\ hit > 0)
    <2>1. n.new = Chunk(rest - hit) /\ n.cached = hit
      BY ONLY <1>5, <1>8
    <2>2. rest - hit \in Int
      BY <1>3
    <2>3. n.new <= rest - hit
      BY ONLY <1>2, <1>4, <2>1, <2>2
    <2>4. n.new <= rest /\ n.new + n.cached <= rest
      BY <1>2, <1>3, <2>1, <2>3
    <2> QED BY ONLY <1>2, <1>8, <2>3, <2>4 DEF n, rest, hit
  <1> QED BY <1>6, <1>7, <1>8

\* A running sequence's next chunk.
LEMMA TallyRun ==
    ASSUME EngineInv, Tallied, RunHead
    PROVE  TalliedNext
  <1> DEFINE s == Head(running)
             k == NewTokens(s, seq[s].memo).new
             a == AppendSlots(s)
             v == [seq[s] EXCEPT !.table = a.table, !.slots = seq[s].len]
             n == IF seq[s].status = "decode" THEN "decodes" ELSE "prefills"
  <1>1. /\ phase = "running" /\ phase' = "running" /\ running # <<>> /\ k > 0
        /\ entries' = entries
    BY DEF RunHead
  <1>2. s \in Seqs /\ Active(seq[s]) /\ s \notin Batched(out)
    <2>1. running \in Seq(Seqs)
      BY InvFacts
    <2>2. s \in ToSet(running)
      BY <1>1, <2>1 DEF ToSet
    <2>3. s \in Seqs /\ Active(seq[s])
      BY ONLY EngineInv, <1>1, <2>2, ListFacts
    <2>4. Apart(seq, waiting, running, out)
      BY ONLY EngineInv, <1>1, InvFacts DEF Queues, Scheduling
    <2> QED BY ONLY <2>2, <2>3, <2>4 DEF Apart
  <1>3. /\ seq' = [seq EXCEPT ![s] = v]
        /\ out' = [out EXCEPT !.chunk[s] = k, !.used = @ + k, ![n] = Append(@, s)]
    BY <1>2, InvFacts DEF RunHead
  <1> HIDE DEF s, n
  <1>4. /\ seq[s] \in SeqRecs /\ Told(s, seq[s])
        /\ seq[s].len \in Nat /\ seq[s].computed \in Nat /\ seq[s].computed <= seq[s].len
        /\ seq[s].memo \in Int
    BY <1>2, InvFacts, SeqFacts DEF Tallied, Tally
  <1>5. k \in Nat /\ seq[s].computed + k <= seq[s].len
    <2> DEFINE m == seq[s].memo
    <2>1. m \in Int
      BY <1>4
    <2> HIDE DEF m
    <2> DEFINE w == NewTokens(s, m)
               rest == seq[s].len - seq[s].computed
    <2>2. w.new \in Int
      BY ONLY EngineInv, <1>2, <2>1, ChunkFacts
    <2>3. seq[s].status = "decode" => w.new <= 1 /\ rest = 1
      <3>1. seq[s].status = "decode" => w.new <= 1
        BY <1>2, <2>1, ChunkFacts
      <3>2. seq[s].status = "decode" => seq[s].computed = seq[s].len - 1
        BY ONLY <1>4 DEF Told
      <3> QED BY <1>4, <3>1, <3>2
    <2>4. seq[s].status # "decode" /\ rest > 0 => w.new <= rest
      BY <1>2, <2>1, ChunkFacts
    <2>5. rest = 0 => seq[s].status = "decode" \/ w.new <= 0
      <3> SUFFICES ASSUME rest = 0, seq[s].status # "decode" PROVE w.new <= 0
        OBVIOUS
      <3> DEFINE hit == Least(Most(0, m - seq[s].computed), rest)
      <3>1. hit = 0
        BY <1>4, <2>1 DEF Least, Most
      <3>2. w = [new |-> Chunk(0), cached |-> 0]
        BY <3>1 DEF NewTokens
      <3>3. w.new = Chunk(0)
        BY ONLY <3>2
      <3> QED BY <3>3, ChunkSize
    <2>6. w.new = k /\ rest \in Nat
      BY ONLY <1>4 DEF m
    <2> HIDE DEF w, k
    <2>7. k \in Int /\ k > 0
      BY <1>1, <2>2, <2>6
    <2> HIDE DEF rest
    <2>8. k <= rest
      BY ONLY <2>3, <2>4, <2>5, <2>6, <2>7
    <2> QED BY ONLY <1>4, <2>7, <2>8 DEF rest
  <1> HIDE DEF k, a
  <1>6. /\ v.status = seq[s].status /\ v.len = seq[s].len /\ v.computed = seq[s].computed
    BY <1>4 DEF SeqRecs
  <1> HIDE DEF v
  <1>7. seq'[s] = v /\ \A z \in Seqs \ {s} : seq'[z] = seq[z]
    BY ONLY EngineInv, <1>2, <1>3, InvFacts
  <1>8. \A z \in Seqs : Told(z, seq'[z])
    BY <1>2, <1>4, <1>6, <1>7 DEF Told, Tallied, Tally
  <1>9. /\ Batched(out') = Batched(out) \cup {s} /\ out'.chunk = [out.chunk EXCEPT ![s] = k]
    <2>1. \/ /\ out'.decodes = Append(out.decodes, s) /\ out'.prefills = out.prefills
          \/ /\ out'.prefills = Append(out.prefills, s) /\ out'.decodes = out.decodes
      BY <1>3, InvFacts DEF n, Outs
    <2>2. out'.fresh = out.fresh /\ out'.chunk = [out.chunk EXCEPT ![s] = k]
      BY <1>3, InvFacts DEF n, Outs
    <2>3. out.decodes \in Seq(Seqs) /\ out.prefills \in Seq(Seqs)
      BY InvFacts DEF Outs
    <2>4. /\ ToSet(Append(out.decodes, s)) = ToSet(out.decodes) \cup {s}
          /\ ToSet(Append(out.prefills, s)) = ToSet(out.prefills) \cup {s}
      BY <1>2, <2>3, AppendSet
    <2> QED BY <2>1, <2>2, <2>4 DEF Batched
  <1>10. ASSUME NEW z \in Batched(out')
         PROVE  seq'[z].computed + out'.chunk[z] <= seq'[z].len
    <2>1. out.chunk \in [Seqs -> Nat]
      BY InvFacts DEF Outs
    <2>2. CASE z = s
      <3>1. out'.chunk[z] = k
        BY ONLY <1>2, <1>9, <2>1, <2>2
      <3> QED BY <1>5, <1>6, <1>7, <2>2, <3>1
    <2>3. CASE z # s
      <3>1. z \in Batched(out) /\ z \in Seqs
        BY <1>9, <1>10, <2>3, ListFacts
      <3>2. out'.chunk[z] = out.chunk[z] /\ seq'[z] = seq[z]
        BY <1>7, <1>9, <2>1, <2>3, <3>1
      <3>3. seq[z].computed + out.chunk[z] <= seq[z].len
        BY <1>1, <3>1 DEF Tallied, Tally, Scheduling
      <3> QED BY <3>2, <3>3
    <2> QED BY ONLY <2>2, <2>3
  <1>11. ASSUME NEW e \in Keys, entries[e] # None
         PROVE  Readable(entries[e], seq'[entries[e]])
    <2>1. entries[e] \in Seqs
      BY ONLY EngineInv, <1>11, InvFacts
    <2>2. seq[entries[e]].status = "finished"
      BY ONLY EngineInv, <1>11, ListFacts DEF Retained
    <2>3. seq'[entries[e]] = seq[entries[e]]
      BY ONLY <1>2, <1>7, <2>1, <2>2 DEF Active
    <2>4. Readable(entries[e], seq[entries[e]])
      BY <1>11 DEF Tallied, Tally
    <2> QED BY ONLY <2>3, <2>4
  <1> QED BY <1>1, <1>8, <1>10, <1>11 DEF TalliedNext, Tally

\* Finished requests: a retained table is that of a sequence that has computed
\* all its slots.
LEMMA TallyFinish ==
    ASSUME EngineInv, Tallied, FinishOne
    PROVE  TalliedNext
  <1> DEFINE s == Head(Finished)
             k == info[s].key
             w == SwapOutSeq(s)
  <1>1. /\ phase = "finish" /\ phase' \in {"idle", "finish"} /\ out' = out
        /\ \/ /\ seq' = DropOwner(seq, k) /\ entries' = [entries EXCEPT ![k] = s]
              /\ Keeps(s)
           \/ /\ seq' = [seq EXCEPT ![s].table = w.table] /\ entries' = entries
           \/ /\ seq' = [DropOwner(seq, k) EXCEPT ![s] = Unowned(@)]
              /\ entries' = [entries EXCEPT ![k] = None]
    BY DEF FinishOne
  <1>2. /\ s \in Seqs /\ k \in Keys /\ Fitted(seq[s]) /\ seq[s].computed = seq[s].slots
        /\ seq[s].status = "finished" /\ \A e \in Keys : entries[e] # s
    <2>1. Kept(running, Seqs \ {s}) = Kept(running, Seqs \ {s})
      OBVIOUS
    <2>2. /\ s \in Seqs /\ Fitted(seq[s]) /\ seq[s].computed = seq[s].slots
          /\ seq[s].status = "finished" /\ \A e \in Keys : entries[e] # s
      BY <1>1, HeadFinished
    <2> QED BY <2>2, InvFacts
  <1> HIDE DEF s, k, w
  <1>3. /\ seq \in [Seqs -> SeqRecs] /\ None \notin Seqs
        /\ entries \in [Keys -> Seqs \cup {None}]
        /\ phase' \notin Scheduling \cup {"worker", "process"} /\ phase' # "overrun"
    BY <1>1, InvFacts DEF Scheduling
  <1> DEFINE sq == DropOwner(seq, k)
  <1>4. /\ sq \in [Seqs -> SeqRecs]
        /\ \A z \in Seqs : /\ sq[z].status = seq[z].status /\ sq[z].len = seq[z].len
                           /\ sq[z].computed = seq[z].computed
                           /\ z # entries[k] => sq[z] = seq[z]
    BY ONLY <1>3, DropOwnerFacts
  <1> HIDE DEF sq
  <1>5. \A e \in Keys \ {k} : entries[e] # None => /\ entries[e] \in Seqs
                                                   /\ sq[entries[e]] = seq[entries[e]]
    <2> SUFFICES ASSUME NEW e \in Keys \ {k}, entries[e] # None
                 PROVE  entries[e] \in Seqs /\ sq[entries[e]] = seq[entries[e]]
      OBVIOUS
    <2>1. entries[e] \in Seqs /\ info[entries[e]].key = e
      BY <1>3, ListFacts DEF Retained
    <2>2. entries[k] # None => info[entries[k]].key = k
      BY ONLY EngineInv, <1>2, ListFacts DEF Retained
    <2>3. entries[e] # entries[k]
      BY <2>1, <2>2
    <2> QED BY ONLY <1>4, <2>1, <2>3
  <1>6. CASE /\ seq' = sq /\ entries' = [entries EXCEPT ![k] = s] /\ Keeps(s)
    <2>1. entries'[k] = s /\ \A e \in Keys \ {k} : entries'[e] = entries[e]
      BY <1>2, <1>3, <1>6
    <2>2. \A z \in Seqs : Told(z, seq'[z])
      BY <1>4, <1>6 DEF Told, Tallied, Tally
    <2>3. Readable(s, seq'[s])
      <3>1. seq'[s] = seq[s]
        BY ONLY <1>2, <1>4, <1>6
      <3>2. seq[s].computed = seq[s].len - 1
        BY <1>2 DEF Told, Tallied, Tally
      <3>3. seq[s].slots <= Len(seq[s].table) * BlockSize
        BY ONLY <1>2 DEF Fitted
      <3> QED BY ONLY <1>2, <1>6, <3>1, <3>2, <3>3 DEF Readable, Keeps
    <2>4. ASSUME NEW e \in Keys, entries'[e] # None
          PROVE  Readable(entries'[e], seq'[entries'[e]])
      <3>1. CASE e = k
        BY ONLY <2>1, <2>3, <3>1
      <3>2. CASE e # k
        <4>1. entries'[e] = entries[e] /\ entries[e] # None
          BY <2>1, <2>4, <3>2
        <4>2. Readable(entries[e], seq[entries[e]])
          BY <4>1 DEF Tallied, Tally
        <4>3. seq'[entries[e]] = seq[entries[e]]
          BY ONLY <1>5, <1>6, <3>2, <4>1
        <4> QED BY <4>1, <4>2, <4>3
      <3> QED BY ONLY <3>1, <3>2
    <2> QED BY <1>3, <2>2, <2>4 DEF TalliedNext, Tally
  <1>7. CASE seq' = [seq EXCEPT ![s].table = w.table] /\ entries' = entries
    <2> DEFINE t == w.table
               v == [seq[s] EXCEPT !.table = t]
    <2>1. seq' = [seq EXCEPT ![s] = v]
      BY ONLY <1>2, <1>3, <1>7
    <2> HIDE DEF t
    <2>2. v.status = seq[s].status /\ v.len = seq[s].len /\ v.computed = seq[s].computed
      BY ONLY <1>2, <1>3 DEF SeqRecs
    <2> HIDE DEF v
    <2>3. seq'[s] = v /\ \A z \in Seqs \ {s} : seq'[z] = seq[z]
      BY ONLY <1>2, <1>3, <2>1
    <2>4. AlikeTokens(seq, seq')
      BY ONLY <2>2, <2>3 DEF AlikeTokens
    <2>5. AlikeEntries(seq, entries, seq', entries')
      BY ONLY <1>2, <1>3, <1>7, <2>3 DEF AlikeEntries
    <2> QED BY <1>3, <2>4, <2>5, TallyQuiet DEF TalliedNext
  <1>8. CASE /\ seq' = [sq EXCEPT ![s] = Unowned(@)]
             /\ entries' = [entries EXCEPT ![k] = None]
    <2> DEFINE v == Unowned(sq[s])
    <2>1. v.status = sq[s].status /\ v.len = sq[s].len /\ v.computed = sq[s].computed
      BY <1>2, <1>4, UnownedFacts
    <2>2. seq' = [sq EXCEPT ![s] = v]
      BY <1>8
    <2> HIDE DEF v
    <2>3. seq'[s] = v /\ \A z \in Seqs \ {s} : seq'[z] = sq[z]
      BY ONLY <1>2, <1>4, <2>2
    <2>4. AlikeTokens(seq, seq')
      BY <1>2, <1>4, <2>1, <2>3 DEF AlikeTokens
    <2>5. entries'[k] = None /\ \A e \in Keys \ {k} : entries'[e] = entries[e]
      BY <1>2, <1>3, <1>8
    <2>6. AlikeEntries(seq, entries, seq', entries')
      <3> SUFFICES ASSUME NEW e \in Keys, entries'[e] # None
                   PROVE  /\ entries[e] = entries'[e] /\ entries'[e] \in Seqs
                          /\ seq'[entries'[e]] = seq[entries[e]]
        BY DEF AlikeEntries
      <3>1. e # k /\ entries'[e] = entries[e]
        BY <2>5
      <3>2. entries[e] \in Seqs /\ sq[entries[e]] = seq[entries[e]] /\ entries[e] # s
        BY <1>2, <1>5, <3>1
      <3> QED BY ONLY <2>3, <3>1, <3>2
    <2> QED BY <1>3, <2>4, <2>6, TallyQuiet DEF TalliedNext
  <1> QED BY ONLY <1>1, <1>6, <1>7, <1>8 DEF sq

\* Between steps, a filled and computed block of a sequence that is on the device
\* is held for its content.
LEMMA FilledBlock ==
    ASSUME EngineInv, phase \notin {"worker", "process"},
           NEW e \in Seqs, e \notin ToSet(pending.seqs),
           NEW i \in 1..Len(seq[e].table),
           i * BlockSize <= seq[e].slots, i * BlockSize <= seq[e].computed
    PROVE  LET b == seq[e].table[i]
           IN  b \in Gpu /\ mem.hash[b] = Hash(e, i) /\ b \in mem.comp /\ mem.ref[b] > 0
  <1> DEFINE t == seq[e].table
             T == Tables(seq)
             m == Slots(seq)
             c == Computed(phase, seq, out)
  <1>1. i \in DOMAIN t /\ t[i] \in Gpu
    <2>1. t \in Seq(Gpu)
      BY OnGpu
    <2> HIDE DEF t
    <2> QED BY ONLY <2>1 DEF t
  <1>2. Seated(mem, e, T[e], m[e], c[e]) /\ Sound(mem)
    BY InvFacts DEF Core
  <1>3. T[e] = t /\ m[e] = seq[e].slots /\ c[e] = seq[e].computed
    <2>1. c = Counts(seq)
      BY ComputedIdle
    <2> HIDE DEF c
    <2> QED BY ONLY <2>1, e \in Seqs DEF Tables, Slots, Counts
  <1>4. i * BlockSize <= m[e] /\ i * BlockSize <= c[e]
    BY <1>3
  <1> HIDE DEF T, m, c
  <1>5. mem.hash[t[i]] = Content(e, m[e], i) /\ t[i] \in mem.comp
    <2> HIDE DEF t
    <2> QED BY ONLY <1>1, <1>2, <1>3, <1>4 DEF Seated
  <1>6. Content(e, m[e], i) = Hash(e, i)
    BY ONLY <1>4 DEF Content
  <1>7. mem.ref[t[i]] > 0
    BY ONLY <1>2, <1>5 DEF Sound
  <1> QED BY ONLY <1>1, <1>5, <1>6, <1>7

\* The workloads in which an exact entry never saves a token too many.
AlignedJobs(jobs) == ContinuedJobs(jobs) /\ NoRoundEntry(jobs)

\* The tokens that an exact entry saves are cached: the blocks of its table are
\* computed, and hold what the request's own blocks will.
LEMMA KnownCached ==
    ASSUME EngineInv, Tallied, AlignedJobs(info), phase = "prefill",
           NEW s \in Seqs, seq[s].status = "waiting",
           entries[info[s].key] # None
    PROVE  ExactTokens(s) <= CachedPrefix(s)
  <1> DEFINE k == info[s].key
             e == entries[k]
             t == seq[e].table
             known == ExactTokens(s)
             x == seq[s].len
             r == Least(seq[e].len, info[s].prompt - 1)
             n == r \div BlockSize
  <1>1. /\ k \in Keys /\ e \in Seqs /\ e # s /\ info[e].key = k
        /\ seq[e].status = "finished" /\ e \notin ToSet(pending.seqs)
    <2>1. k \in Keys
      BY InvFacts
    <2>2. e \in Seqs
      BY <2>1, InvFacts
    <2>3. info[e].key = k /\ seq[e].status = "finished" /\ e \notin ToSet(pending.seqs)
      BY <2>1, ListFacts DEF Retained
    <2> QED BY <2>1, <2>2, <2>3
  <1>2. /\ Told(e, seq[e]) /\ Readable(e, seq[e])
    BY <1>1 DEF Tallied, Tally
  <1>3. /\ seq[e].len = Final(e) /\ seq[e].computed = seq[e].len - 1
        /\ info[e].keep /\ ~info[e].free
        /\ seq[e].slots = seq[e].len - 1 /\ seq[e].slots <= Len(t) * BlockSize
    BY ONLY <1>1, <1>2 DEF Told, Readable
  <1>4. /\ info[s].prompt \in Nat \ {0} /\ x \in Nat /\ info[s].prompt <= x
        /\ info[s].common \in Nat /\ info[e].common \in Nat
        /\ seq[e].len \in Nat /\ seq[e].computed \in Nat /\ seq[e].slots \in Nat
        /\ t \in Seq(Blocks)
    <2>1. info[s] \in Job /\ info[e] \in Job
      BY <1>1, InvFacts, HashFacts
    <2> QED BY <1>1, <2>1, InvFacts, SeqFacts DEF Job
  <1>5. r \in Nat /\ r <= x
    BY <1>4 DEF Least
  <1>6. known = n * BlockSize
    BY DEF ExactTokens, Floor
  <1>7. /\ known < seq[e].len /\ known <= BlockSize * info[e].common
        /\ known <= BlockSize * info[s].common
    <2>1. known = Floor(Least(info[e].prompt + Most(info[e].output, 1), info[s].prompt - 1))
      BY <1>3 DEF ExactTokens, Final
    <2>2. Floor(r) = known
      BY ONLY DEF ExactTokens
    <2>3. r = Least(info[e].prompt + Most(info[e].output, 1), info[s].prompt - 1)
      BY ONLY <1>3 DEF Final
    <2>4. Follows(info, s, e) /\ seq[e].len = FinalLen(info[e])
      BY ONLY <1>1, <1>3 DEF Follows, Final, FinalLen
    <2>5. known <= BlockSize * info[e].common /\ known <= BlockSize * info[s].common
      <3>1. known = Floor(Least(FinalLen(info[e]), info[s].prompt - 1)) /\ ContinuedJobs(info)
        BY <2>1 DEF FinalLen, AlignedJobs
      <3> HIDE DEF known, e, r
      <3> QED BY ONLY <1>1, <2>4, <3>1 DEF ContinuedJobs
    <2>6. known < seq[e].len
      <3> DEFINE l == seq[e].len
                 p == info[s].prompt
      <3>1. Floor(l) = l => p <= l
        <4>1. NoRoundEntry(info)
          BY DEF AlignedJobs
        <4> HIDE DEF e
        <4> QED BY ONLY <1>1, <2>4, <4>1 DEF NoRoundEntry
      <3>2. known <= r /\ known \in Int
        <4> HIDE DEF r
        <4>1. n \in Nat /\ n * BlockSize <= r
          BY ONLY <1>5, Blocking
        <4>2. n * BlockSize \in Int
          BY ONLY <4>1, Scaling
        <4> HIDE DEF n, known
        <4> QED BY ONLY <1>6, <4>1, <4>2
      <3>3. /\ r \in Nat /\ r <= l /\ r <= p - 1 /\ l \in Nat /\ p \in Nat
        BY <1>4, <1>5 DEF Least
      <3>4. r = l => Floor(l) = known
        BY <2>2
      <3> HIDE DEF l, p, r, known
      <3>5. known < l
        BY ONLY <3>1, <3>2, <3>3, <3>4
      <3> QED BY ONLY <3>5 DEF l
    <2> QED BY ONLY <2>5, <2>6
  <1> HIDE DEF r, x
  <1>8. n \in Nat /\ \A i \in Int : i * BlockSize <= r <=> i <= n
    BY ONLY <1>5, Blocking
  <1> HIDE DEF n
  <1> DEFINE full == x \div BlockSize
  <1>9. full \in Nat /\ \A i \in Int : i * BlockSize <= x <=> i <= full
    BY <1>4, Blocking
  <1> HIDE DEF full
  <1>10. n \in 0..full
    <2>1. n * BlockSize <= r
      BY <1>8
    <2>2. n * BlockSize \in Int
      BY <1>8, Scaling
    <2>3. n * BlockSize <= x
      BY ONLY <1>4, <1>5, <2>1, <2>2
    <2> QED BY <1>8, <1>9, <2>3
  <1> DEFINE hits == {i \in 1..full :
                         \E b \in Holders(mem, Gpu, Hash(s, i)) : IsComputed(mem, b)}
  <1>11. ASSUME NEW i \in 1..n PROVE i \in hits
    <2>1. i \in 1..full /\ i \in Nat \ {0} /\ i <= n /\ i \in Int
      BY ONLY <1>8, <1>9, <1>10
    <2>2. i * BlockSize <= known /\ i * BlockSize \in Nat /\ known \in Nat
      BY ONLY <1>6, <1>8, <2>1, Scaling
    <2> DEFINE B == BlockSize
               ec == info[e].common
               sc == info[s].common
    <2>3. /\ B \in Nat \ {0} /\ ec \in Nat /\ sc \in Nat /\ Len(t) \in Nat
      BY <1>4, EngineAssumption
    <2>4. /\ B * ec \in Int /\ B * sc \in Int /\ Len(t) * B \in Int
          /\ B * ec = ec * B /\ B * sc = sc * B
      <3> DEFINE lt == Len(t)
      <3> HIDE DEF B, ec, sc, lt
      <3> QED BY <2>3 DEF lt
    <2>5. /\ i * BlockSize <= seq[e].slots /\ i * BlockSize <= seq[e].computed
          /\ i * BlockSize <= BlockSize * info[e].common
          /\ i * BlockSize <= BlockSize * info[s].common
          /\ i * BlockSize <= Len(t) * BlockSize
      <3> DEFINE ib == i * BlockSize
                 eb == BlockSize * info[e].common
                 sb == BlockSize * info[s].common
                 tb == Len(t) * BlockSize
      <3>1. eb \in Int /\ sb \in Int /\ tb \in Int
        BY <2>4
      <3> HIDE DEF ib, eb, sb, tb, known
      <3>2. ib <= known /\ ib \in Nat
        BY ONLY <2>2 DEF ib
      <3>3. ib <= seq[e].slots /\ ib <= seq[e].computed
        BY ONLY <1>3, <1>4, <1>7, <2>2, <3>2
      <3>4. ib <= eb /\ ib <= sb
        BY <1>7, <2>2, <3>1, <3>2 DEF eb, sb
      <3>5. ib <= tb
        BY <1>3, <1>4, <3>1, <3>2, <3>3 DEF tb
      <3> QED BY ONLY <3>3, <3>4, <3>5 DEF ib, eb, sb, tb
    <2>6. i <= info[e].common /\ i <= info[s].common /\ i <= Len(t)
      <3>1. i * B <= ec * B /\ i * B <= sc * B /\ i * B <= Len(t) * B
        <4> HIDE DEF ec, sc
        <4>1. i * BlockSize <= BlockSize * ec /\ i * BlockSize <= BlockSize * sc
          BY ONLY <2>5 DEF ec, sc
        <4> QED BY ONLY <2>5, <2>4, <4>1
      <3> HIDE DEF ec, sc
      <3>2. i <= ec
        BY <2>1, <2>3, <3>1, Scaling
      <3>3. i <= sc
        BY ONLY <2>1, <2>3, <3>1, Scaling
      <3>4. i <= Len(t)
        BY <2>1, <2>3, <3>1, Scaling
      <3> QED BY ONLY <3>2, <3>3, <3>4 DEF ec, sc
    <2>7. Hash(s, i) = Hash(e, i)
      BY ONLY <1>1, <2>6 DEF Hash, k
    <2>8. i \in DOMAIN t
      BY ONLY <1>4, <2>1, <2>6
    <2> DEFINE b == t[i]
    <2>9. b \in Gpu /\ mem.hash[b] = Hash(e, i) /\ b \in mem.comp /\ mem.ref[b] > 0
      <3>1. /\ EngineInv /\ phase \notin {"worker", "process"} /\ e \in Seqs
            /\ e \notin ToSet(pending.seqs) /\ i \in 1..Len(t)
            /\ i * BlockSize <= seq[e].slots /\ i * BlockSize <= seq[e].computed
        BY <1>1, <1>4, <2>1, <2>5, <2>6
      <3> HIDE DEF e
      <3> QED BY ONLY <3>1, FilledBlock
    <2> HIDE DEF b
    <2>10. b \in Holders(mem, Gpu, Hash(s, i)) /\ IsComputed(mem, b)
      BY ONLY <2>7, <2>9 DEF Holders, IsComputed
    <2> QED BY <2>1, <2>10
  <1> DEFINE h == BisectLeft(hits, full)
  <1>12. n <= h /\ h \in Nat
    <2> HIDE DEF hits
    <2>1. n <= h
      BY ONLY <1>9, <1>10, <1>11, BisectCovers
    <2>2. h \in 0..full
      BY <1>9, BisectFacts
    <2> QED BY ONLY <1>9, <2>1, <2>2
  <1>13. CachedTokens(mem, Gpu, s, x) = BlockSize * h
    BY DEF CachedTokens, full
  <1> HIDE DEF hits, h
  <1>14. known <= CachedTokens(mem, Gpu, s, x)
    <2>1. n \in Int /\ h \in Int /\ BlockSize * h = h * BlockSize
      BY <1>8, <1>12, EngineAssumption
    <2>2. n * BlockSize <= h * BlockSize
      BY ONLY <1>12, <2>1, Scaling
    <2> QED BY ONLY <1>6, <1>13, <2>1, <2>2
  <1>15. /\ CachedTokens(mem, Gpu, s, x) \in Nat /\ CachedTokens(mem, Cpu, s, x) \in Nat
         /\ known \in Nat
    <2>1. n * BlockSize \in Nat
      BY <1>8, Scaling
    <2> QED BY ONLY <1>4, <1>6, <2>1, CachedType
  <1> HIDE DEF known
  <1> QED BY ONLY <1>14, <1>15 DEF CachedPrefix, Most, x, known

\* A new request's first chunk: what a retained entry saves it and what it still
\* computes are no more than its tokens.
LEMMA AdmitChunk ==
    ASSUME EngineInv, Tallied, AlignedJobs(info), phase = "prefill",
           NEW s \in Seqs, seq[s].status = "waiting",
           NEW n, n = NewTokens(s, CachedPrefix(s)), n.new > 0,
           NEW exact, exact = (entries[info[s].key] # None),
           NEW known, known = IF exact THEN ExactTokens(s) ELSE 0
    PROVE  known + (IF exact THEN n.new ELSE n.new + n.cached) <= seq[s].len
  <1> DEFINE c == CachedPrefix(s)
             x == seq[s].len
             hit == Least(Most(0, c), x)
  <1>1. known \in Nat /\ known < x /\ x \in Nat \ {0}
    BY KnownFacts
  <1>2. seq[s].computed = 0
    BY DEF Tallied, Tally, Told
  <1>3. c \in Int
    <2>1. CachedTokens(mem, Gpu, s, seq[s].len) \in Nat
          /\ CachedTokens(mem, Cpu, s, seq[s].len) \in Nat
      BY <1>1, CachedType
    <2> QED BY <2>1 DEF CachedPrefix, Most
  <1>4. exact => known <= c
    BY KnownCached
  <1> HIDE DEF c
  <1> DEFINE w == NewTokens(s, c)
  <1>5. w = n
    BY DEF c
  <1>6. /\ w.new \in Int /\ w.cached \in Nat
        /\ w.new + w.cached <= x /\ (w.new <= x - hit \/ (x = hit /\ w.new <= 1))
    <2> DEFINE rest == x - seq[s].computed
               h == Least(Most(0, c - seq[s].computed), rest)
    <2>1. rest = x /\ h = hit
      BY ONLY <1>1, <1>2, <1>3
    <2>2. w.new \in Int /\ w.cached \in Nat
      BY <1>3, ChunkFacts
    <2>3. /\ w.new + w.cached <= rest
          /\ w.new <= rest - h \/ (rest = h /\ w.new <= 1)
      <3>1. rest > 0
        BY ONLY <1>1, <2>1
      <3> QED BY <1>3, <3>1, ChunkFacts
    <2> HIDE DEF rest, h, w, hit
    <2> QED BY <2>1, <2>2, <2>3
  <1> HIDE DEF w, x
  <1>7. CASE exact
    <2>1. known <= hit
      BY ONLY <1>1, <1>3, <1>4, <1>7 DEF Least, Most
    <2>2. hit \in Nat
      BY <1>1, <1>3 DEF Least, Most
    <2> HIDE DEF hit
    <2>3. known + w.new <= x
      BY ONLY <1>1, <1>6, <2>1, <2>2
    <2> QED BY ONLY <1>5, <1>7, <2>3 DEF x
  <1>8. CASE ~exact
    BY <1>5, <1>6, <1>8 DEF x
  <1> QED BY <1>7, <1>8

\* A new request joins the batch, and its key's entry is consumed.
LEMMA TallyAdmit ==
    ASSUME EngineInv, Tallied, AlignedJobs(info), AdmitHead
    PROVE  TalliedNext
  <1> DEFINE s == Head(waiting)
             k == info[s].key
             exact == entries[k] # None
             known == IF exact THEN ExactTokens(s) ELSE 0
             w == AllocateSeq(s, TRUE)
             n == NewTokens(s, CachedPrefix(s))
             x == seq[s].len
             chunk == IF exact THEN n.new ELSE n.new + n.cached
             skip == IF known > 0 THEN known ELSE w.cached
             v == [seq[s] EXCEPT !.status = "prefill", !.table = w.table, !.slots = x,
                                 !.memo = w.cached, !.computed = known, !.skip = skip]
             sq == [seq EXCEPT ![s] = v]
  <1>1. /\ phase = "prefill" /\ waiting # <<>> /\ n.new > 0
        /\ \/ phase' = "nofree" /\ UNCHANGED <<seq, out, entries>>
           \/ /\ seq' = DropOwner(sq, k) /\ entries' = [entries EXCEPT ![k] = None]
              /\ out' = [out EXCEPT !.chunk[s] = chunk, !.used = @ + n.new,
                                    !.fresh = Append(@, s), !.swapIn = @ \o w.map]
              /\ phase' = phase
    <2>1. PICK i \in {n}, a \in {w} :
            /\ i.new > 0
            /\ IF ~a.ok
               THEN phase' = "nofree" /\ UNCHANGED <<mem, seq, waiting, out, entries>>
               ELSE /\ seq' = DropOwner([seq EXCEPT ![s] = [seq[s] EXCEPT
                            !.status = "prefill", !.table = a.table, !.slots = x,
                            !.memo = a.cached, !.computed = known,
                            !.skip = IF known > 0 THEN known ELSE a.cached]], k)
                    /\ entries' = [entries EXCEPT ![k] = None]
                    /\ out' = [out EXCEPT
                            !.chunk[s] = IF exact THEN i.new ELSE i.new + i.cached,
                            !.used = @ + i.new, !.fresh = Append(@, s),
                            !.swapIn = @ \o a.map]
                    /\ phase' = phase
      BY DEF AdmitHead
    <2>2. i = n /\ a = w
      BY <2>1
    <2>3. phase = "prefill" /\ waiting # <<>>
      BY DEF AdmitHead
    <2> HIDE DEF n, w, known
    <2> QED BY ONLY <2>1, <2>2, <2>3
  <1>2. CASE phase' = "nofree" /\ UNCHANGED <<seq, out, entries>>
    BY <1>1, <1>2, TallySame DEF Scheduling
  <1>3. CASE /\ seq' = DropOwner(sq, k) /\ entries' = [entries EXCEPT ![k] = None]
             /\ out' = [out EXCEPT !.chunk[s] = chunk, !.used = @ + n.new,
                                   !.fresh = Append(@, s), !.swapIn = @ \o w.map]
             /\ phase' = phase
    <2>1. s \in Seqs /\ seq[s].status = "waiting" /\ s \notin Batched(out)
      <3>1. waiting \in Seq(Seqs) /\ \A z \in ToSet(waiting) : seq[z].status = "waiting"
        BY ONLY EngineInv, InvFacts, ListFacts
      <3>2. s \in ToSet(waiting) /\ s \in Seqs
        BY ONLY <1>1, <3>1 DEF ToSet
      <3>3. Apart(seq, waiting, running, out)
        BY ONLY EngineInv, <1>1, InvFacts DEF Queues, Scheduling
      <3> QED BY ONLY <3>1, <3>2, <3>3 DEF Apart, Batched
    <2> HIDE DEF s
    <2>2. /\ k \in Keys /\ None \notin Seqs /\ seq \in [Seqs -> SeqRecs]
          /\ entries \in [Keys -> Seqs \cup {None}] /\ out \in Outs
      BY <2>1, InvFacts
    <2>3. known \in Nat /\ known < x /\ x \in Nat \ {0} /\ n.new \in Int
          /\ Told(s, seq[s])
      <3>1. known \in Nat /\ known < x /\ x \in Nat \ {0}
        BY <2>1, KnownFacts
      <3> DEFINE c == CachedPrefix(s)
      <3>2. c \in Int
        <4>1. CachedTokens(mem, Gpu, s, seq[s].len) \in Nat
              /\ CachedTokens(mem, Cpu, s, seq[s].len) \in Nat
          BY <3>1, CachedType
        <4> QED BY ONLY <4>1 DEF CachedPrefix, Most
      <3> HIDE DEF c
      <3>3. NewTokens(s, c).new \in Int
        BY ONLY EngineInv, <2>1, <3>2, NewTokensFacts
      <3>4. Told(s, seq[s])
        BY <2>1 DEF Tallied, Tally
      <3> QED BY ONLY <3>1, <3>3, <3>4 DEF c
    <2>4. known + chunk <= x
      <3> HIDE DEF n
      <3>1. n = NewTokens(s, CachedPrefix(s))
        BY DEF n
      <3> HIDE DEF known, exact
      <3>2. exact = (entries[info[s].key] # None)
            /\ known = IF exact THEN ExactTokens(s) ELSE 0
        BY DEF known, exact
      <3> QED BY <1>1, <2>1, <3>1, <3>2, AdmitChunk
    <2> HIDE DEF known, n, w, chunk, skip, exact
    <2>5. v.status = "prefill" /\ v.len = x /\ v.computed = known
      BY ONLY <2>1, <2>2 DEF SeqRecs
    <2> HIDE DEF v
    <2>6. sq[s] = v /\ DOMAIN sq = Seqs /\ \A z \in Seqs \ {s} : sq[z] = seq[z]
      BY ONLY <2>1, <2>2
    <2> HIDE DEF sq
    <2>7. \A z \in Seqs : seq'[z] = IF z = entries[k] THEN Unowned(sq[z]) ELSE sq[z]
      <3>1. entries[k] # None => entries[k] \in Seqs
        BY <2>2
      <3>2. CASE entries[k] = None
        BY ONLY <1>3, <2>2, <3>2 DEF DropOwner
      <3>3. CASE entries[k] # None
        <4>1. seq' = [sq EXCEPT ![entries[k]] = Unowned(sq[entries[k]])]
          BY ONLY <1>3, <3>3 DEF DropOwner
        <4> QED BY ONLY <2>6, <3>1, <3>3, <4>1
      <3> QED BY ONLY <3>2, <3>3
    <2>8. entries[k] # s /\ \A e \in Keys : entries[e] # None => entries[e] # s
      BY <2>1, <2>2, ListFacts DEF Retained
    <2>9. seq'[s] = v /\ \A z \in Seqs \ {s} : /\ seq'[z].status = seq[z].status
                                               /\ seq'[z].len = seq[z].len
                                               /\ seq'[z].computed = seq[z].computed
                                               /\ z # entries[k] => seq'[z] = seq[z]
      <3>1. \A z \in Seqs : seq[z] \in SeqRecs
        BY ONLY <2>2
      <3> QED BY ONLY <2>1, <2>6, <2>7, <2>8, <3>1, UnownedFacts
    <2>10. \A z \in Seqs : Told(z, seq'[z])
      <3>1. Told(s, v)
        BY ONLY <2>1, <2>3, <2>5 DEF Told
      <3>2. \A z \in Seqs \ {s} : Told(z, seq[z])
        BY DEF Tallied, Tally
      <3> QED BY ONLY <2>9, <3>1, <3>2 DEF Told
    <2>11. Batched(out') = Batched(out) \cup {s} /\ out'.chunk = [out.chunk EXCEPT ![s] = chunk]
      <3>1. /\ out'.decodes = out.decodes /\ out'.prefills = out.prefills
            /\ out'.fresh = Append(out.fresh, s)
            /\ out'.chunk = [out.chunk EXCEPT ![s] = chunk]
        BY ONLY <1>3, <2>2 DEF Outs
      <3>2. out.fresh \in Seq(Seqs)
        BY ONLY <2>2 DEF Outs
      <3>3. ToSet(Append(out.fresh, s)) = ToSet(out.fresh) \cup {s}
        BY ONLY <2>1, <3>2, AppendSet
      <3> QED BY ONLY <3>1, <3>3 DEF Batched
    <2>12. ASSUME NEW z \in Batched(out')
           PROVE  seq'[z].computed + out'.chunk[z] <= seq'[z].len
      <3>1. out.chunk \in [Seqs -> Nat]
        BY ONLY <2>2 DEF Outs
      <3>2. CASE z = s
        <4>1. out'.chunk[z] = chunk
          BY <2>1, <2>11, <3>1, <3>2
        <4> QED BY <2>4, <2>5, <2>9, <3>2, <4>1
      <3>3. CASE z # s
        <4>1. z \in Batched(out) /\ z \in Seqs
          BY ONLY EngineInv, <2>11, <2>12, <3>3, ListFacts
        <4>2. out'.chunk[z] = out.chunk[z]
          BY ONLY <2>11, <3>1, <3>3, <4>1
        <4>3. seq[z].computed + out.chunk[z] <= seq[z].len
          BY <1>1, <4>1 DEF Tallied, Tally, Scheduling
        <4> QED BY <2>9, <3>3, <4>1, <4>2, <4>3
      <3> QED BY ONLY <3>2, <3>3
    <2>13. ASSUME NEW e \in Keys, entries'[e] # None
           PROVE  Readable(entries'[e], seq'[entries'[e]])
      <3>1. e # k /\ entries'[e] = entries[e]
        BY ONLY <1>3, <2>2, <2>13
      <3>2. entries[e] \in Seqs /\ info[entries[e]].key = e
        BY ONLY EngineInv, <2>2, <2>13, <3>1, ListFacts DEF Retained
      <3>3. entries[k] # None => info[entries[k]].key = k
        BY <2>2, ListFacts DEF Retained
      <3>4. entries[e] # entries[k] /\ entries[e] # s
        BY <2>8, <2>13, <3>1, <3>2, <3>3
      <3>5. seq'[entries[e]] = seq[entries[e]]
        BY <2>9, <3>2, <3>4
      <3>6. Readable(entries[e], seq[entries[e]])
        BY <2>13, <3>1 DEF Tallied, Tally
      <3> QED BY ONLY <3>1, <3>5, <3>6
    <2>14. phase' # "overrun"
      BY ONLY <1>1, <1>3
    <2> QED BY ONLY <2>10, <2>12, <2>13, <2>14 DEF TalliedNext, Tally
  <1> QED BY ONLY <1>1, <1>2, <1>3

\* What a sequence has after the worker's results.
LEMMA TallyAdvance ==
    ASSUME EngineInv, Tallied, phase = "process", ~Overrun, NEW s \in Seqs
    PROVE  Told(s, Advance(s))
  <1> DEFINE q == seq[s]
             c == q.computed + out.chunk[s]
             a == Advance(s)
             done == q.len + 1 >= Final(s)
  <1>1. /\ q \in SeqRecs /\ q.len \in Nat /\ q.computed \in Nat
        /\ out.chunk[s] \in Nat /\ Final(s) \in Nat
    <2>1. info[s] \in Job
      BY InvFacts, HashFacts
    <2>2. info[s].prompt \in Nat /\ info[s].output \in Nat
      BY ONLY <2>1 DEF Job
    <2>3. Final(s) \in Nat
      BY <2>2 DEF Final, Most
    <2>4. out.chunk[s] \in Nat
      BY InvFacts DEF Outs
    <2> QED BY ONLY EngineInv, <2>3, <2>4, InvFacts, SeqFacts
  <1>2. Told(s, q)
    BY DEF Tallied, Tally
  <1>3. CASE s \notin Batch
    BY <1>2, <1>3 DEF Advance
  <1>4. CASE s \in Batch
    <2>1. c <= q.len /\ c \in Nat /\ q.computed <= c
      BY <1>1, <1>4 DEF Overrun
    <2>2. Active(q)
      <3>1. Batch \subseteq ToSet(running)
        BY BatchFacts, InvFacts DEF Queues
      <3> QED BY <1>4, <3>1, ListFacts
    <2>3. q.len < Final(s) /\ (q.status = "decode" => q.computed = q.len - 1)
      BY ONLY <1>2, <2>2 DEF Told, Active
    <2>4. CASE c < q.len
      <3>1. a = [q EXCEPT !.computed = c]
        BY ONLY <1>4, <2>4 DEF Advance
      <3>2. a.status = q.status /\ a.len = q.len /\ a.computed = c
        BY <1>1, <3>1 DEF SeqRecs
      <3> HIDE DEF a, c
      <3>3. q.status = "decode" => c = q.len - 1
        BY <1>1, <2>1, <2>3, <2>4
      <3> QED BY ONLY <2>2, <2>3, <3>2, <3>3 DEF Told, Active, a
    <2>5. CASE ~(c < q.len)
      <3>1. a = [q EXCEPT !.computed = c, !.len = q.len + 1,
                          !.status = IF done THEN "finished" ELSE "decode"]
        BY <1>4, <2>5 DEF Advance, Final
      <3> DEFINE d == IF done THEN "finished" ELSE "decode"
      <3>2. a.status = d /\ a.len = q.len + 1 /\ a.computed = c
        <4>1. a = [q EXCEPT !.computed = c, !.len = q.len + 1, !.status = d]
          BY <3>1
        <4> HIDE DEF d, a, c
        <4> QED BY <1>1, <4>1 DEF SeqRecs
      <3>3. c = q.len
        BY <1>1, <2>1, <2>5
      <3> HIDE DEF a, c
      <3>4. CASE done
        BY <1>1, <2>3, <3>2, <3>3, <3>4 DEF Told, a
      <3>5. CASE ~done
        BY ONLY <1>1, <2>3, <3>2, <3>3, <3>5 DEF Told, a
      <3> QED BY <3>4, <3>5
    <2> QED BY <2>4, <2>5
  <1> QED BY ONLY <1>3, <1>4

\* The worker's results fit the sequences, and are all counted.
LEMMA TallyProcess ==
    ASSUME EngineInv, Tallied, Process
    PROVE  TalliedNext
  <1> DEFINE some == \E s \in Batch : Advance(s).status = "finished"
             D == ToSet(IF some THEN pending.seqs ELSE <<>>)
  <1>1. phase = "process"
    BY DEF Process
  <1>2. Batch = Batched(out) /\ Batch \subseteq Seqs /\ Batch \subseteq ToSet(running)
    BY <1>1, BatchFacts, InvFacts DEF Queues
  <1>3. ~Overrun
    <2> SUFFICES ASSUME NEW s \in Batch
                 PROVE  ~(seq[s].computed + out.chunk[s] > seq[s].len)
      BY DEF Overrun
    <2>1. seq[s].computed + out.chunk[s] <= seq[s].len
      BY <1>1, <1>2 DEF Tallied, Tally
    <2>2. seq[s].len \in Nat /\ seq[s].computed \in Nat /\ out.chunk[s] \in Nat
      BY <1>2, InvFacts, SeqFacts DEF Outs
    <2> QED BY ONLY <2>1, <2>2
  <1>4. /\ phase' \in {"idle", "finish"} /\ out' = NoOut /\ entries' = entries
        /\ seq' = [s \in Seqs |-> IF s \in D THEN Unowned(Advance(s)) ELSE Advance(s)]
    <2> DEFINE next == [s \in Seqs |-> Advance(s)]
    <2>1. \A s \in Seqs : next[s] = Advance(s)
      OBVIOUS
    <2>2. (\E s \in Batch : next[s].status = "finished") <=> some
      BY <1>2, <2>1
    <2> QED BY <1>3, <2>1, <2>2 DEF Process
  <1>5. D \subseteq ToSet(pending.seqs)
    <2>1. ToSet(<<>>) = {}
      BY ONLY DEF ToSet
    <2> QED BY <2>1
  <1> HIDE DEF D
  <1>6. ASSUME NEW s \in Seqs
        PROVE  Told(s, seq'[s])
    <2>1. Told(s, Advance(s)) /\ Advance(s) \in SeqRecs
      BY <1>1, <1>3, TallyAdvance, AdvanceFacts
    <2>2. seq'[s] = IF s \in D THEN Unowned(Advance(s)) ELSE Advance(s)
      BY <1>4
    <2> DEFINE a == Advance(s)
    <2> HIDE DEF a
    <2>3. seq'[s].status = a.status /\ seq'[s].len = a.len /\ seq'[s].computed = a.computed
      BY ONLY <2>1, <2>2, UnownedFacts DEF a
    <2> QED BY ONLY <2>1, <2>3 DEF Told, a
  <1>7. ASSUME NEW k \in Keys, entries'[k] # None
        PROVE  Readable(entries'[k], seq'[entries'[k]])
    <2>1. entries' = entries /\ entries[k] \in Seqs
      BY <1>4, <1>7, InvFacts
    <2>2. entries[k] \notin ToSet(running) /\ entries[k] \notin ToSet(pending.seqs)
      BY <1>7, <2>1, ListFacts DEF Retained
    <2>3. entries[k] \notin Batch /\ entries[k] \notin D
      BY ONLY <1>2, <1>5, <2>2
    <2>4. seq'[entries[k]] = seq[entries[k]]
      <3>1. seq'[entries[k]] = Advance(entries[k])
        BY ONLY <1>4, <2>1, <2>3
      <3> QED BY ONLY <2>3, <3>1 DEF Advance
    <2>5. Readable(entries[k], seq[entries[k]])
      BY <1>7, <2>1 DEF Tallied, Tally
    <2> QED BY <2>1, <2>4, <2>5
  <1> QED BY <1>4, <1>6, <1>7 DEF TalliedNext, Tally, Scheduling

\* No step of an engine that nobody disturbs spoils the tally.
LEMMA TallyStep ==
    ASSUME EngineInv, Tallied, AlignedJobs(info), Undisturbed, Next
    PROVE  TalliedNext
  <1>1. CASE Engine
    <2>1. CASE StartStep \/ StopRunning \/ StopPrefill \/ Worker
      BY <2>1, TallyPhases
    <2>2. CASE RunHead
      BY <2>2, TallyRun
    <2>3. CASE PreemptLast
      BY <2>3, TallyPreempt
    <2>4. CASE AdmitHead
      BY <2>4, TallyAdmit
    <2>5. CASE IgnoreHead
      BY <2>5, TallyRelabel
    <2>6. CASE EndSchedule
      BY <2>6, TallyEnd
    <2>7. CASE Process
      BY <2>7, TallyProcess
    <2>8. CASE FinishOne
      BY <2>8, TallyFinish
    <2> QED BY <1>1, <2>1, <2>2, <2>3, <2>4, <2>5, <2>6, <2>7, <2>8 DEF Engine
  <1>2. ASSUME NEW s \in Seqs, Client(s)
        PROVE  TalliedNext
    <2>1. Arrive(s)
      BY <1>2 DEF Client, Undisturbed, Migrate, Sendable
    <2> QED BY <2>1, TallyRelabel
  <1> QED BY <1>1, <1>2 DEF Next

\* What an undisturbed engine keeps to.
CountsKept == Undisturbed => AlignedJobs(info) /\ Tallied

\* The next values, and the same workload, keep to it.
LEMMA TallyAfter ==
    ASSUME info' = info, AlignedJobs(info), TalliedNext
    PROVE  CountsKept'
  <1>1. Keys' = Keys
    BY DEF Keys
  <1>2. AlignedJobs(info)'
    BY DEF AlignedJobs, ContinuedJobs, NoRoundEntry
  <1>3. Tallied'
    BY <1>1 DEF Tallied, TalliedNext, Tally, Told, Final, Readable
  <1> QED BY ONLY <1>2, <1>3 DEF CountsKept

\* A step, or a stutter.
LEMMA CountsNext ==
    ASSUME EngineInv, CountsKept, [Next]_vars
    PROVE  CountsKept'
  <1> SUFFICES ASSUME Undisturbed' PROVE CountsKept'
    BY DEF CountsKept
  <1>1. info' = info
    BY DEF Next, Engine, Client, vars
  <1>2. Undisturbed
    BY <1>1 DEF Undisturbed
  <1>3. AlignedJobs(info) /\ Tallied
    BY <1>2 DEF CountsKept
  <1>4. CASE Next
    BY ONLY EngineInv, <1>1, <1>2, <1>3, <1>4, TallyStep, TallyAfter
  <1>5. CASE UNCHANGED vars
    <2>1. TalliedNext
      BY ONLY <1>3, <1>5 DEF Tallied, TalliedNext, vars
    <2> QED BY <1>1, <1>3, <2>1, TallyAfter
  <1> QED BY <1>4, <1>5

\* An engine that no cache migrates to never has a sequence with more computed
\* tokens than tokens, under two conditions on its workload.  Requests of a key go
\* on with each other's tokens; and no retained entry that ends with a full block
\* is followed by a longer prompt.  The repeats of scripts/generate.py meet the
\* first; nothing ensures the second, and where it fails the assertion may fail
\* (the run engine_overrun).
THEOREM EngineNoOverrun ==
    ASSUME \A u \in Setups : ContinuedJobs(u.jobs),
           \A u \in Setups : NoRoundEntry(u.jobs)
    PROVE  Spec => []NoOverrun
  <1>1. Init => CountsKept
    <2> SUFFICES ASSUME Init PROVE AlignedJobs(info) /\ Tallied
      BY DEF CountsKept
    <2>1. AlignedJobs(info)
      BY DEF Init, AlignedJobs
    <2> QED BY <2>1, TallyInit
  <1>2. EngineInv /\ CountsKept /\ [Next]_vars => CountsKept'
    BY ONLY CountsNext
  <1>3. CountsKept => NoOverrun
    BY DEF CountsKept, Tallied, Tally, NoOverrun
  <1> QED BY <1>1, <1>2, <1>3, EngineInvariant, PTL DEF Spec
=============================================================================
