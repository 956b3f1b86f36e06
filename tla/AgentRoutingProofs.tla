------------------------- MODULE AgentRoutingProofs -------------------------
(* Theorems about InstanceRegistry, for every set of instances, agents and   *)
(* ranges and every set of registrations, and about AgentRouting, for every  *)
(* set of calls, lengths and cache states, whatever registers, fails or      *)
(* leaves in between.                                                        *)
EXTENDS AgentRouting, Induction, FiniteSetTheorems, SequenceTheorems, TLAPS

(***************************************************************************)
(* The registry.                                                           *)
(***************************************************************************)
(* Dictionaries *)

\* A dictionary is a function on some of the keys.
LEMMA DictDef ==
    ASSUME NEW K, NEW V, NEW d
    PROVE  d \in Dict(K, V) <=> DOMAIN d \subseteq K /\ d \in [DOMAIN d -> V]
  <1>1. ASSUME d \in Dict(K, V)
        PROVE  DOMAIN d \subseteq K /\ d \in [DOMAIN d -> V]
    <2>1. PICK D \in SUBSET K : d \in [D -> V]
      BY <1>1 DEF Dict
    <2> QED BY <2>1
  <1>2. ASSUME DOMAIN d \subseteq K, d \in [DOMAIN d -> V]
        PROVE  d \in Dict(K, V)
    BY <1>2 DEF Dict
  <1> QED BY <1>1, <1>2

\* Setting a key keeps a dictionary one.
LEMMA PutDict ==
    ASSUME NEW K, NEW V, NEW d \in Dict(K, V), NEW k \in K, NEW v \in V
    PROVE  Put(d, k, v) \in Dict(K, V)
  <1>1. DOMAIN d \subseteq K /\ d \in [DOMAIN d -> V]
    BY DictDef
  <1>2. /\ DOMAIN Put(d, k, v) \subseteq K
        /\ Put(d, k, v) \in [DOMAIN Put(d, k, v) -> V]
    BY <1>1 DEF Put
  <1> QED BY <1>2, DictDef
-----------------------------------------------------------------------------
(* The inductive invariant *)

\* A record is of a registration that was offered, and its range has a slot.
Recorded ==
    \A i \in Instance : instances[i] # None =>
       /\ <<i, instances[i].agent, instances[i].range>> \in Offer
       /\ instances[i].range # None =>
             instances[i].range \in DOMAIN rangeSlots[instances[i].agent]

\* The index by slot has an entry, perhaps empty, for every slot.
Keyed ==
    \A a \in Agent : DOMAIN contextInstances[a] = DOMAIN slotRanges[a]

\* A slot is that of its range, and the range was offered for the agent.
SlotsOffered ==
    \A a \in Agent : \A k \in DOMAIN slotRanges[a] :
       /\ slotRanges[a][k] \in DOMAIN rangeSlots[a]
       /\ rangeSlots[a][slotRanges[a][k]] = k
       /\ \E j \in Instance : <<j, a, slotRanges[a][k]>> \in Offer

Consistent ==
    /\ TypeOK /\ SlotsInverse /\ IndexesExact
    /\ Recorded /\ Keyed /\ SlotsOffered

\* The slots of an agent count its ranges.
LEMMA RangesFinite ==
    ASSUME TypeOK, NEW a \in Agent
    PROVE  /\ DOMAIN rangeSlots[a] \subseteq ContextRange
           /\ rangeSlots[a] \in [DOMAIN rangeSlots[a] -> Slot]
           /\ DOMAIN slotRanges[a] \subseteq Slot
           /\ slotRanges[a] \in [DOMAIN slotRanges[a] -> ContextRange]
           /\ DOMAIN contextInstances[a] \subseteq Slot
           /\ contextInstances[a] \in [DOMAIN contextInstances[a] -> SUBSET Instance]
           /\ IsFiniteSet(DOMAIN rangeSlots[a])
           /\ Cardinality(DOMAIN rangeSlots[a]) \in Nat
           /\ Cardinality(ContextRange) \in Nat
  <1>1. /\ rangeSlots[a] \in Dict(ContextRange, Slot)
        /\ slotRanges[a] \in Dict(Slot, ContextRange)
        /\ contextInstances[a] \in Dict(Slot, SUBSET Instance)
    BY DEF TypeOK
  <1>2. DOMAIN rangeSlots[a] \subseteq ContextRange
    BY <1>1, DictDef
  <1>3. IsFiniteSet(DOMAIN rangeSlots[a])
    BY <1>2, OfferAssumption, FS_Subset
  <1>4. /\ Cardinality(DOMAIN rangeSlots[a]) \in Nat
        /\ Cardinality(ContextRange) \in Nat
    BY <1>3, OfferAssumption, FS_CardinalityType
  <1> QED BY <1>1, <1>2, <1>3, <1>4, DictDef

\* The maximum over a gapless range of slots, or over none.
LEMMA MaxSlot ==
    ASSUME NEW n \in Nat
    PROVE  Max((0 .. n - 1) \cup {-1}) = n - 1
  <1> DEFINE S == (0 .. n - 1) \cup {-1}
  <1>1. n - 1 \in S /\ \A y \in S : n - 1 >= y
    OBVIOUS
  <1>2. \A x \in S : (\A y \in S : x >= y) => x = n - 1
    BY <1>1
  <1> HIDE DEF S
  <1>3. Max(S) = n - 1
    BY <1>1, <1>2 DEF Max
  <1> QED BY <1>3 DEF S

\* _get_or_create_slot answers the range's own slot, or the next free number.
LEMMA SlotForDef ==
    ASSUME TypeOK, SlotsInverse, NEW a \in Agent, NEW r \in ContextRange
    PROVE  /\ SlotFor(a, r) \in Slot
           /\ r \in DOMAIN rangeSlots[a] =>
                 /\ SlotFor(a, r) = rangeSlots[a][r]
                 /\ SlotFor(a, r) \in DOMAIN slotRanges[a]
                 /\ slotRanges[a][SlotFor(a, r)] = r
           /\ r \notin DOMAIN rangeSlots[a] =>
                 /\ SlotFor(a, r) = Cardinality(DOMAIN rangeSlots[a])
                 /\ SlotFor(a, r) \notin DOMAIN slotRanges[a]
                 /\ Cardinality(DOMAIN rangeSlots[a] \cup {r})
                       = Cardinality(DOMAIN rangeSlots[a]) + 1
  <1> DEFINE D == DOMAIN rangeSlots[a]
             n == Cardinality(D)
  <1>1. D \subseteq ContextRange /\ IsFiniteSet(D) /\ n \in Nat
    BY RangesFinite
  <1>2. DOMAIN slotRanges[a] = 0 .. n - 1
    BY DEF SlotsInverse
  <1>3. CASE r \in D
    <2>1. SlotFor(a, r) = rangeSlots[a][r]
      BY <1>3 DEF SlotFor
    <2>2. rangeSlots[a][r] \in Slot
      BY <1>3, RangesFinite
    <2> QED BY <1>3, <2>1, <2>2 DEF SlotsInverse
  <1>4. CASE r \notin D
    <2>1. SlotFor(a, r) = n
      <3>1. SlotFor(a, r) = Max((0 .. n - 1) \cup {-1}) + 1
        BY <1>2, <1>4 DEF SlotFor
      <3>2. Max((0 .. n - 1) \cup {-1}) = n - 1
        BY <1>1, MaxSlot
      <3> QED BY <1>1, <3>1, <3>2
    <2>2. Cardinality(D \cup {r}) = n + 1
      BY <1>1, <1>4, FS_AddElement
    <2>3. n + 1 <= Cardinality(ContextRange)
      <3>1. D \cup {r} \subseteq ContextRange
        BY <1>1
      <3> QED BY <3>1, <2>2, OfferAssumption, FS_Subset
    <2>4. n \in Slot
      BY <1>1, <2>3, RangesFinite DEF Slot
    <2>5. n \notin 0 .. n - 1
      BY <1>1
    <2> QED BY <1>2, <1>4, <2>1, <2>2, <2>4, <2>5
  <1> QED BY <1>3, <1>4

\* What register leaves in the two maps: the old entries and that of its range.
LEMMA SlotsKept ==
    ASSUME TypeOK, SlotsInverse, NEW a \in Agent, NEW r \in ContextRange,
           rangeSlots' = [rangeSlots EXCEPT ![a] = Put(@, r, SlotFor(a, r))],
           slotRanges' = [slotRanges EXCEPT ![a] = Put(@, SlotFor(a, r), r)]
    PROVE  /\ rangeSlots' \in [Agent -> Dict(ContextRange, Slot)]
           /\ slotRanges' \in [Agent -> Dict(Slot, ContextRange)]
           /\ SlotsInverse'
           /\ \A b \in Agent :
                 /\ b # a => rangeSlots'[b] = rangeSlots[b]
                 /\ b # a => slotRanges'[b] = slotRanges[b]
                 /\ DOMAIN rangeSlots[b] \subseteq DOMAIN rangeSlots'[b]
                 /\ \A x \in DOMAIN rangeSlots[b] :
                       rangeSlots'[b][x] = rangeSlots[b][x]
           /\ DOMAIN slotRanges'[a] = DOMAIN slotRanges[a] \cup {SlotFor(a, r)}
           /\ \A x \in DOMAIN slotRanges[a] :
                 x # SlotFor(a, r) => slotRanges'[a][x] = slotRanges[a][x]
           /\ slotRanges'[a][SlotFor(a, r)] = r
           /\ r \in DOMAIN rangeSlots'[a] /\ rangeSlots'[a][r] = SlotFor(a, r)
  <1> DEFINE rs == rangeSlots[a]
             sr == slotRanges[a]
             k == SlotFor(a, r)
  <1>1. rs \in Dict(ContextRange, Slot) /\ sr \in Dict(Slot, ContextRange)
    BY DEF TypeOK
  <1>2. k \in Slot
    BY SlotForDef
  <1>3. /\ Put(rs, r, k) \in Dict(ContextRange, Slot)
        /\ Put(sr, k, r) \in Dict(Slot, ContextRange)
    BY <1>1, <1>2, PutDict
  <1>4. /\ rangeSlots'[a] = Put(rs, r, k)
        /\ slotRanges'[a] = Put(sr, k, r)
        /\ \A b \in Agent : b # a => /\ rangeSlots'[b] = rangeSlots[b]
                                     /\ slotRanges'[b] = slotRanges[b]
    BY DEF TypeOK
  <1>5. /\ rangeSlots' \in [Agent -> Dict(ContextRange, Slot)]
        /\ slotRanges' \in [Agent -> Dict(Slot, ContextRange)]
    BY <1>3 DEF TypeOK
  <1>6. /\ DOMAIN rangeSlots'[a] = DOMAIN rs \cup {r}
        /\ DOMAIN slotRanges'[a] = DOMAIN sr \cup {k}
        /\ rangeSlots'[a][r] = k
        /\ slotRanges'[a][k] = r
        /\ \A x \in DOMAIN rs : x # r => rangeSlots'[a][x] = rs[x]
        /\ \A x \in DOMAIN sr : x # k => slotRanges'[a][x] = sr[x]
    BY <1>4 DEF Put
  <1>7. r \in DOMAIN rs => rs[r] = k
    BY SlotForDef
  <1>8. SlotsInverse'
    <2> SUFFICES ASSUME NEW b \in Agent
                 PROVE  /\ DOMAIN slotRanges'[b]
                              = 0 .. Cardinality(DOMAIN rangeSlots'[b]) - 1
                        /\ \A x \in DOMAIN rangeSlots'[b] :
                              /\ rangeSlots'[b][x] \in DOMAIN slotRanges'[b]
                              /\ slotRanges'[b][rangeSlots'[b][x]] = x
      BY DEF SlotsInverse
    <2>1. CASE b # a
      BY <1>4, <2>1 DEF SlotsInverse
    <2>2. CASE b = a
      <3>1. DOMAIN sr = 0 .. Cardinality(DOMAIN rs) - 1
        BY DEF SlotsInverse
      <3>2. \A x \in DOMAIN rs : rs[x] \in DOMAIN sr /\ sr[rs[x]] = x
        BY DEF SlotsInverse
      <3>3. DOMAIN slotRanges'[a] = 0 .. Cardinality(DOMAIN rangeSlots'[a]) - 1
        <4>1. CASE r \in DOMAIN rs
          <5>1. DOMAIN rs \cup {r} = DOMAIN rs /\ DOMAIN sr \cup {k} = DOMAIN sr
            BY <4>1, SlotForDef
          <5> QED BY <1>6, <3>1, <5>1
        <4>2. CASE r \notin DOMAIN rs
          <5>1. k = Cardinality(DOMAIN rs)
                /\ Cardinality(DOMAIN rs \cup {r}) = Cardinality(DOMAIN rs) + 1
            BY <4>2, SlotForDef
          <5>2. Cardinality(DOMAIN rs) \in Nat
            BY RangesFinite
          <5>3. \A n \in Nat : (0 .. n - 1) \cup {n} = 0 .. (n + 1) - 1
            OBVIOUS
          <5>4. DOMAIN slotRanges'[a] = 0 .. (Cardinality(DOMAIN rs) + 1) - 1
            BY <1>6, <3>1, <5>1, <5>2, <5>3
          <5> QED BY <1>6, <5>1, <5>4
        <4> QED BY <4>1, <4>2
      <3>4. ASSUME NEW x \in DOMAIN rangeSlots'[a]
            PROVE  /\ rangeSlots'[a][x] \in DOMAIN slotRanges'[a]
                   /\ slotRanges'[a][rangeSlots'[a][x]] = x
        <4>1. CASE x = r
          BY <1>6, <4>1
        <4>2. CASE x # r
          <5>1. x \in DOMAIN rs /\ rangeSlots'[a][x] = rs[x]
            BY <1>6, <4>2
          <5>2. rs[x] \in DOMAIN sr /\ sr[rs[x]] = x
            BY <3>2, <5>1
          <5>3. rs[x] # k
            <6>1. CASE r \in DOMAIN rs
              BY <6>1, <1>7, <3>2, <5>2, <4>2
            <6>2. CASE r \notin DOMAIN rs
              BY <6>2, <5>2, SlotForDef
            <6> QED BY <6>1, <6>2
          <5> QED BY <1>6, <5>1, <5>2, <5>3
        <4> QED BY <4>1, <4>2
      <3> QED BY <2>2, <3>3, <3>4
    <2> QED BY <2>1, <2>2
  <1>9. \A b \in Agent :
           /\ DOMAIN rangeSlots[b] \subseteq DOMAIN rangeSlots'[b]
           /\ \A x \in DOMAIN rangeSlots[b] : rangeSlots'[b][x] = rangeSlots[b][x]
    BY <1>4, <1>6, <1>7
  <1> QED BY <1>4, <1>5, <1>6, <1>8, <1>9

\* register keeps the invariant: an id that registers again does so with the
\* agent and the range it had before.
LEMMA RegisterStep ==
    ASSUME Consistent, IdsDetermine,
           NEW i \in Instance, NEW a \in Agent, NEW r \in ContextRange \cup {None},
           NEW status \in Status, <<i, a, r>> \in Offer,
           Register(i, a, r, status), serving' \in BOOLEAN
    PROVE  Consistent'
  <1> USE DEF Consistent
  <1> DEFINE rec == [agent |-> a, range |-> r, status |-> status]
  <1>1. rec \in Info /\ rec # None
    BY NoneAssumption DEF Info
  <1>2. /\ instances' \in [Instance -> Info \cup {None}]
        /\ instances'[i] = rec
        /\ \A j \in Instance : j # i => instances'[j] = instances[j]
    BY <1>1 DEF Register, TypeOK
  <1>3. /\ agentInstances' \in [Agent -> SUBSET Instance]
        /\ agentInstances'[a] = agentInstances[a] \cup {i}
        /\ \A b \in Agent : b # a => agentInstances'[b] = agentInstances[b]
    BY DEF Register, TypeOK
  \* What the old record of i said.
  <1>4. instances[i] # None => instances[i].agent = a /\ instances[i].range = r
    <2> SUFFICES ASSUME instances[i] # None
                 PROVE  instances[i].agent = a /\ instances[i].range = r
      OBVIOUS
    <2> DEFINE o == <<i, instances[i].agent, instances[i].range>>
    <2>1. o \in Offer /\ o[1] = i
      BY DEF Recorded
    <2>2. <<i, a, r>>[1] = i
      OBVIOUS
    <2>3. o = <<i, a, r>>
      BY <2>1, <2>2 DEF IdsDetermine
    <2> QED BY <2>3
  <1>5. \A j \in Instance, b \in Agent : j \in agentInstances'[b] <=>
           instances'[j] # None /\ instances'[j].agent = b
    <2> SUFFICES ASSUME NEW j \in Instance, NEW b \in Agent
                 PROVE  j \in agentInstances'[b] <=>
                           instances'[j] # None /\ instances'[j].agent = b
      OBVIOUS
    <2>1. j \in agentInstances[b] <=> instances[j] # None /\ instances[j].agent = b
      BY DEF IndexesExact
    <2>2. CASE j # i
      BY <1>2, <1>3, <2>1, <2>2
    <2>3. CASE j = i
      BY <1>1, <1>2, <1>3, <1>4, <2>1, <2>3
    <2> QED BY <2>2, <2>3
  <1>6. CASE r = None
    <2>1. UNCHANGED <<contextInstances, rangeSlots, slotRanges>>
      BY <1>6 DEF Register
    <2>2. TypeOK'
      BY <1>2, <1>3, <2>1 DEF TypeOK
    <2>3. SlotsInverse' /\ Keyed' /\ SlotsOffered'
      BY <2>1 DEF SlotsInverse, Keyed, SlotsOffered
    <2>4. Recorded'
      BY <1>1, <1>2, <1>6, <2>1 DEF Recorded
    <2>5. IndexesExact'
      <3> SUFFICES ASSUME NEW j \in Instance, NEW b \in Agent,
                          NEW k \in DOMAIN contextInstances'[b]
                   PROVE  j \in contextInstances'[b][k] <=>
                             /\ instances'[j] # None
                             /\ instances'[j].agent = b
                             /\ instances'[j].range # None
                             /\ rangeSlots'[b][instances'[j].range] = k
        BY <1>5 DEF IndexesExact
      <3>1. j \in contextInstances[b][k] <=>
               /\ instances[j] # None
               /\ instances[j].agent = b
               /\ instances[j].range # None
               /\ rangeSlots[b][instances[j].range] = k
        BY <2>1 DEF IndexesExact
      <3>2. CASE j # i
        BY <1>2, <2>1, <3>1, <3>2
      <3>3. CASE j = i
        BY <1>2, <1>4, <1>6, <2>1, <3>1, <3>3
      <3> QED BY <3>2, <3>3
    <2> QED BY <2>2, <2>3, <2>4, <2>5
  <1>7. CASE r \in ContextRange
    <2>1. r # None
      BY <1>7, OfferAssumption
    <2> DEFINE k == SlotFor(a, r)
               held == GetSet(contextInstances[a], k) \cup {i}
    <2>2. /\ rangeSlots' = [rangeSlots EXCEPT ![a] = Put(@, r, k)]
          /\ slotRanges' = [slotRanges EXCEPT ![a] = Put(@, k, r)]
          /\ contextInstances' = [contextInstances EXCEPT ![a] = Put(@, k, held)]
      BY <2>1 DEF Register
    <2>3. /\ k \in Slot
          /\ r \in DOMAIN rangeSlots[a] => k = rangeSlots[a][r]
          /\ r \notin DOMAIN rangeSlots[a] => k \notin DOMAIN slotRanges[a]
      BY <1>7, SlotForDef
    <2> HIDE DEF k
    <2>4. /\ rangeSlots' \in [Agent -> Dict(ContextRange, Slot)]
          /\ slotRanges' \in [Agent -> Dict(Slot, ContextRange)]
          /\ SlotsInverse'
          /\ \A b \in Agent :
                /\ b # a => rangeSlots'[b] = rangeSlots[b]
                /\ b # a => slotRanges'[b] = slotRanges[b]
                /\ DOMAIN rangeSlots[b] \subseteq DOMAIN rangeSlots'[b]
                /\ \A x \in DOMAIN rangeSlots[b] :
                      rangeSlots'[b][x] = rangeSlots[b][x]
          /\ DOMAIN slotRanges'[a] = DOMAIN slotRanges[a] \cup {k}
          /\ \A x \in DOMAIN slotRanges[a] :
                x # k => slotRanges'[a][x] = slotRanges[a][x]
          /\ slotRanges'[a][k] = r
          /\ r \in DOMAIN rangeSlots'[a] /\ rangeSlots'[a][r] = k
      BY <1>7, <2>2, SlotsKept, Zenon DEF k
    <2>5. contextInstances[a] \in Dict(Slot, SUBSET Instance)
      BY DEF TypeOK
    <2>6. held \in SUBSET Instance
      BY RangesFinite DEF GetSet
    <2>7. Put(contextInstances[a], k, held) \in Dict(Slot, SUBSET Instance)
      BY <2>3, <2>5, <2>6, PutDict
    <2>8. TypeOK'
      <3>1. contextInstances' \in [Agent -> Dict(Slot, SUBSET Instance)]
        BY <2>2, <2>7 DEF TypeOK
      <3> QED BY <1>2, <1>3, <2>4, <3>1 DEF TypeOK
    <2>9. /\ \A b \in Agent : b # a => contextInstances'[b] = contextInstances[b]
          /\ contextInstances'[a] = Put(contextInstances[a], k, held)
      BY <2>2 DEF TypeOK
    <2>10. /\ DOMAIN contextInstances'[a] = DOMAIN contextInstances[a] \cup {k}
           /\ contextInstances'[a][k] = held
           /\ \A x \in DOMAIN contextInstances[a] :
                 x # k => contextInstances'[a][x] = contextInstances[a][x]
      BY <2>9 DEF Put
    <2>11. Keyed'
      BY <2>4, <2>9, <2>10 DEF Keyed
    <2>12. Recorded'
      <3> SUFFICES ASSUME NEW j \in Instance, instances'[j] # None
                   PROVE  /\ <<j, instances'[j].agent, instances'[j].range>> \in Offer
                          /\ instances'[j].range # None =>
                                instances'[j].range
                                   \in DOMAIN rangeSlots'[instances'[j].agent]
        BY DEF Recorded
      <3>1. CASE j = i
        BY <1>2, <2>4, <3>1
      <3>2. CASE j # i
        <4>1. instances[j] \in Info /\ instances'[j] = instances[j]
          BY <1>2, <3>2 DEF TypeOK
        <4>2. instances[j].agent \in Agent
          BY <4>1 DEF Info
        <4> QED BY <2>4, <4>1, <4>2 DEF Recorded
      <3> QED BY <3>1, <3>2
    <2>13. IndexesExact'
      <3> SUFFICES ASSUME NEW j \in Instance, NEW b \in Agent,
                          NEW x \in DOMAIN contextInstances'[b]
                   PROVE  j \in contextInstances'[b][x] <=>
                             /\ instances'[j] # None
                             /\ instances'[j].agent = b
                             /\ instances'[j].range # None
                             /\ rangeSlots'[b][instances'[j].range] = x
        BY <1>5 DEF IndexesExact
      <3>1. x \in DOMAIN contextInstances[b] =>
               (j \in contextInstances[b][x] <=>
                  /\ instances[j] # None
                  /\ instances[j].agent = b
                  /\ instances[j].range # None
                  /\ rangeSlots[b][instances[j].range] = x)
        BY DEF IndexesExact
      <3>2. CASE b # a
        <4>1. contextInstances'[b] = contextInstances[b]
              /\ rangeSlots'[b] = rangeSlots[b]
          BY <2>4, <2>9, <3>2
        <4>2. CASE j # i
          BY <1>2, <3>1, <4>1, <4>2
        <4>3. CASE j = i
          BY <1>2, <1>4, <3>1, <3>2, <4>1, <4>3
        <4> QED BY <4>2, <4>3
      <3>3. CASE b = a /\ j # i
        <4>1. instances'[j] = instances[j]
          BY <1>2, <3>3
        <4>2. instances[j] # None /\ instances[j].agent = a /\ instances[j].range # None
                 => /\ instances[j].range \in DOMAIN rangeSlots[a]
                    /\ rangeSlots'[a][instances[j].range]
                          = rangeSlots[a][instances[j].range]
          BY <2>4 DEF Recorded
        <4>3. CASE x # k
          BY <2>10, <3>1, <3>3, <4>1, <4>2, <4>3
        <4>4. CASE x = k /\ k \in DOMAIN contextInstances[a]
          <5>1. held = contextInstances[a][k] \cup {i}
            BY <4>4 DEF GetSet
          <5> QED BY <2>10, <3>1, <3>3, <4>1, <4>2, <4>4, <5>1
        <4>5. CASE x = k /\ k \notin DOMAIN contextInstances[a]
          <5>1. held = {i}
            BY <4>5 DEF GetSet
          <5>2. k \notin DOMAIN slotRanges[a]
            BY <4>5 DEF Keyed
          <5>3. \A y \in DOMAIN rangeSlots[a] : rangeSlots[a][y] # k
            BY <5>2 DEF SlotsInverse
          <5> QED BY <2>10, <3>3, <4>1, <4>2, <4>5, <5>1, <5>3
        <4> QED BY <4>3, <4>4, <4>5
      <3>4. CASE b = a /\ j = i
        <4>1. /\ instances'[i] # None /\ instances'[i].agent = a
              /\ instances'[i].range = r
          BY <1>1, <1>2
        <4>2. CASE x = k
          BY <2>1, <2>4, <2>10, <3>4, <4>1, <4>2
        <4>3. CASE x # k
          <5>1. i \notin contextInstances[a][x]
            <6> SUFFICES ASSUME i \in contextInstances[a][x] PROVE FALSE
              OBVIOUS
            <6>1. instances[i] # None /\ rangeSlots[a][r] = x
              BY <1>4, <2>10, <3>1, <3>4, <4>3
            <6>2. r \in DOMAIN rangeSlots[a]
              BY <1>4, <2>1, <6>1 DEF Recorded
            <6> QED BY <2>3, <4>3, <6>1, <6>2
          <5> QED BY <2>4, <2>10, <3>4, <4>1, <4>3, <5>1
        <4> QED BY <4>2, <4>3
      <3> QED BY <3>2, <3>3, <3>4
    <2>14. SlotsOffered'
      <3> SUFFICES ASSUME NEW b \in Agent, NEW x \in DOMAIN slotRanges'[b]
                   PROVE  /\ slotRanges'[b][x] \in DOMAIN rangeSlots'[b]
                          /\ rangeSlots'[b][slotRanges'[b][x]] = x
                          /\ \E j \in Instance : <<j, b, slotRanges'[b][x]>> \in Offer
        BY DEF SlotsOffered
      <3>1. CASE b # a
        <4>1. rangeSlots'[b] = rangeSlots[b] /\ slotRanges'[b] = slotRanges[b]
          BY <2>4, <3>1
        <4> QED BY <4>1 DEF SlotsOffered
      <3>2. CASE b = a /\ x = k
        BY <2>4, <3>2
      <3>3. CASE b = a /\ x # k
        <4>1. x \in DOMAIN slotRanges[a] /\ slotRanges'[a][x] = slotRanges[a][x]
          BY <2>4, <3>3
        <4> QED BY <2>4, <3>3, <4>1 DEF SlotsOffered
      <3> QED BY <3>1, <3>2, <3>3
    <2> QED BY <2>4, <2>8, <2>11, <2>12, <2>13, <2>14
  <1> QED BY <1>6, <1>7

\* remove takes the id out of the one slot it is indexed under.
LEMMA RemoveStep ==
    ASSUME Consistent, NEW i \in Instance, RemoveInstance(i)
    PROVE  Consistent'
  <1> USE DEF Consistent
  <1> DEFINE a == instances[i].agent
             r == instances[i].range
             k == rangeSlots[a][r]
  <1>1. instances[i] \in Info /\ instances[i] # None
    BY DEF RemoveInstance, TypeOK
  <1>2. a \in Agent /\ r \in ContextRange \cup {None}
    BY <1>1 DEF Info
  <1>3. /\ instances' = [instances EXCEPT ![i] = None]
        /\ agentInstances' = [agentInstances EXCEPT ![a] = @ \ {i}]
        /\ UNCHANGED <<rangeSlots, slotRanges, serving>>
    BY DEF RemoveInstance
  <1>4. /\ instances' \in [Instance -> Info \cup {None}]
        /\ instances'[i] = None
        /\ \A j \in Instance : j # i => instances'[j] = instances[j]
        /\ agentInstances' \in [Agent -> SUBSET Instance]
        /\ agentInstances'[a] = agentInstances[a] \ {i}
        /\ \A b \in Agent : b # a => agentInstances'[b] = agentInstances[b]
    BY <1>2, <1>3 DEF TypeOK
  <1> HIDE DEF a, r
  \* Only the slot of i changes, and only by i.
  <1>5. /\ contextInstances' \in [Agent -> Dict(Slot, SUBSET Instance)]
        /\ \A b \in Agent :
              /\ DOMAIN contextInstances'[b] = DOMAIN contextInstances[b]
              /\ \A x \in DOMAIN contextInstances[b] :
                    contextInstances'[b][x] =
                       IF r # None /\ b = a /\ x = k THEN contextInstances[b][x] \ {i}
                       ELSE contextInstances[b][x]
    <2>1. CASE r = None
      <3>1. contextInstances' = contextInstances
        BY <2>1 DEF RemoveInstance, a, r
      <3> QED BY <2>1, <3>1 DEF TypeOK
    <2>2. CASE r # None
      <3>1. r \in DOMAIN rangeSlots[a]
        BY <1>1, <2>2 DEF Recorded, a, r
      <3>2. k \in DOMAIN contextInstances[a]
        BY <1>2, <3>1 DEF SlotsInverse, Keyed
      <3> DEFINE ci == contextInstances[a]
                 new == [ci EXCEPT ![k] = @ \ {i}]
      <3>3. contextInstances' = [contextInstances EXCEPT ![a] = new]
        BY <2>2, <3>1, <3>2 DEF RemoveInstance, a, r
      <3>4. ci \in [DOMAIN ci -> SUBSET Instance] /\ DOMAIN ci \subseteq Slot
        BY <1>2, RangesFinite
      <3>5. /\ new \in [DOMAIN ci -> SUBSET Instance]
            /\ DOMAIN new = DOMAIN ci
            /\ new[k] = ci[k] \ {i}
            /\ \A x \in DOMAIN ci : x # k => new[x] = ci[x]
        BY <3>2, <3>4
      <3> HIDE DEF new
      <3>6. new \in Dict(Slot, SUBSET Instance)
        BY <3>4, <3>5, DictDef
      <3>7. /\ contextInstances'[a] = new
            /\ \A b \in Agent : b # a => contextInstances'[b] = contextInstances[b]
            /\ contextInstances' \in [Agent -> Dict(Slot, SUBSET Instance)]
        BY <1>2, <3>3, <3>6 DEF TypeOK
      <3> QED BY <2>2, <3>5, <3>7
    <2> QED BY <2>1, <2>2
  <1>6. TypeOK'
    BY <1>3, <1>4, <1>5 DEF TypeOK
  <1>7. SlotsInverse' /\ Keyed' /\ SlotsOffered'
    BY <1>3, <1>5 DEF SlotsInverse, Keyed, SlotsOffered
  <1>8. Recorded'
    BY <1>3, <1>4 DEF Recorded
  <1>9. IndexesExact'
    <2> SUFFICES ASSUME NEW j \in Instance, NEW b \in Agent
                 PROVE  /\ j \in agentInstances'[b] <=>
                              instances'[j] # None /\ instances'[j].agent = b
                        /\ \A x \in DOMAIN contextInstances'[b] :
                              j \in contextInstances'[b][x] <=>
                                 /\ instances'[j] # None
                                 /\ instances'[j].agent = b
                                 /\ instances'[j].range # None
                                 /\ rangeSlots'[b][instances'[j].range] = x
      BY DEF IndexesExact
    <2>1. /\ j \in agentInstances[b] <=> instances[j] # None /\ instances[j].agent = b
          /\ \A x \in DOMAIN contextInstances[b] :
                j \in contextInstances[b][x] <=>
                   /\ instances[j] # None
                   /\ instances[j].agent = b
                   /\ instances[j].range # None
                   /\ rangeSlots[b][instances[j].range] = x
      BY DEF IndexesExact
    <2>2. CASE j # i
      <3>1. j \in agentInstances'[b] <=> j \in agentInstances[b]
        BY <1>2, <1>4, <2>2
      <3>2. \A x \in DOMAIN contextInstances[b] :
               j \in contextInstances'[b][x] <=> j \in contextInstances[b][x]
        BY <1>5, <2>2
      <3>3. instances'[j] = instances[j]
        BY <1>4, <2>2
      <3> QED BY <1>3, <1>5, <2>1, <3>1, <3>2, <3>3
    <2>3. CASE j = i
      <3>1. j \in agentInstances'[b] <=>
               instances'[j] # None /\ instances'[j].agent = b
        BY <1>4, <2>1, <2>3 DEF a
      <3>2. \A x \in DOMAIN contextInstances'[b] : j \notin contextInstances'[b][x]
        <4> SUFFICES ASSUME NEW x \in DOMAIN contextInstances[b],
                            i \in contextInstances'[b][x]
                     PROVE  FALSE
          BY <1>5, <2>3
        <4>1. i \in contextInstances[b][x]
          BY <1>5
        <4>2. a = b /\ r # None /\ k = x
          BY <2>1, <2>3, <4>1 DEF a, r
        <4> QED BY <1>5, <4>2
      <3> QED BY <1>4, <2>3, <3>1, <3>2
    <2> QED BY <2>2, <2>3
  <1> QED BY <1>6, <1>7, <1>8, <1>9

\* mark_unavailable changes no agent and no range.
LEMMA MarkStep ==
    ASSUME Consistent, NEW i \in Instance, MarkUnavailable(i)
    PROVE  Consistent'
  <1> USE DEF Consistent
  <1> DEFINE rec == [instances[i] EXCEPT !.status = "unavailable"]
  <1>1. instances[i] \in Info /\ instances[i] # None
    BY DEF MarkUnavailable, TypeOK
  <1>2. /\ rec \in Info
        /\ rec.agent = instances[i].agent /\ rec.range = instances[i].range
    BY <1>1 DEF Info, Status
  <1>3. rec # None
    BY <1>2, NoneAssumption
  <1>4. instances' = [instances EXCEPT ![i] = rec] /\ UNCHANGED <<indexes, serving>>
    BY DEF MarkUnavailable
  <1> HIDE DEF rec
  <1>5. /\ instances' \in [Instance -> Info \cup {None}]
        /\ \A j \in Instance :
              /\ instances'[j] # None <=> instances[j] # None
              /\ instances[j] # None =>
                    /\ instances'[j].agent = instances[j].agent
                    /\ instances'[j].range = instances[j].range
    BY <1>1, <1>2, <1>3, <1>4 DEF TypeOK
  <1>6. UNCHANGED <<agentInstances, contextInstances, rangeSlots, slotRanges, serving>>
    BY <1>4 DEF indexes
  <1>7. TypeOK' /\ SlotsInverse' /\ Keyed' /\ SlotsOffered'
    BY <1>5, <1>6 DEF TypeOK, SlotsInverse, Keyed, SlotsOffered
  <1>8. Recorded'
    <2> SUFFICES ASSUME NEW j \in Instance, instances'[j] # None
                 PROVE  /\ <<j, instances'[j].agent, instances'[j].range>> \in Offer
                        /\ instances'[j].range # None =>
                              instances'[j].range
                                 \in DOMAIN rangeSlots'[instances'[j].agent]
      BY DEF Recorded
    <2>1. /\ instances[j] # None
          /\ instances'[j].agent = instances[j].agent
          /\ instances'[j].range = instances[j].range
      BY <1>5
    <2> QED BY <1>6, <2>1 DEF Recorded
  <1>9. IndexesExact'
    BY <1>5, <1>6 DEF IndexesExact
  <1> QED BY <1>7, <1>8, <1>9

\* The empty registry is consistent.
LEMMA RegistryInit == Init => Consistent
  <1> SUFFICES ASSUME Init PROVE Consistent
    OBVIOUS
  <1>1. DOMAIN Empty = {}
    BY DEF Empty
  <1>2. \A K, V : Empty \in Dict(K, V)
    <2> TAKE K, V
    <2>1. Empty \in [DOMAIN Empty -> V] /\ DOMAIN Empty \subseteq K
      BY DEF Empty
    <2> QED BY <2>1, DictDef
  <1>3. TypeOK
    BY <1>2 DEF Init, TypeOK
  <1>4. SlotsInverse
    <2>1. Cardinality(DOMAIN Empty) = 0 /\ 0 .. 0 - 1 = {}
      BY <1>1, FS_EmptySet
    <2>2. \A a \in Agent : rangeSlots[a] = Empty /\ slotRanges[a] = Empty
      BY DEF Init
    <2> QED BY <1>1, <2>1, <2>2 DEF SlotsInverse
  <1>5. IndexesExact /\ Recorded /\ Keyed
    BY <1>1 DEF Init, IndexesExact, Recorded, Keyed
  <1>6. SlotsOffered
    BY <1>1 DEF Init, SlotsOffered
  <1> QED BY <1>3, <1>4, <1>5, <1>6 DEF Consistent

\* A step that leaves the records and indexes alone keeps them consistent.
LEMMA QuietStep ==
    ASSUME Consistent, serving' \in BOOLEAN,
           UNCHANGED <<instances, agentInstances, contextInstances, rangeSlots,
                       slotRanges>>
    PROVE  Consistent'
  <1>1. TypeOK'
    BY DEF Consistent, TypeOK
  <1>2. SlotsInverse' /\ Keyed' /\ SlotsOffered'
    BY DEF Consistent, SlotsInverse, Keyed, SlotsOffered
  <1>3. IndexesExact'
    BY DEF Consistent, IndexesExact
  <1>4. Recorded'
    BY DEF Consistent, Recorded
  <1> QED BY <1>1, <1>2, <1>3, <1>4 DEF Consistent

\* Every operation of the registry keeps it consistent.
LEMMA RegistryStep ==
    ASSUME IdsDetermine, Consistent, [Next]_vars
    PROVE  Consistent'
  <1>1. CASE Next
    <2>1. ASSUME NEW i \in Instance, NEW a \in Agent, NEW r \in ContextRange,
                 LoadStub(i, a, r)
          PROVE  Consistent'
      <3>1. /\ <<i, a, r>> \in Offer
            /\ Register(i, a, r, "starting")
            /\ serving' \in BOOLEAN
            /\ "starting" \in Status
        BY <2>1 DEF LoadStub, Status, Consistent, TypeOK
      <3> QED BY <3>1, RegisterStep
    <2>2. ASSUME NEW i \in Instance, NEW a \in Agent,
                 NEW r \in ContextRange \cup {None}, RegisterRequest(i, a, r)
          PROVE  Consistent'
      <3>1. /\ <<i, a, r>> \in Offer
            /\ Register(i, a, r, "ready")
            /\ serving' \in BOOLEAN
            /\ "ready" \in Status
        BY <2>2 DEF RegisterRequest, Status, Consistent, TypeOK
      <3> QED BY <3>1, RegisterStep
    <2>3. CASE StartServer
      <3>1. serving' = TRUE /\ UNCHANGED <<instances, indexes>>
        BY <2>3 DEF StartServer
      <3> QED BY <3>1, QuietStep DEF indexes
    <2> QED BY <1>1, <2>1, <2>2, <2>3, RemoveStep, MarkStep DEF Next
  <1>2. CASE UNCHANGED vars
    <2>1. serving' \in BOOLEAN
      BY <1>2 DEF vars, Consistent, TypeOK
    <2> QED BY <1>2, <2>1, QuietStep DEF vars
  <1> QED BY <1>1, <1>2

\* The registry is consistent after any sequence of stubs, registrations,
\* failures, removals and re-registrations, if an id determines the agent and
\* the range it registers with.
THEOREM RegistryConsistent ==
    ASSUME IdsDetermine
    PROVE  Spec => []Consistent
  <1>1. Init => Consistent
    BY RegistryInit
  <1>2. Consistent /\ [Next]_vars => Consistent'
    BY RegistryStep
  <1> QED BY <1>1, <1>2, PTL DEF Spec

\* The records and the indexes of InstanceManager keep their types; a slot
\* number never exceeds the number of ranges.
THEOREM RegistryTyped ==
    ASSUME IdsDetermine
    PROVE  Spec => []TypeOK
  <1>1. Consistent => TypeOK
    BY DEF Consistent
  <1> QED BY <1>1, RegistryConsistent, PTL

\* The maps of _get_or_create_slot stay inverse to each other and without gaps.
THEOREM SlotsStayInverse ==
    ASSUME IdsDetermine
    PROVE  Spec => []SlotsInverse
  <1>1. Consistent => SlotsInverse
    BY DEF Consistent
  <1> QED BY <1>1, RegistryConsistent, PTL

\* The indexes by agent and by slot say what the records say.
THEOREM IndexesStayExact ==
    ASSUME IdsDetermine
    PROVE  Spec => []IndexesExact
  <1>1. Consistent => IndexesExact
    BY DEF Consistent
  <1> QED BY <1>1, RegistryConsistent, PTL
-----------------------------------------------------------------------------
(* Lookups *)

\* The slot found for a length covers it, and leads to instances that cover it;
\* if there is none, no record of the agent covers the length.  The fallback
\* over the instances' own ranges finds nothing that the slots did not.
LEMMA ContextSlotDef ==
    ASSUME Consistent, NEW a \in Agent, NEW len
    PROVE  LET k == find_context_slot(a, len) IN
           \/ /\ k \in DOMAIN slotRanges[a]
              /\ Covers(slotRanges[a][k], len)
              /\ \A x \in DOMAIN slotRanges[a] : Covers(slotRanges[a][x], len) => k <= x
           \/ /\ k = None
              /\ \A x \in DOMAIN slotRanges[a] : ~ Covers(slotRanges[a][x], len)
  <1> USE DEF Consistent
  <1> DEFINE k == find_context_slot(a, len)
             covering == {x \in DOMAIN slotRanges[a] : Covers(slotRanges[a][x], len)}
             fallback == {x \in DOMAIN contextInstances[a] :
                             \E i \in contextInstances[a][x] :
                                /\ instances[i] # None
                                /\ instances[i].range # None
                                /\ Covers(instances[i].range, len)}
  <1>1. k = IF covering # {} THEN Min(covering)
            ELSE IF fallback # {} THEN Min(fallback) ELSE None
    BY DEF find_context_slot
  <1>2. CASE covering # {}
    <2>1. covering \subseteq Nat
      BY RangesFinite DEF Slot
    <2>2. Min(covering) \in covering /\ \A y \in covering : Min(covering) <= y
      BY <1>2, <2>1, MinNat
    <2> QED BY <1>1, <1>2, <2>2
  <1>3. CASE covering = {}
    <2>1. fallback = {}
      <3> SUFFICES ASSUME NEW x \in DOMAIN contextInstances[a],
                          NEW i \in contextInstances[a][x],
                          instances[i] # None, instances[i].range # None,
                          Covers(instances[i].range, len)
                   PROVE  FALSE
        OBVIOUS
      <3>1. i \in Instance
        BY RangesFinite
      <3>2. instances[i].agent = a
        BY <3>1 DEF IndexesExact
      <3>3. instances[i].range \in DOMAIN rangeSlots[a]
        BY <3>1, <3>2 DEF Recorded
      <3> DEFINE y == rangeSlots[a][instances[i].range]
      <3>4. y \in DOMAIN slotRanges[a] /\ slotRanges[a][y] = instances[i].range
        BY <3>3 DEF SlotsInverse
      <3> QED BY <1>3, <3>4
    <2> QED BY <1>1, <1>3, <2>1
  <1> QED BY <1>2, <1>3

\* The records behind an index entry.
LEMMA SlotRecords ==
    ASSUME Consistent, NEW a \in Agent, NEW k \in DOMAIN slotRanges[a],
           NEW i \in GetSet(contextInstances[a], k)
    PROVE  /\ i \in Instance /\ instances[i] # None /\ instances[i].agent = a
           /\ instances[i].range # None
           /\ instances[i].range = slotRanges[a][k]
  <1> USE DEF Consistent
  <1>1. k \in DOMAIN contextInstances[a] /\ i \in contextInstances[a][k]
    BY DEF GetSet, Keyed
  <1>2. i \in Instance
    BY <1>1, RangesFinite
  <1>3. /\ instances[i] # None /\ instances[i].agent = a
        /\ instances[i].range # None
        /\ rangeSlots[a][instances[i].range] = k
    BY <1>1, <1>2 DEF IndexesExact
  <1>4. instances[i].range \in DOMAIN rangeSlots[a]
    BY <1>2, <1>3 DEF Recorded
  <1>5. slotRanges[a][k] = instances[i].range
    BY <1>3, <1>4 DEF SlotsInverse
  <1> QED BY <1>2, <1>3, <1>5

\* The instances found for a length cover it.
LEMMA ContextCovers ==
    ASSUME Consistent, NEW a \in Agent, NEW len,
           NEW i \in get_instances_for_context(a, find_context_slot(a, len))
    PROVE  /\ i \in Instance /\ instances[i] # None /\ instances[i].agent = a
           /\ instances[i].range # None /\ Covers(instances[i].range, len)
  <1> DEFINE k == find_context_slot(a, len)
  <1>1. i \in GetSet(contextInstances[a], k)
    BY DEF get_instances_for_context
  <1>2. k \in DOMAIN contextInstances[a]
    BY <1>1 DEF GetSet
  <1>3. DOMAIN contextInstances[a] \subseteq Nat /\ DOMAIN slotRanges[a] \subseteq Nat
    BY RangesFinite DEF Consistent, Slot
  <1>4. k # None
    BY <1>2, <1>3, NoneAssumption
  <1> HIDE DEF k
  <1>5. k \in DOMAIN slotRanges[a] /\ Covers(slotRanges[a][k], len)
    BY <1>4, ContextSlotDef DEF k
  <1> QED BY <1>1, <1>5, SlotRecords

\* If no slot is found no instance of the agent covers the length.
LEMMA NoContextSlot ==
    ASSUME Consistent, NEW a \in Agent, NEW len,
           find_context_slot(a, len) = None,
           NEW i \in get_instances_for_agent(a), instances[i].range # None
    PROVE  ~ Covers(instances[i].range, len)
  <1> USE DEF Consistent
  <1>1. i \in Instance /\ instances[i] # None /\ instances[i].agent = a
    BY DEF get_instances_for_agent, TypeOK, IndexesExact
  <1>2. instances[i].range \in DOMAIN rangeSlots[a]
    BY <1>1 DEF Recorded
  <1> DEFINE x == rangeSlots[a][instances[i].range]
  <1>3. x \in DOMAIN slotRanges[a] /\ slotRanges[a][x] = instances[i].range
    BY <1>2 DEF SlotsInverse
  <1>4. DOMAIN slotRanges[a] \subseteq Nat
    BY RangesFinite DEF Slot
  <1>5. ~ Covers(slotRanges[a][x], len)
    <2>1. None \notin DOMAIN slotRanges[a]
      BY <1>4, NoneAssumption
    <2> HIDE DEF x
    <2> QED BY <1>3, <2>1, ContextSlotDef
  <1> QED BY <1>3, <1>5

\* find_alternative answers ready instances of the agent, and some if it can.
LEMMA AlternativeDef ==
    ASSUME Consistent, NEW a \in Agent, NEW i \in Instance,
           NEW k \in DOMAIN contextInstances[a]
    PROVE  LET found == find_alternative(a, k, i)
               others == {j \in Instance \ {i} : Ready(j) /\ instances[j].agent = a}
           IN  found \subseteq others /\ (found = {} <=> others = {})
  <1> USE DEF Consistent
  <1> DEFINE found == find_alternative(a, k, i)
             others == {j \in Instance \ {i} : Ready(j) /\ instances[j].agent = a}
             same == get_instances_for_context(a, k) \ {i}
  <1>1. get_instances_for_agent(a) \ {i} = others
    BY DEF get_instances_for_agent, TypeOK, IndexesExact, Ready
  <1>2. same \subseteq others
    <2>1. k \in DOMAIN slotRanges[a]
      BY DEF Keyed
    <2>2. \A j \in get_instances_for_context(a, k) :
             j \in GetSet(contextInstances[a], k) /\ Ready(j)
      BY DEF get_instances_for_context
    <2> QED BY <2>1, <2>2, SlotRecords
  <1>3. found = IF same # {} THEN same ELSE others
    BY <1>1 DEF find_alternative
  <1> QED BY <1>2, <1>3

\* What find_context_slot and find_alternative answer agrees with the records at
\* all times: route and maybe_migrate_request can rely on it.
THEOREM LookupsSound ==
    ASSUME IdsDetermine
    PROVE  Spec => []LookupSound
  <1>1. Consistent => LookupSound
    BY ContextCovers, NoContextSlot, AlternativeDef DEF LookupSound
  <1> QED BY <1>1, RegistryConsistent, PTL
-----------------------------------------------------------------------------
(***************************************************************************)
(* Routing and migration.                                                  *)
(***************************************************************************)
(* Types *)

Answer == CacheState \cup {None}
Route == [stage : {"idle", "fetch", "done"}, infos : SUBSET Instance,
          results : Dict(Instance, Answer), choice : Instance \cup {None},
          hot : SUBSET Instance]
Migration ==
    [stage : {"idle", "fetch", "post", "applied", "migrated", "none"},
     candidates : SUBSET Instance, missing : SUBSET Instance,
     results : Dict(Instance, Answer), target : Instance \cup {None}]

RoutingTypeOK ==
    /\ world \in Worlds
    /\ cache \in [Instance -> CacheState]
    /\ memo \in [Instance -> Answer]
    /\ routing \in [RouteCall -> Route]
    /\ migrating \in [MigrateCall -> Migration]

\* Whole blocks end within the sequence.
LEMMA BlockEnds ==
    ASSUME NEW n \in Nat, NEW k \in 1 .. n \div BlockSize
    PROVE  k * BlockSize \in Nat /\ k * BlockSize <= n
  <1>1. BlockSize \in Nat /\ BlockSize > 0
    BY RoutingAssumption
  <1>2. \A b \in Nat : b > 0 => b * (n \div b) <= n /\ n \div b \in Nat
    OBVIOUS
  <1> DEFINE d == n \div BlockSize
  <1>3. d \in Nat /\ BlockSize * d <= n /\ k \in Nat /\ k <= d
    BY <1>1, <1>2
  <1> HIDE DEF d
  <1>4. \A b, x, y \in Nat : x <= y => x * b <= b * y /\ x * b \in Nat
    OBVIOUS
  <1> QED BY <1>1, <1>3, <1>4

\* A block hash is a prefix of the tokens.
LEMMA BlockHashesType ==
    ASSUME NEW tokens \in Seq(Nat), NEW k \in DOMAIN BlockHashes(tokens)
    PROVE  BlockHashes(tokens)[k] \in Seq(Nat)
  <1>1. k \in 1 .. Len(tokens) \div BlockSize
        /\ BlockHashes(tokens)[k] = SubSeq(tokens, 1, k * BlockSize)
    BY DEF BlockHashes
  <1>2. k * BlockSize \in Nat /\ k * BlockSize <= Len(tokens)
    BY <1>1, BlockEnds
  <1>3. \A n \in Nat : n <= Len(tokens) => SubSeq(tokens, 1, n) \in Seq(Nat)
    OBVIOUS
  <1> QED BY <1>1, <1>2, <1>3

\* What route returns is one of the instances that answered.
LEMMA ChoiceAnswered ==
    ASSUME NEW q, NEW results, NEW choice \in RouteChoices(q, results)
    PROVE  /\ choice \in Answered(results) \cup {None}
           /\ Exact(q, results) # {} => choice \in Exact(q, results)
  <1>1. \A S, states : Best(S, states) \subseteq S
    BY DEF Best
  <1>2. /\ Exact(q, results) \subseteq Answered(results)
        /\ Tied(q, results) \subseteq Answered(results)
        /\ InContext(q, results) \subseteq Answered(results)
    BY DEF Exact, Tied, Scored, InContext
  <1>3. CASE Exact(q, results) # {}
    <2>1. choice \in Best(Exact(q, results), results)
      BY <1>3 DEF RouteChoices
    <2> QED BY <1>1, <1>2, <2>1
  <1>4. CASE Exact(q, results) = {}
    <2>1. \/ choice = None
          \/ choice \in Tied(q, results)
          \/ choice \in Best(InContext(q, results), results)
          \/ choice \in Best(Tied(q, results), results)
      BY <1>4 DEF RouteChoices
    <2> QED BY <1>1, <1>2, <1>4, <2>1
  <1> QED BY <1>3, <1>4

\* The instances that answered a fetch, and their answers.
LEMMA AnsweredType ==
    ASSUME NEW results \in Dict(Instance, Answer)
    PROVE  /\ Answered(results) \subseteq Instance
           /\ \A i \in Answered(results) : results[i] \in CacheState
  <1>1. DOMAIN results \subseteq Instance /\ results \in [DOMAIN results -> Answer]
    BY DictDef
  <1> QED BY <1>1 DEF Answered, Answer

\* The memo of cache states keeps its type when answers are added.
LEMMA RememberType ==
    ASSUME RoutingTypeOK, NEW results \in Dict(Instance, Answer)
    PROVE  Remember(results) \in [Instance -> Answer]
  BY AnsweredType DEF Remember, RoutingTypeOK, Answer

\* The empty dictionary is one over any keys.
LEMMA EmptyDict ==
    ASSUME NEW K, NEW V
    PROVE  Empty \in Dict(K, V)
  <1>1. Empty \in [DOMAIN Empty -> V] /\ DOMAIN Empty \subseteq K
    BY DEF Empty
  <1> QED BY <1>1, DictDef

\* The types of the calls that have not begun.
LEMMA IdleTypes == IdleRoute \in Route /\ IdleMigration \in Migration
  <1>1. Empty \in Dict(Instance, Answer)
    BY EmptyDict
  <1> QED BY <1>1 DEF IdleRoute, IdleMigration, Route, Migration

\* What a fetch may return.
LEMMA AnswersType ==
    ASSUME RoutingTypeOK, NEW i \in Instance
    PROVE  Answers(i) \subseteq Answer
  BY DEF RoutingTypeOK, Answers, Answer
-----------------------------------------------------------------------------
(* The steps of route *)

\* What a step of route does to the call, and that it does nothing else.
LEMMA RouteBeginType ==
    ASSUME RoutingTypeOK, TypeOK, NEW q \in RouteCall, RouteBegin(q)
    PROVE  LET infos == get_instances_for_agent(AgentId)
               new == [routing[q] EXCEPT
                         !.stage = IF infos = {} THEN "done" ELSE "fetch",
                         !.infos = infos,
                         !.hot = {i \in infos : KeyOf[q] \in cache[i].entries}]
           IN  /\ routing' = [routing EXCEPT ![q] = new]
               /\ new \in Route
               /\ infos \subseteq Instance
               /\ routing[q].stage = "idle"
               /\ UNCHANGED <<vars, cache, memo, migrating>>
  <1> DEFINE infos == get_instances_for_agent(AgentId)
             hot == {i \in infos : KeyOf[q] \in cache[i].entries}
  <1>1. infos \subseteq Instance
    BY RoutingAssumption DEF get_instances_for_agent, TypeOK
  <1>2. routing[q] \in Route
    BY DEF RoutingTypeOK
  <1>3. [routing[q] EXCEPT !.stage = IF infos = {} THEN "done" ELSE "fetch",
                           !.infos = infos, !.hot = hot] \in Route
    BY <1>1, <1>2 DEF Route
  <1> QED BY <1>1, <1>3 DEF RouteBegin

\* An answer to a route adds one result to it.
LEMMA RouteFetchType ==
    ASSUME RoutingTypeOK, NEW q \in RouteCall, NEW i \in Instance, RouteFetch(q, i)
    PROVE  \E answer \in Answers(i) :
              LET new == [routing[q] EXCEPT !.results = Put(routing[q].results, i, answer)]
              IN  /\ routing' = [routing EXCEPT ![q] = new]
                  /\ new \in Route
                  /\ routing[q].stage = "fetch"
                  /\ UNCHANGED <<vars, cache, memo, migrating>>
  <1>1. PICK answer \in Answers(i) :
           routing' = [routing EXCEPT ![q].results = Put(@, i, answer)]
    BY DEF RouteFetch
  <1>2. routing[q] \in Route
    BY DEF RoutingTypeOK
  <1>3. Put(routing[q].results, i, answer) \in Dict(Instance, Answer)
    <2>1. answer \in Answer /\ routing[q].results \in Dict(Instance, Answer)
      BY <1>2, AnswersType DEF Route
    <2> QED BY <2>1, PutDict
  <1>4. [routing[q] EXCEPT !.results = Put(routing[q].results, i, answer)] \in Route
    BY <1>2, <1>3 DEF Route
  <1> QED BY <1>1, <1>4 DEF RouteFetch

\* A route ends with one of its choices.
LEMMA RouteEndType ==
    ASSUME RoutingTypeOK, NEW q \in RouteCall, RouteEnd(q)
    PROVE  \E choice \in RouteChoices(q, routing[q].results), new \in Route :
              /\ routing' = [routing EXCEPT ![q] = new]
              /\ new.stage = "done" /\ new.choice = choice /\ new.hot = routing[q].hot
              /\ routing[q].stage = "fetch"
              /\ DOMAIN routing[q].results = routing[q].infos
              /\ memo' \in [Instance -> Answer]
              /\ UNCHANGED <<vars, cache, migrating>>
  <1>1. PICK choice \in RouteChoices(q, routing[q].results) :
           routing' = [routing EXCEPT ![q] =
             [IdleRoute EXCEPT !.stage = "done", !.choice = choice,
                               !.hot = routing[q].hot]]
    BY DEF RouteEnd
  <1> DEFINE new == [IdleRoute EXCEPT !.stage = "done", !.choice = choice,
                                      !.hot = routing[q].hot]
  <1>2. routing[q] \in Route
    BY DEF RoutingTypeOK
  <1>3. routing[q].results \in Dict(Instance, Answer) /\ routing[q].hot \in SUBSET Instance
    BY <1>2 DEF Route
  <1>4. choice \in Instance \cup {None}
    BY <1>3, ChoiceAnswered, AnsweredType
  <1>5. /\ new \in Route
        /\ new.stage = "done" /\ new.choice = choice /\ new.hot = routing[q].hot
    BY <1>3, <1>4, IdleTypes DEF Route
  <1>6. memo' \in [Instance -> Answer]
    BY <1>3, RememberType DEF RouteEnd
  <1>7. /\ routing[q].stage = "fetch"
        /\ DOMAIN routing[q].results = routing[q].infos
        /\ UNCHANGED <<vars, cache, migrating>>
    BY DEF RouteEnd
  <1> HIDE DEF new
  <1> QED BY <1>1, <1>5, <1>6, <1>7 DEF new
-----------------------------------------------------------------------------
(* The steps of maybe_migrate_request *)

\* By the launcher's id alone: the instance is another one than the source and
\* its range covers the request, and the request outgrew its source.
Fits(i, m) ==
    /\ i \in Instance /\ i # Source[m]
    /\ \E o \in Offer : o[1] = i /\ o[3] # None /\ Covers(o[3], TotalLength[m])
Large(m) ==
    \E o \in Offer : o[1] = Source[m] /\ o[3] # None /\ TotalLength[m] >= o[3].hi

\* What a call has found out stays true whatever the registry does meanwhile.
GrownCall(m, call) ==
    /\ call.stage = "fetch" => Large(m) /\ \A i \in call.candidates : Fits(i, m)
    /\ call.stage \in {"post", "applied", "migrated"} =>
          Large(m) /\ Fits(call.target, m)
Grown == \A m \in MigrateCall : GrownCall(m, migrating[m])

\* The candidates of a migration cover the length of its request.
LEMMA CandidatesFit ==
    ASSUME Consistent, NEW m \in MigrateCall, NEW i \in MigrationCandidates(m)
    PROVE  Fits(i, m)
  <1>1. /\ i \in get_instances_for_context(AgentId,
                    find_context_slot(AgentId, TotalLength[m]))
        /\ i # Source[m]
    BY DEF MigrationCandidates
  <1>2. AgentId \in Agent
    BY RoutingAssumption
  <1>3. /\ i \in Instance /\ instances[i] # None /\ instances[i].range # None
        /\ Covers(instances[i].range, TotalLength[m])
    BY <1>1, <1>2, ContextCovers
  <1> DEFINE o == <<i, instances[i].agent, instances[i].range>>
  <1>4. o \in Offer
    BY <1>3 DEF Consistent, Recorded
  <1>5. o[1] = i /\ o[3] = instances[i].range
    OBVIOUS
  <1> HIDE DEF o
  <1> QED BY <1>1, <1>3, <1>4, <1>5 DEF Fits

\* A request that is to migrate is longer than the range of its source.
LEMMA OutgrownLarge ==
    ASSUME Consistent, NEW m \in MigrateCall, Outgrown(m)
    PROVE  Large(m)
  <1> DEFINE i == Source[m]
             o == <<i, instances[i].agent, instances[i].range>>
  <1>1. /\ i \in Instance /\ instances[i] # None /\ instances[i].range # None
        /\ TotalLength[m] >= instances[i].range.hi
    BY RoutingAssumption DEF Outgrown
  <1>2. o \in Offer
    BY <1>1 DEF Consistent, Recorded
  <1>3. o[1] = i /\ o[3] = instances[i].range
    OBVIOUS
  <1> HIDE DEF o
  <1> QED BY <1>1, <1>2, <1>3 DEF Large

\* The choice of the target: a candidate, unless none of their states is known.
LEMMA PostDef ==
    ASSUME RoutingTypeOK, NEW m \in MigrateCall, Large(m),
           NEW candidates, \A i \in candidates : Fits(i, m),
           NEW results \in Dict(Instance, Answer),
           Post(m, candidates, results)
    PROVE  \E new \in Migration :
              /\ migrating' = [migrating EXCEPT ![m] = new]
              /\ GrownCall(m, new)
              /\ new.stage = "post" \/ /\ new.stage = "none"
                                       /\ \A i \in candidates : memo'[i] = None
              /\ memo' = Remember(results)
              /\ memo' \in [Instance -> Answer]
  <1>1. memo' = Remember(results) /\ memo' \in [Instance -> Answer]
    BY RememberType DEF Post
  <1> DEFINE available == {i \in candidates : memo'[i] # None}
             none == [IdleMigration EXCEPT !.stage = "none"]
             post(i) == [IdleMigration EXCEPT !.stage = "post", !.target = i]
  <1>2. /\ none \in Migration /\ none.stage = "none"
        /\ \A i \in Instance :
              /\ post(i) \in Migration
              /\ post(i).stage = "post" /\ post(i).target = i
    BY IdleTypes DEF Migration
  <1>3. \/ available = {} /\ migrating' = [migrating EXCEPT ![m] = none]
        \/ \E i \in Best(available, memo') : migrating' = [migrating EXCEPT ![m] = post(i)]
    BY DEF Post
  <1> HIDE DEF none, post
  <1>4. CASE available = {} /\ migrating' = [migrating EXCEPT ![m] = none]
    <2>1. GrownCall(m, none)
      BY <1>2 DEF GrownCall
    <2> QED BY <1>1, <1>2, <1>4, <2>1
  <1>5. ASSUME NEW i \in Best(available, memo'),
               migrating' = [migrating EXCEPT ![m] = post(i)]
        PROVE  \E new \in Migration :
                  /\ migrating' = [migrating EXCEPT ![m] = new]
                  /\ GrownCall(m, new)
                  /\ new.stage = "post"
    <2>1. i \in candidates /\ i \in Instance
      BY <1>5 DEF Best, Fits
    <2>2. post(i) \in Migration /\ post(i).stage = "post" /\ post(i).target = i
      BY <1>2, <2>1
    <2>3. GrownCall(m, post(i))
      BY <2>1, <2>2 DEF GrownCall
    <2> QED BY <1>5, <2>2, <2>3
  <1> QED BY <1>1, <1>3, <1>4, <1>5

\* Up to the first await: the call fetches, posts, or gives up for want of a
\* candidate.
LEMMA MigrateBeginDef ==
    ASSUME Consistent, RoutingTypeOK, NEW m \in MigrateCall, MigrateBegin(m)
    PROVE  \E new \in Migration :
              /\ migrating' = [migrating EXCEPT ![m] = new]
              /\ GrownCall(m, new)
              /\ new.stage = "none" /\ Outgrown(m) => MigrationCandidates(m) = {}
              /\ memo' \in [Instance -> Answer]
              /\ UNCHANGED <<vars, cache, routing>>
  <1> DEFINE candidates == IF Outgrown(m) THEN MigrationCandidates(m) ELSE {}
             missing == {i \in candidates : memo[i] = None}
  <1>1. /\ UNCHANGED <<vars, cache, routing>>
        /\ migrating[m].stage = "idle"
        /\ \/ /\ candidates = {}
              /\ migrating' = [migrating EXCEPT ![m].stage = "none"]
              /\ UNCHANGED memo
           \/ /\ candidates # {} /\ missing = {}
              /\ Post(m, candidates, Empty)
           \/ /\ missing # {}
              /\ migrating' = [migrating EXCEPT ![m] =
                    [migrating[m] EXCEPT !.stage = "fetch", !.candidates = candidates,
                                         !.missing = missing]]
              /\ UNCHANGED memo
    BY DEF MigrateBegin
  <1>2. \A i \in candidates : Fits(i, m) /\ Large(m)
    BY CandidatesFit, OutgrownLarge
  <1>3. candidates \subseteq Instance /\ missing \subseteq candidates
    BY <1>2 DEF Fits
  <1>4. migrating[m] \in Migration
    BY DEF RoutingTypeOK
  <1>5. CASE candidates = {} /\ migrating' = [migrating EXCEPT ![m].stage = "none"]
             /\ UNCHANGED memo
    <2> DEFINE new == [migrating[m] EXCEPT !.stage = "none"]
    <2>1. new \in Migration /\ new.stage = "none"
      BY <1>4 DEF Migration
    <2>2. migrating' = [migrating EXCEPT ![m] = new]
      BY <1>5
    <2> HIDE DEF new
    <2>3. GrownCall(m, new)
      BY <2>1 DEF GrownCall
    <2>4. Outgrown(m) => MigrationCandidates(m) = {}
      BY <1>5
    <2>5. memo' \in [Instance -> Answer]
      BY <1>5 DEF RoutingTypeOK
    <2> QED BY <1>1, <2>1, <2>2, <2>3, <2>4, <2>5
  <1>6. CASE candidates # {} /\ missing = {} /\ Post(m, candidates, Empty)
    <2>1. Empty \in Dict(Instance, Answer)
      BY EmptyDict
    <2>2. Large(m) /\ \A i \in candidates : Fits(i, m)
      BY <1>2, <1>6
    <2> HIDE DEF candidates
    <2>3. PICK new \in Migration :
             /\ migrating' = [migrating EXCEPT ![m] = new]
             /\ GrownCall(m, new)
             /\ new.stage = "post" \/ /\ new.stage = "none"
                                      /\ \A i \in candidates : memo'[i] = None
             /\ memo' = Remember(Empty)
             /\ memo' \in [Instance -> Answer]
      BY <1>6, <2>1, <2>2, PostDef
    <2>4. new.stage # "none"
      <3>1. PICK i \in candidates : memo[i] # None
        BY <1>6
      <3>2. Remember(Empty)[i] = memo[i]
        BY <1>3, <3>1 DEF Remember, Answered, Empty
      <3> QED BY <2>3, <3>1, <3>2
    <2> QED BY <1>1, <2>3, <2>4
  <1>7. CASE /\ missing # {}
             /\ migrating' = [migrating EXCEPT ![m] =
                    [migrating[m] EXCEPT !.stage = "fetch", !.candidates = candidates,
                                         !.missing = missing]]
             /\ UNCHANGED memo
    <2> DEFINE new == [migrating[m] EXCEPT !.stage = "fetch", !.candidates = candidates,
                                           !.missing = missing]
    <2> HIDE DEF candidates, missing
    <2>1. /\ new \in Migration /\ new.stage = "fetch" /\ new.candidates = candidates
      BY <1>3, <1>4 DEF Migration
    <2>2. migrating' = [migrating EXCEPT ![m] = new]
      BY <1>7
    <2> HIDE DEF new
    <2>3. GrownCall(m, new)
      BY <1>2, <1>3, <1>7, <2>1 DEF GrownCall
    <2>4. memo' \in [Instance -> Answer]
      BY <1>7 DEF RoutingTypeOK
    <2> QED BY <1>1, <2>1, <2>2, <2>3, <2>4
  <1> QED BY <1>1, <1>5, <1>6, <1>7

\* The later steps of the call keep its candidates or its target.
LEMMA MigrateLaterDef ==
    ASSUME RoutingTypeOK, Grown, NEW m \in MigrateCall,
           \/ MigratePost(m) \/ MigrateApply(m) \/ MigrateFail(m) \/ MigrateEnd(m)
           \/ \E i \in Instance : MigrateFetch(m, i)
    PROVE  \E new \in Migration :
              /\ migrating' = [migrating EXCEPT ![m] = new]
              /\ GrownCall(m, new)
              /\ migrating[m].stage # "idle"
              /\ memo' \in [Instance -> Answer]
              /\ UNCHANGED <<vars, routing>>
  <1>1. migrating[m] \in Migration /\ GrownCall(m, migrating[m])
        /\ memo \in [Instance -> Answer]
    BY DEF RoutingTypeOK, Grown
  <1>2. ASSUME NEW i \in Instance, MigrateFetch(m, i)
        PROVE  \E new \in Migration :
                  /\ migrating' = [migrating EXCEPT ![m] = new]
                  /\ GrownCall(m, new)
    <2>1. PICK answer \in Answers(i) :
             migrating' = [migrating EXCEPT ![m].results = Put(@, i, answer)]
      BY <1>2 DEF MigrateFetch
    <2> DEFINE res == Put(migrating[m].results, i, answer)
               new == [migrating[m] EXCEPT !.results = res]
    <2>2. res \in Dict(Instance, Answer)
      <3>1. answer \in Answer /\ migrating[m].results \in Dict(Instance, Answer)
        BY <1>1, AnswersType DEF Migration
      <3> QED BY <3>1, PutDict
    <2> HIDE DEF res
    <2>3. /\ new \in Migration /\ new.stage = migrating[m].stage
          /\ new.candidates = migrating[m].candidates
          /\ new.target = migrating[m].target
      BY <1>1, <2>2 DEF Migration
    <2>4. migrating' = [migrating EXCEPT ![m] = new]
      BY <2>1 DEF res
    <2> HIDE DEF new
    <2>5. GrownCall(m, new)
      BY <1>1, <2>3 DEF GrownCall
    <2> QED BY <2>3, <2>4, <2>5
  <1>3. CASE MigratePost(m)
    <2>1. /\ migrating[m].stage = "fetch"
          /\ Post(m, migrating[m].candidates, migrating[m].results)
          /\ UNCHANGED <<vars, cache, routing>>
      BY <1>3 DEF MigratePost
    <2>2. /\ Large(m) /\ \A i \in migrating[m].candidates : Fits(i, m)
          /\ migrating[m].results \in Dict(Instance, Answer)
      BY <1>1, <2>1 DEF GrownCall, Migration
    <2> QED BY <2>1, <2>2, PostDef
  <1>4. CASE MigrateApply(m)
    <2> DEFINE new == [migrating[m] EXCEPT !.stage = "applied"]
    <2>1. /\ new \in Migration /\ new.stage = "applied"
          /\ new.target = migrating[m].target
      BY <1>1 DEF Migration
    <2>2. /\ migrating' = [migrating EXCEPT ![m] = new]
          /\ migrating[m].stage = "post" /\ UNCHANGED <<vars, memo, routing>>
      BY <1>4 DEF MigrateApply
    <2> HIDE DEF new
    <2>3. GrownCall(m, new)
      BY <1>1, <2>1, <2>2 DEF GrownCall
    <2> QED BY <1>1, <2>1, <2>2, <2>3
  <1>5. CASE MigrateFail(m)
    <2> DEFINE new == [migrating[m] EXCEPT !.stage = "none", !.target = None]
    <2>1. new \in Migration /\ new.stage = "none"
      BY <1>1 DEF Migration
    <2>2. /\ migrating' = [migrating EXCEPT ![m] = new]
          /\ migrating[m].stage # "idle" /\ UNCHANGED <<vars, memo, routing>>
      BY <1>5 DEF MigrateFail, RoutingTypeOK
    <2> HIDE DEF new
    <2>3. GrownCall(m, new)
      BY <2>1 DEF GrownCall
    <2> QED BY <1>1, <2>1, <2>2, <2>3
  <1>6. CASE MigrateEnd(m)
    <2> DEFINE new == [migrating[m] EXCEPT !.stage = "migrated"]
    <2>1. /\ new \in Migration /\ new.stage = "migrated"
          /\ new.target = migrating[m].target
      BY <1>1 DEF Migration
    <2>2. /\ migrating' = [migrating EXCEPT ![m] = new]
          /\ migrating[m].stage = "applied" /\ UNCHANGED <<vars, routing>>
          /\ memo' = [memo EXCEPT ![migrating[m].target] = None]
      BY <1>6 DEF MigrateEnd
    <2>3. memo' \in [Instance -> Answer]
      BY <1>1, <2>2 DEF Answer
    <2> HIDE DEF new
    <2>4. GrownCall(m, new)
      BY <1>1, <2>1, <2>2 DEF GrownCall
    <2> QED BY <2>1, <2>2, <2>3, <2>4
  <1>7. ASSUME NEW i \in Instance, MigrateFetch(m, i)
        PROVE  migrating[m].stage # "idle" /\ UNCHANGED <<vars, memo, routing>>
    BY <1>7 DEF MigrateFetch
  <1> QED BY <1>1, <1>2, <1>3, <1>4, <1>5, <1>6, <1>7

\* The cache of an instance stays a cache state; entries only go away with
\* other traffic, where the world allows it.
LEMMA CacheStep ==
    ASSUME RoutingTypeOK, [RoutingNext]_allVars
    PROVE  /\ cache' \in [Instance -> CacheState]
           /\ ~ world.evictions =>
                 \A i \in Instance : cache[i].entries \subseteq cache'[i].entries
  <1>1. cache \in [Instance -> CacheState]
    BY DEF RoutingTypeOK
  <1>2. CASE UNCHANGED cache
    BY <1>1, <1>2
  <1>3. ASSUME NEW m \in MigrateCall, MigrateApply(m)
        PROVE  /\ cache' \in [Instance -> CacheState]
               /\ \A i \in Instance : cache[i].entries \subseteq cache'[i].entries
    <2> DEFINE t == migrating[m].target
               hashes == BlockHashes(Tokens[m])
               added == {hashes[k] : k \in DOMAIN hashes}
    <2>1. KeyOf[m] \in Key /\ Tokens[m] \in Seq(Nat)
      BY RoutingAssumption
    <2>2. added \subseteq Seq(Nat)
      BY <2>1, BlockHashesType
    <2>3. \/ cache' = [cache EXCEPT ![t].entries = @ \cup {KeyOf[m]}]
          \/ cache' = [cache EXCEPT ![t].hashes = @ \cup added]
      BY <1>3 DEF MigrateApply
    <2> HIDE DEF t, added
    <2>4. CASE cache' = [cache EXCEPT ![t].entries = @ \cup {KeyOf[m]}]
      <3>1. t \in Instance =>
               LET new == [cache[t] EXCEPT !.entries = @ \cup {KeyOf[m]}]
               IN  /\ cache[t] \in CacheState /\ new \in CacheState
                   /\ cache[t].entries \subseteq new.entries
        BY <1>1, <2>1 DEF CacheState
      <3> QED BY <1>1, <2>4, <3>1
    <2>5. CASE cache' = [cache EXCEPT ![t].hashes = @ \cup added]
      <3>1. t \in Instance =>
               LET new == [cache[t] EXCEPT !.hashes = @ \cup added]
               IN  /\ cache[t] \in CacheState /\ new \in CacheState
                   /\ cache[t].entries \subseteq new.entries
        BY <1>1, <2>2 DEF CacheState
      <3> QED BY <1>1, <2>5, <3>1
    <2> QED BY <2>3, <2>4, <2>5
  <1>4. ASSUME NEW i \in Instance, Traffic(i)
        PROVE  /\ cache' \in [Instance -> CacheState]
               /\ ~ world.evictions =>
                     \A j \in Instance : cache[j].entries \subseteq cache'[j].entries
    <2>1. PICK state \in CacheStates :
             /\ world.evictions \/ cache[i].entries \subseteq state.entries
             /\ cache' = [cache EXCEPT ![i] = state]
      BY <1>4 DEF Traffic
    <2>2. state \in CacheState
      BY CacheAssumption
    <2> QED BY <1>1, <2>1, <2>2
  <1>5. CASE RoutingNext
    <2>1. \/ UNCHANGED cache
          \/ \E m \in MigrateCall : MigrateApply(m)
          \/ \E i \in Instance : Traffic(i)
      BY <1>5 DEF RoutingNext, Registry, routingVars, RouteBegin, RouteEnd, RouteFetch,
                  MigrateBegin, MigratePost, MigrateFail, MigrateEnd, MigrateFetch
    <2> QED BY <1>2, <1>3, <1>4, <2>1
  <1> QED BY <1>2, <1>5 DEF allVars, routingVars
-----------------------------------------------------------------------------
(* The inductive invariant *)

\* Where answers arrive and entries stay, an answer is a lower bound of what the
\* instance holds, and the entries seen when the call began are in the answers.
WarmCall(q, call) ==
    /\ call.stage = "idle" => DOMAIN call.results = {}
    /\ call.stage = "fetch" =>
          /\ call.hot \subseteq call.infos
          /\ \A i \in call.hot : KeyOf[q] \in cache[i].entries
          /\ \A i \in DOMAIN call.results :
                /\ call.results[i] # None
                /\ call.results[i].entries \subseteq cache[i].entries
                /\ i \in call.hot => KeyOf[q] \in call.results[i].entries
    /\ call.stage = "done" /\ call.hot # {} =>
          call.choice \in Instance /\ KeyOf[q] \in cache[call.choice].entries
Warm ==
    ~ world.failures /\ ~ world.evictions =>
       \A q \in RouteCall : WarmCall(q, routing[q])

RoutingInv == Consistent /\ RoutingTypeOK /\ Grown /\ Warm

\* The invariant holds initially.
LEMMA RoutingInvInit == RoutingInit => RoutingInv
  <1> SUFFICES ASSUME RoutingInit PROVE RoutingInv
    OBVIOUS
  <1>1. Consistent
    BY RegistryInit DEF RoutingInit
  <1>2. NoEngine \in CacheState
    BY DEF NoEngine, CacheState
  <1>3. RoutingTypeOK
    BY <1>2, IdleTypes DEF RoutingInit, RoutingTypeOK, Answer
  <1>4. Grown
    BY DEF RoutingInit, Grown, GrownCall, IdleMigration
  <1>5. Warm
    BY DEF RoutingInit, Warm, WarmCall, IdleRoute, Empty
  <1> QED BY <1>1, <1>3, <1>4, <1>5 DEF RoutingInv

\* Each step is one of the registry, of one route, of one migration, or of the
\* other traffic.
LEMMA RoutingCases ==
    ASSUME RoutingInv, [RoutingNext]_allVars
    PROVE  /\ world' = world
           /\ \/ Next /\ UNCHANGED <<cache, memo, routing, migrating>>
              \/ /\ \E q \in RouteCall :
                       \/ RouteBegin(q) \/ RouteEnd(q)
                       \/ \E i \in Instance : RouteFetch(q, i)
                 /\ UNCHANGED <<vars, cache, migrating>>
              \/ \E m \in MigrateCall, new \in Migration :
                    /\ migrating' = [migrating EXCEPT ![m] = new]
                    /\ GrownCall(m, new)
                    /\ MigrateBegin(m) \/ migrating[m].stage # "idle"
                    /\ memo' \in [Instance -> Answer]
                    /\ UNCHANGED <<vars, routing>>
              \/ UNCHANGED <<vars, memo, routing, migrating>>
  <1> USE DEF RoutingInv
  <1>1. CASE UNCHANGED allVars
    BY <1>1 DEF allVars, routingVars
  <1>2. CASE RoutingNext
    <2>1. world' = world
      BY <1>2 DEF RoutingNext
    <2>2. CASE Registry
      BY <2>1, <2>2 DEF Registry, routingVars
    <2>3. ASSUME NEW q \in RouteCall,
                 \/ RouteBegin(q) \/ RouteEnd(q)
                 \/ \E i \in Instance : RouteFetch(q, i)
          PROVE  UNCHANGED <<vars, cache, migrating>>
      BY <2>3 DEF RouteBegin, RouteEnd, RouteFetch
    <2>4. ASSUME NEW m \in MigrateCall, MigrateBegin(m)
          PROVE  \E new \in Migration :
                    /\ migrating' = [migrating EXCEPT ![m] = new]
                    /\ GrownCall(m, new)
                    /\ memo' \in [Instance -> Answer]
                    /\ UNCHANGED <<vars, routing>>
      BY <2>4, MigrateBeginDef
    <2>5. ASSUME NEW m \in MigrateCall,
                 \/ MigratePost(m) \/ MigrateApply(m) \/ MigrateFail(m) \/ MigrateEnd(m)
                 \/ \E i \in Instance : MigrateFetch(m, i)
          PROVE  \E new \in Migration :
                    /\ migrating' = [migrating EXCEPT ![m] = new]
                    /\ GrownCall(m, new)
                    /\ migrating[m].stage # "idle"
                    /\ memo' \in [Instance -> Answer]
                    /\ UNCHANGED <<vars, routing>>
      BY <2>5, MigrateLaterDef
    <2>6. ASSUME NEW i \in Instance, Traffic(i)
          PROVE  UNCHANGED <<vars, memo, routing, migrating>>
      BY <2>6 DEF Traffic
    <2> QED BY <1>2, <2>1, <2>2, <2>3, <2>4, <2>5, <2>6 DEF RoutingNext
  <1> QED BY <1>1, <1>2

\* Every step keeps the types.
LEMMA RoutingTypeStep ==
    ASSUME RoutingInv, [RoutingNext]_allVars
    PROVE  RoutingTypeOK'
  <1> USE DEF RoutingInv
  <1>1. cache' \in [Instance -> CacheState]
    BY CacheStep
  <1>2. world' = world
    BY RoutingCases
  <1>3. CASE UNCHANGED <<memo, routing, migrating>>
    BY <1>1, <1>2, <1>3 DEF RoutingTypeOK
  <1>4. ASSUME NEW q \in RouteCall,
               \/ RouteBegin(q) \/ RouteEnd(q)
               \/ \E i \in Instance : RouteFetch(q, i)
        PROVE  /\ routing' \in [RouteCall -> Route]
               /\ memo' \in [Instance -> Answer]
    <2>1. TypeOK
      BY DEF Consistent
    <2>2. routing \in [RouteCall -> Route] /\ memo \in [Instance -> Answer]
      BY DEF RoutingTypeOK
    <2>3. CASE RouteBegin(q)
      BY <2>1, <2>2, <2>3, RouteBeginType
    <2>4. CASE RouteEnd(q)
      BY <2>2, <2>4, RouteEndType
    <2>5. ASSUME NEW i \in Instance, RouteFetch(q, i)
          PROVE  /\ routing' \in [RouteCall -> Route]
                 /\ memo' \in [Instance -> Answer]
      BY <2>2, <2>5, RouteFetchType
    <2> QED BY <1>4, <2>3, <2>4, <2>5
  <1>5. CASE \E q \in RouteCall :
                /\ \/ RouteBegin(q) \/ RouteEnd(q)
                   \/ \E i \in Instance : RouteFetch(q, i)
                /\ UNCHANGED <<cache, migrating>>
    <2>1. routing' \in [RouteCall -> Route] /\ memo' \in [Instance -> Answer]
          /\ migrating' = migrating
      BY <1>4, <1>5
    <2> QED BY <1>1, <1>2, <2>1 DEF RoutingTypeOK
  <1>6. CASE \E m \in MigrateCall, new \in Migration :
                /\ migrating' = [migrating EXCEPT ![m] = new]
                /\ memo' \in [Instance -> Answer]
                /\ UNCHANGED routing
    BY <1>1, <1>2, <1>6 DEF RoutingTypeOK
  <1> QED BY <1>3, <1>5, <1>6, RoutingCases

\* Every step keeps what is known of the migrations.
LEMMA GrownStep ==
    ASSUME RoutingInv, [RoutingNext]_allVars
    PROVE  Grown'
  <1> USE DEF RoutingInv
  <1>1. CASE UNCHANGED migrating
    BY <1>1 DEF Grown, GrownCall
  <1>2. ASSUME NEW m \in MigrateCall, NEW new \in Migration,
               migrating' = [migrating EXCEPT ![m] = new], GrownCall(m, new)
        PROVE  Grown'
    <2>1. migrating'[m] = new
          /\ \A n \in MigrateCall : n # m => migrating'[n] = migrating[n]
      BY <1>2 DEF RoutingTypeOK
    <2>2. \A n \in MigrateCall : GrownCall(n, migrating'[n])
      BY <1>2, <2>1 DEF Grown
    <2> QED BY <2>2 DEF Grown, GrownCall
  <1> QED BY <1>1, <1>2, RoutingCases

\* Answers stay lower bounds while entries only grow.
LEMMA WarmKept ==
    ASSUME NEW q, NEW call, WarmCall(q, call), call.infos \subseteq Instance,
           call.stage = "fetch" => DOMAIN call.results \subseteq Instance,
           \A i \in Instance : cache[i].entries \subseteq cache'[i].entries
    PROVE  /\ call.stage = "idle" => DOMAIN call.results = {}
           /\ call.stage = "fetch" =>
                 /\ call.hot \subseteq call.infos
                 /\ \A i \in call.hot : KeyOf[q] \in cache'[i].entries
                 /\ \A i \in DOMAIN call.results :
                       /\ call.results[i] # None
                       /\ call.results[i].entries \subseteq cache'[i].entries
                       /\ i \in call.hot => KeyOf[q] \in call.results[i].entries
           /\ call.stage = "done" /\ call.hot # {} =>
                 call.choice \in Instance /\ KeyOf[q] \in cache'[call.choice].entries
  BY DEF WarmCall

\* Every step keeps what is known of the routes.
LEMMA WarmStep ==
    ASSUME RoutingInv, [RoutingNext]_allVars
    PROVE  Warm'
  <1> USE DEF RoutingInv
  <1>1. world' = world
    BY RoutingCases
  <1> SUFFICES ASSUME ~ world.failures, ~ world.evictions, NEW p \in RouteCall
               PROVE  WarmCall(p, routing[p])'
    BY <1>1 DEF Warm
  <1>2. \A i \in Instance : cache[i].entries \subseteq cache'[i].entries
    BY CacheStep
  <1>3. WarmCall(p, routing[p])
    BY DEF Warm
  <1>4. /\ routing[p] \in Route
        /\ routing[p].infos \subseteq Instance
        /\ routing[p].results \in Dict(Instance, Answer)
        /\ DOMAIN routing[p].results \subseteq Instance
    <2>1. routing[p] \in Route
      BY DEF RoutingTypeOK
    <2>2. routing[p].infos \subseteq Instance
          /\ routing[p].results \in Dict(Instance, Answer)
      BY <2>1 DEF Route
    <2> QED BY <2>1, <2>2, DictDef
  <1>5. CASE routing'[p] = routing[p]
    BY <1>2, <1>3, <1>4, <1>5, WarmKept DEF WarmCall
  <1>6. CASE RouteBegin(p) /\ UNCHANGED cache
    <2> DEFINE infos == get_instances_for_agent(AgentId)
               hot == {i \in infos : KeyOf[p] \in cache[i].entries}
               new == [routing[p] EXCEPT
                         !.stage = IF infos = {} THEN "done" ELSE "fetch",
                         !.infos = infos, !.hot = hot]
    <2>1. TypeOK
      BY DEF Consistent
    <2>2. /\ routing' = [routing EXCEPT ![p] = new]
          /\ routing[p].stage = "idle"
      BY <1>6, <2>1, RouteBeginType
    <2>3. /\ new.stage = IF infos = {} THEN "done" ELSE "fetch"
          /\ new.infos = infos /\ new.hot = hot /\ new.results = routing[p].results
      BY <1>4 DEF Route
    <2>4. routing'[p] = new
      BY <2>2 DEF RoutingTypeOK
    <2> HIDE DEF new, infos
    <2>5. DOMAIN new.results = {}
      BY <1>3, <2>2, <2>3 DEF WarmCall
    <2> QED BY <1>6, <2>3, <2>4, <2>5 DEF WarmCall
  <1>7. ASSUME NEW i \in Instance, RouteFetch(p, i), UNCHANGED cache
        PROVE  WarmCall(p, routing[p])'
    <2>1. PICK answer \in Answers(i) :
             LET new == [routing[p] EXCEPT !.results = Put(routing[p].results, i, answer)]
             IN  /\ routing' = [routing EXCEPT ![p] = new]
                 /\ routing[p].stage = "fetch"
      BY <1>7, RouteFetchType
    <2>2. answer = cache[i] /\ answer # None
      <3>1. answer = cache[i]
        BY DEF Answers
      <3>2. cache[i] \in CacheState
        BY DEF RoutingTypeOK
      <3> QED BY <3>1, <3>2, CacheAssumption
    <2> DEFINE old == routing[p].results
               res == Put(old, i, answer)
               new == [routing[p] EXCEPT !.results = res]
    <2>3. /\ DOMAIN res = DOMAIN old \cup {i}
          /\ res[i] = answer
          /\ \A j \in DOMAIN old : j # i => res[j] = old[j]
      BY DEF Put
    <2> HIDE DEF res
    <2>4. /\ new.stage = routing[p].stage /\ new.infos = routing[p].infos
          /\ new.hot = routing[p].hot /\ new.results = res
      BY <1>4 DEF Route
    <2>5. routing'[p] = new
      BY <2>1 DEF RoutingTypeOK, res
    <2> HIDE DEF new
    <2>6. /\ routing[p].hot \subseteq routing[p].infos
          /\ \A j \in routing[p].hot : KeyOf[p] \in cache[j].entries
          /\ \A j \in DOMAIN old :
                /\ old[j] # None
                /\ old[j].entries \subseteq cache[j].entries
                /\ j \in routing[p].hot => KeyOf[p] \in old[j].entries
      BY <1>3, <2>1 DEF WarmCall
    <2>7. \A j \in DOMAIN res :
             /\ res[j] # None
             /\ res[j].entries \subseteq cache[j].entries
             /\ j \in routing[p].hot => KeyOf[p] \in res[j].entries
      BY <2>2, <2>3, <2>6
    <2>8. new.stage = "fetch" /\ cache' = cache
      BY <1>7, <2>1, <2>4
    <2> QED BY <2>4, <2>5, <2>6, <2>7, <2>8 DEF WarmCall
  <1>8. CASE RouteEnd(p) /\ UNCHANGED cache
    <2>1. PICK choice \in RouteChoices(p, routing[p].results), new \in Route :
             /\ routing' = [routing EXCEPT ![p] = new]
             /\ new.stage = "done" /\ new.choice = choice /\ new.hot = routing[p].hot
             /\ routing[p].stage = "fetch"
             /\ DOMAIN routing[p].results = routing[p].infos
      BY <1>8, RouteEndType
    <2> DEFINE res == routing[p].results
    <2>2. routing'[p] = new
      BY <2>1 DEF RoutingTypeOK
    <2>3. ASSUME new.hot # {}
          PROVE  choice \in Instance /\ KeyOf[p] \in cache[choice].entries
      <3>1. PICK i \in routing[p].hot : TRUE
        BY <2>1, <2>3
      <3>2. i \in DOMAIN res /\ res[i] # None /\ KeyOf[p] \in res[i].entries
        BY <1>3, <2>1, <3>1 DEF WarmCall
      <3>3. i \in Exact(p, res)
        BY <3>2 DEF Exact, Answered
      <3>4. choice \in Exact(p, res)
        BY <2>1, <3>3, ChoiceAnswered
      <3>5. choice \in DOMAIN res /\ KeyOf[p] \in res[choice].entries
        BY <3>4 DEF Exact, Answered
      <3>6. res[choice].entries \subseteq cache[choice].entries
        BY <1>3, <2>1, <3>5 DEF WarmCall
      <3> QED BY <1>4, <3>5, <3>6
    <2> QED BY <1>8, <2>1, <2>2, <2>3 DEF WarmCall
  <1>9. ASSUME NEW q \in RouteCall, q # p,
               \/ RouteBegin(q) \/ RouteEnd(q)
               \/ \E i \in Instance : RouteFetch(q, i)
        PROVE  routing'[p] = routing[p]
    <2>1. routing \in [RouteCall -> Route]
      BY DEF RoutingTypeOK
    <2> QED BY <1>9, <2>1 DEF RouteBegin, RouteEnd, RouteFetch
  <1> QED BY <1>5, <1>6, <1>7, <1>8, <1>9, RoutingCases

\* Every step keeps the invariant.
LEMMA RoutingInvStep ==
    ASSUME IdsDetermine, RoutingInv, [RoutingNext]_allVars
    PROVE  RoutingInv'
  <1>1. [Next]_vars
    BY RoutingCases DEF RoutingInv
  <1>2. Consistent'
    BY <1>1, RegistryStep DEF RoutingInv
  <1> QED BY <1>2, RoutingTypeStep, GrownStep, WarmStep DEF RoutingInv

\* The calls of a scheduler and the registry keep the invariant together.
THEOREM RoutingInvariant ==
    ASSUME IdsDetermine
    PROVE  RoutingSpec => []RoutingInv
  <1>1. RoutingInit => RoutingInv
    BY RoutingInvInit
  <1>2. RoutingInv /\ [RoutingNext]_allVars => RoutingInv'
    BY RoutingInvStep
  <1> QED BY <1>1, <1>2, PTL DEF RoutingSpec

\* An id still means what it meant when the call looked it up.
LEMMA SameOffer ==
    ASSUME IdsDetermine, Consistent, NEW i \in Instance, instances[i] # None,
           NEW o \in Offer, o[1] = i
    PROVE  instances[i].range = o[3]
  <1> DEFINE r == <<i, instances[i].agent, instances[i].range>>
  <1>1. r \in Offer /\ r[1] = i /\ r[3] = instances[i].range
    BY DEF Consistent, Recorded
  <1> HIDE DEF r
  <1> QED BY <1>1 DEF IdsDetermine

\* A cache never migrates to its own instance or to one it does not fit in, nor
\* away from one it fits in.
THEOREM MigrationsGrow ==
    ASSUME IdsDetermine
    PROVE  RoutingSpec => []MigrationGrows
  <1>1. RoutingInv => MigrationGrows
    <2> SUFFICES ASSUME RoutingInv, NEW m \in MigrateCall,
                        migrating[m].stage \in {"post", "applied", "migrated"}
                 PROVE  LET to == instances[migrating[m].target]
                            from == instances[Source[m]]
                        IN  /\ migrating[m].target # Source[m]
                            /\ to # None => Covers(to.range, TotalLength[m])
                            /\ from # None => ~ Covers(from.range, TotalLength[m])
      BY DEF MigrationGrows
    <2> DEFINE t == migrating[m].target
               s == Source[m]
    <2>1. Consistent /\ Large(m) /\ Fits(t, m)
      BY DEF RoutingInv, Grown, GrownCall
    <2>2. PICK o \in Offer : o[1] = t /\ o[3] # None /\ Covers(o[3], TotalLength[m])
      BY <2>1 DEF Fits
    <2>3. PICK p \in Offer : p[1] = s /\ p[3] # None /\ TotalLength[m] >= p[3].hi
      BY <2>1 DEF Large
    <2>4. t \in Instance /\ t # s /\ s \in Instance
      BY <2>1, RoutingAssumption DEF Fits
    <2>5. instances[t] # None => Covers(instances[t].range, TotalLength[m])
      BY <2>1, <2>2, <2>4, SameOffer
    <2>6. instances[s] # None => instances[s].range = p[3]
      BY <2>1, <2>3, <2>4, SameOffer
    <2>7. ~ Covers(p[3], TotalLength[m])
      <3>1. p[3] \in ContextRange
        BY <2>3, OfferAssumption
      <3>2. p[3].hi \in Int /\ TotalLength[m] \in Int
        BY <3>1, RoutingAssumption
      <3> QED BY <2>3, <3>2 DEF Covers
    <2> QED BY <2>4, <2>5, <2>6, <2>7
  <1> QED BY <1>1, RoutingInvariant, PTL

\* route answers an instance that holds the request's entry if one held it when
\* the call began, although the answers are of different moments.
THEOREM RoutesReuse ==
    ASSUME IdsDetermine
    PROVE  RoutingSpec => []RouteReuses
  <1>1. RoutingInv => RouteReuses
    BY NoneAssumption DEF RoutingInv, Warm, WarmCall, RouteReuses
  <1> QED BY <1>1, RoutingInvariant, PTL

\* With disjoint ranges every ready instance that covers the length is found
\* under the one slot that is looked at.
LEMMA NoOtherCovers ==
    ASSUME Consistent, DisjointRanges, NEW m \in MigrateCall,
           MigrationCandidates(m) = {},
           NEW i \in get_instances_for_agent(AgentId) \ {Source[m]},
           instances[i].range # None
    PROVE  ~ Covers(instances[i].range, TotalLength[m])
  <1> SUFFICES ASSUME Covers(instances[i].range, TotalLength[m])
               PROVE  FALSE
    OBVIOUS
  <1> DEFINE len == TotalLength[m]
             k == find_context_slot(AgentId, len)
             r == instances[i].range
  <1>1. AgentId \in Agent /\ len \in Int
    BY RoutingAssumption
  <1>2. /\ i \in Instance /\ Ready(i) /\ instances[i] # None
        /\ instances[i].agent = AgentId
    BY <1>1 DEF get_instances_for_agent, Ready, Consistent, TypeOK, IndexesExact
  <1>3. k # None
    BY <1>1, NoContextSlot
  <1>4. k \in DOMAIN slotRanges[AgentId] /\ Covers(slotRanges[AgentId][k], len)
    BY <1>1, <1>3, ContextSlotDef
  <1> DEFINE s == slotRanges[AgentId][k]
  <1> HIDE DEF k
  <1>5. /\ s \in DOMAIN rangeSlots[AgentId] /\ rangeSlots[AgentId][s] = k
        /\ \E j \in Instance : <<j, AgentId, s>> \in Offer
    BY <1>1, <1>4 DEF Consistent, SlotsOffered
  <1>6. s \in ContextRange /\ s # None
    <2>1. TypeOK
      BY DEF Consistent
    <2> QED BY <1>1, <1>5, <2>1, RangesFinite, OfferAssumption
  <1>7. r = s
    <2>1. PICK j \in Instance : <<j, AgentId, s>> \in Offer
      BY <1>5
    <2> DEFINE o == <<j, AgentId, s>>
               p == <<i, AgentId, r>>
    <2>2. p \in Offer
      BY <1>2 DEF Consistent, Recorded
    <2>3. /\ o[2] = AgentId /\ p[2] = AgentId /\ o[3] = s /\ p[3] = r
      OBVIOUS
    <2> HIDE DEF o, p, r, s
    <2>4. s = r \/ s.hi <= r.lo \/ r.hi <= s.lo
      BY <1>6, <2>1, <2>2, <2>3 DEF DisjointRanges, o, r
    <2>5. r \in ContextRange
      BY <2>2, OfferAssumption DEF p, r
    <2>6. /\ r.lo \in Int /\ r.hi \in Int /\ s.lo \in Int /\ s.hi \in Int
      BY <1>6, <2>5, RoutingAssumption
    <2>7. r.lo <= len /\ len < r.hi /\ s.lo <= len /\ len < s.hi
      BY <1>4 DEF Covers, r, s
    <2> QED BY <1>1, <2>4, <2>6, <2>7
  <1>8. i \in GetSet(contextInstances[AgentId], k)
    <2>1. k \in DOMAIN contextInstances[AgentId]
      BY <1>1, <1>4 DEF Consistent, Keyed
    <2>2. i \in contextInstances[AgentId][k]
      BY <1>1, <1>2, <1>5, <1>7, <2>1 DEF Consistent, IndexesExact
    <2> QED BY <2>1, <2>2 DEF GetSet
  <1>9. i \in MigrationCandidates(m)
    BY <1>2, <1>8 DEF MigrationCandidates, get_instances_for_context, k
  <1> QED BY <1>9

\* maybe_migrate_request gives up at once on an outgrown request only when no
\* other ready instance of the agent covers its length.
THEOREM MigrationsNotMissed ==
    ASSUME IdsDetermine, DisjointRanges
    PROVE  RoutingSpec => NoMissedMigration
  <1> DEFINE GivesUpRightly ==
               \A m \in MigrateCall :
                  /\ migrating[m].stage = "idle" /\ migrating'[m].stage = "none"
                  /\ Outgrown(m)
                  => \A i \in get_instances_for_agent(AgentId) \ {Source[m]} :
                        instances[i].range # None
                           => ~ Covers(instances[i].range, TotalLength[m])
  <1>1. RoutingInv /\ [RoutingNext]_allVars => [GivesUpRightly]_allVars
    <2> SUFFICES ASSUME RoutingInv, [RoutingNext]_allVars, NEW m \in MigrateCall,
                        migrating[m].stage = "idle", migrating'[m].stage = "none",
                        Outgrown(m),
                        NEW i \in get_instances_for_agent(AgentId) \ {Source[m]},
                        instances[i].range # None
                 PROVE  ~ Covers(instances[i].range, TotalLength[m])
      OBVIOUS
    <2>1. migrating \in [MigrateCall -> Migration]
      BY DEF RoutingInv, RoutingTypeOK
    <2>2. migrating' # migrating
      BY "idle" # "none"
    <2>3. PICK n \in MigrateCall, new \in Migration :
             /\ migrating' = [migrating EXCEPT ![n] = new]
             /\ MigrateBegin(n) \/ migrating[n].stage # "idle"
      BY <2>2, RoutingCases
    <2>4. n = m
      BY <2>1, <2>3
    <2>5. MigrateBegin(m)
      BY <2>3, <2>4
    <2>6. PICK call \in Migration :
             /\ migrating' = [migrating EXCEPT ![m] = call]
             /\ call.stage = "none" /\ Outgrown(m) => MigrationCandidates(m) = {}
      BY <2>5, MigrateBeginDef DEF RoutingInv
    <2>7. MigrationCandidates(m) = {}
      BY <2>1, <2>6
    <2> QED BY <2>7, NoOtherCovers DEF RoutingInv
  <1>2. RoutingSpec => [][GivesUpRightly]_allVars
    BY <1>1, RoutingInvariant, PTL DEF RoutingSpec
  <1> QED BY <1>2 DEF NoMissedMigration
=============================================================================
