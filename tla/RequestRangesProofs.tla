------------------------ MODULE RequestRangesProofs ------------------------
(* Theorems about RequestRanges, for every trace, step and number of ranges. *)
EXTENDS RequestRanges, FiniteSetTheorems, FunctionTheorems, TLAPS

\* The context length of a call.
At(c) == trace[c[1]][c[2]]

\* The calls of the trace whose context length is in the range (a, b).
Within(a, b) == {c \in Calls(trace) : a * Step <= At(c) /\ At(c) <= b * Step}

TraceOK ==
    /\ trace \in [Nodes -> Seq(Contexts)]
    /\ \A n \in Nodes : Len(trace[n]) <= MaxCalls

RangeOK == lo \in Nat /\ hi \in Nat

\* What the loop has counted so far: of the calls it has seen, those in range,
\* and of these the ones that leave.
ScanExact ==
    /\ todo \subseteq Calls(trace)
    /\ calls = Within(lo, hi) \ todo
    /\ outs = {c \in calls : Leaves(c)}

\* What it had counted at the end of each earlier range.
CountedExact ==
    /\ counted \in Seq([lo : Nat, hi : Nat, calls : SUBSET Calls(trace)])
    /\ \A i \in DOMAIN counted :
          counted[i].calls = Within(counted[i].lo, counted[i].hi)

RangesInv == TraceOK /\ RangeOK /\ ScanExact /\ CountedExact

\* A call of the trace has a natural number as its context length.
LEMMA CallAt ==
    ASSUME TraceOK, NEW c \in Calls(trace)
    PROVE  /\ c[1] \in Nodes /\ c[2] \in 1..MaxCalls /\ c[2] <= Len(trace[c[1]])
           /\ c = <<c[1], c[2]>> /\ At(c) \in Nat
  <1>1. c[1] \in Nodes /\ c[2] \in 1..MaxCalls /\ c[2] <= Len(trace[c[1]])
        /\ c = <<c[1], c[2]>>
    BY DEF Calls
  <1>2. MaxCalls \in Nat /\ Step * MaxIdx \in Nat
    BY RangesAssumption
  <1>3. trace[c[1]] \in Seq(Contexts) /\ c[2] \in 1..Len(trace[c[1]])
    BY <1>1, <1>2 DEF TraceOK
  <1>4. At(c) \in Contexts
    BY <1>3 DEF At
  <1> QED BY <1>1, <1>2, <1>4 DEF Contexts

\* Being in range is being in Within.
LEMMA WithinRange ==
    ASSUME TraceOK, NEW c \in Calls(trace)
    PROVE  c \in Within(lo, hi) <=> InRange(At(c))
  BY DEF Within, InRange

\* The invariant holds initially.
LEMMA InitRanges == Init => RangesInv
  <1> SUFFICES ASSUME Init PROVE RangesInv
    OBVIOUS
  <1>1. TraceOK
    <2>1. ASSUME NEW n \in Nodes
          PROVE  trace[n] \in Seq(Contexts) /\ Len(trace[n]) <= MaxCalls
      <3>1. PICK k \in 0..MaxCalls : trace[n] \in [1..k -> Contexts]
        BY DEF Init
      <3>2. k \in Nat /\ k <= MaxCalls
        BY <3>1, RangesAssumption
      <3>3. trace[n] \in Seq(Contexts) /\ Len(trace[n]) = k
        BY <3>1, <3>2
      <3> QED BY <3>2, <3>3
    <2>2. trace \in [Nodes -> Seq(Contexts)]
      <3>1. DOMAIN trace = Nodes /\ trace = [n \in Nodes |-> trace[n]]
        BY DEF Init
      <3> QED BY <2>1, <3>1
    <2> QED BY <2>1, <2>2 DEF TraceOK
  <1>2. RangeOK
    BY DEF Init, RangeOK
  <1>3. ScanExact
    BY DEF Init, ScanExact, Within
  <1>4. CountedExact
    BY DEF Init, CountedExact
  <1> QED BY <1>1, <1>2, <1>3, <1>4 DEF RangesInv

\* Every step keeps the invariant.
LEMMA RangesStep == RangesInv /\ [Next]_vars => RangesInv'
  <1> SUFFICES ASSUME RangesInv, [Next]_vars PROVE RangesInv'
    OBVIOUS
  <1>0. TraceOK /\ RangeOK /\ ScanExact /\ CountedExact
    BY DEF RangesInv
  <1>1. CASE Scan
    <2> DEFINE c == CHOOSE c \in todo : TRUE
    <2>1. c \in todo /\ c \in Calls(trace)
      BY <1>0, <1>1 DEF Scan, ScanExact
    <2>2. /\ todo' = todo \ {c}
          /\ calls' = IF InRange(At(c)) THEN calls \cup {c} ELSE calls
          /\ outs' = IF InRange(At(c)) /\ Leaves(c) THEN outs \cup {c} ELSE outs
          /\ UNCHANGED <<trace, lo, hi, counted>>
      BY <1>1 DEF Scan, At
    <2> HIDE DEF c
    <2>3. TraceOK' /\ RangeOK' /\ CountedExact'
      BY <1>0, <2>2 DEF TraceOK, RangeOK, CountedExact, Within, At
    <2>4. c \in Within(lo, hi) <=> InRange(At(c))
      BY <1>0, <2>1, WithinRange
    <2>5. Within(lo, hi)' = Within(lo, hi)
      BY <2>2 DEF Within, At
    <2>6. calls' = Within(lo, hi) \ todo'
      BY <1>0, <2>1, <2>2, <2>4 DEF ScanExact
    <2>7. \A d : Leaves(d)' <=> Leaves(d)
      BY <2>2 DEF Leaves, InRange
    <2>8. outs' = {d \in calls' : Leaves(d)}
      BY <1>0, <2>1, <2>2 DEF ScanExact
    <2>9. ScanExact'
      BY <1>0, <2>2, <2>5, <2>6, <2>7, <2>8 DEF ScanExact
    <2> QED BY <2>3, <2>9 DEF RangesInv
  <1>2. CASE NextRange
    <2>1. TraceOK'
      BY <1>0, <1>2 DEF NextRange, TraceOK
    <2>2. RangeOK'
      BY <1>0, <1>2 DEF NextRange, RangeOK
    <2>3. ScanExact'
      BY <1>2 DEF NextRange, ScanExact, Within
    <2>4. CountedExact'
      <3> DEFINE e == [lo |-> lo, hi |-> hi, calls |-> calls]
      <3>1. calls = Within(lo, hi) /\ trace' = trace /\ counted' = Append(counted, e)
        BY <1>0, <1>2 DEF NextRange, ScanExact
      <3>2. /\ e \in [lo : Nat, hi : Nat, calls : SUBSET Calls(trace)]
            /\ e.calls = Within(e.lo, e.hi)
        BY <1>0, <3>1 DEF RangeOK, Within
      <3> HIDE DEF e
      <3>3. counted' \in Seq([lo : Nat, hi : Nat, calls : SUBSET Calls(trace)])
        BY <1>0, <3>1, <3>2 DEF CountedExact
      <3>4. \A i \in DOMAIN counted' :
               counted'[i] = e \/ (i \in DOMAIN counted /\ counted'[i] = counted[i])
        BY <1>0, <3>1, <3>2 DEF CountedExact
      <3>5. \A a, b : Within(a, b)' = Within(a, b)
        BY <3>1 DEF Within, At
      <3>6. \A i \in DOMAIN counted' :
               counted'[i].calls = Within(counted'[i].lo, counted'[i].hi)
        BY <1>0, <3>2, <3>4 DEF CountedExact
      <3> QED BY <3>1, <3>3, <3>5, <3>6 DEF CountedExact
    <2> QED BY <2>1, <2>2, <2>3, <2>4 DEF RangesInv
  <1>3. CASE UNCHANGED vars
    <2>1. TraceOK' /\ RangeOK' /\ CountedExact'
      BY <1>0, <1>3 DEF vars, TraceOK, RangeOK, CountedExact, Within, At
    <2>2. ScanExact'
      BY <1>0, <1>3 DEF vars, ScanExact, Within, At, Leaves, InRange
    <2> QED BY <2>1, <2>2 DEF RangesInv
  <1> QED BY <1>1, <1>2, <1>3 DEF Next

\* What _compute_range_stats has counted is a function of the range, at any
\* point of its loop and for every range done before.
THEOREM RangesInvariant == Spec => []RangesInv
  BY InitRanges, RangesStep, PTL DEF Spec
-----------------------------------------------------------------------------
\* Two adjacent ranges cover the calls of their union, and share exactly those
\* whose context length is their common bound.
THEOREM RangesCover == Spec => []NoGap
  <1>1. RangesInv => NoGap
    <2> SUFFICES ASSUME RangesInv, todo = {},
                        NEW i \in DOMAIN counted, counted[i].hi = lo,
                        NEW c \in Calls(trace),
                        counted[i].lo * Step <= At(c), At(c) <= hi * Step
                 PROVE  /\ c \in calls \cup counted[i].calls
                        /\ c \in calls \cap counted[i].calls <=> At(c) = lo * Step
      BY DEF NoGap, At
    <2>1. At(c) \in Nat /\ lo * Step \in Nat
      BY CallAt, RangesAssumption DEF RangesInv, RangeOK
    <2>2. /\ c \in calls <=> lo * Step <= At(c) /\ At(c) <= hi * Step
          /\ c \in counted[i].calls <=>
                counted[i].lo * Step <= At(c) /\ At(c) <= lo * Step
      BY DEF RangesInv, ScanExact, CountedExact, Within
    <2> QED BY <2>1, <2>2
  <1> QED BY <1>1, RangesInvariant, PTL
-----------------------------------------------------------------------------
(* Outputs are visits.  Ends and starts of visits are equally many because   *)
(* the other calls of a range correspond one to one: the successor of a call *)
(* that does not leave is a call that does not enter.                        *)

\* Two subsets of a finite set have one size when their complements do.
LEMMA SameComplement ==
    ASSUME NEW A, IsFiniteSet(A), NEW E \in SUBSET A, NEW S \in SUBSET A,
           Cardinality(A \ E) = Cardinality(A \ S)
    PROVE  Cardinality(E) = Cardinality(S)
  <1>1. ASSUME NEW X \in SUBSET A
        PROVE  Cardinality(A) = Cardinality(X) + Cardinality(A \ X)
               /\ Cardinality(X) \in Nat /\ Cardinality(A \ X) \in Nat
    <2>1. IsFiniteSet(X) /\ IsFiniteSet(A \ X)
      <3>1. A \ X \in SUBSET A
        OBVIOUS
      <3> QED BY <3>1, FS_Subset
    <2>2. Cardinality(X \cup (A \ X)) =
             Cardinality(X) + Cardinality(A \ X) - Cardinality(X \cap (A \ X))
      BY <2>1, FS_Union
    <2>3. X \cup (A \ X) = A /\ X \cap (A \ X) = {}
      OBVIOUS
    <2>4. Cardinality(X) \in Nat /\ Cardinality(A \ X) \in Nat
      BY <2>1, FS_CardinalityType
    <2>5. Cardinality(A) = Cardinality(X) + Cardinality(A \ X) - 0
      BY <2>2, <2>3, FS_EmptySet, Zenon
    <2> QED BY <2>4, <2>5
  <1>2. Cardinality(A) = Cardinality(E) + Cardinality(A \ E)
        /\ Cardinality(E) \in Nat /\ Cardinality(A \ E) \in Nat
    BY <1>1
  <1>3. Cardinality(A) = Cardinality(S) + Cardinality(A \ S)
        /\ Cardinality(S) \in Nat /\ Cardinality(A \ S) \in Nat
    BY <1>1
  <1> QED BY <1>2, <1>3

\* The calls of a trace are finitely many.
LEMMA CallsFinite == IsFiniteSet(Calls(trace))
  <1>1. IsFiniteSet(Nodes) /\ IsFiniteSet(1..MaxCalls)
    BY RangesAssumption, FS_Interval
  <1>2. IsFiniteSet(Nodes \X (1..MaxCalls))
    BY <1>1, FS_Product
  <1>3. Calls(trace) \in SUBSET (Nodes \X (1..MaxCalls))
    BY DEF Calls
  <1> QED BY <1>2, <1>3, FS_Subset

\* A call that enters the range: the node's previous one was not in it.
Enters(c) == c[2] = 1 \/ ~InRange(trace[c[1]][c[2] - 1])

\* out_proportion counts one output for every visit of a node to the range.
THEOREM OutsCountVisits == Spec => []OutsAreVisits
  <1>1. RangesInv => OutsAreVisits
    <2> SUFFICES ASSUME RangesInv, todo = {}
                 PROVE  Cardinality(outs) = Cardinality({c \in calls : Enters(c)})
      BY DEF OutsAreVisits, Enters
    <2> DEFINE E == {c \in calls : Leaves(c)}
               S == {c \in calls : Enters(c)}
               succ == [c \in calls \ E |-> <<c[1], c[2] + 1>>]
    <2>0. TraceOK
      BY DEF RangesInv
    <2>1. outs = E /\ E \in SUBSET calls /\ S \in SUBSET calls
      BY DEF RangesInv, ScanExact
    <2>2. \A c : c \in calls <=> c \in Calls(trace) /\ InRange(At(c))
      BY <2>0, WithinRange DEF RangesInv, ScanExact, Within
    <2>3. IsFiniteSet(calls)
      <3>1. calls \in SUBSET Calls(trace)
        BY <2>2
      <3> QED BY <3>1, CallsFinite, FS_Subset
    <2>4. ASSUME NEW c \in calls \ E
          PROVE  <<c[1], c[2] + 1>> \in calls \ S
      <3>1. /\ c[1] \in Nodes /\ c[2] \in 1..MaxCalls /\ c \in calls
            /\ c[2] < Len(trace[c[1]]) /\ InRange(trace[c[1]][c[2] + 1])
            /\ InRange(At(c))
        BY <2>0, <2>2, CallAt DEF Leaves
      <3>2. Len(trace[c[1]]) \in Nat /\ Len(trace[c[1]]) <= MaxCalls /\ MaxCalls \in Nat
        BY <2>0, <3>1, RangesAssumption DEF TraceOK
      <3>3. c[2] + 1 \in 1..MaxCalls /\ c[2] + 1 <= Len(trace[c[1]])
        BY <3>1, <3>2
      <3>4. <<c[1], c[2] + 1>> \in calls
        BY <2>2, <3>1, <3>3 DEF Calls, At
      <3>5. c[2] + 1 # 1 /\ (c[2] + 1) - 1 = c[2]
        BY <3>1
      <3>6. ~ Enters(<<c[1], c[2] + 1>>)
        BY <3>1, <3>5 DEF Enters, At
      <3> QED BY <3>4, <3>6
    <2>5. ASSUME NEW d \in calls \ S
          PROVE  \E c \in calls \ E : <<c[1], c[2] + 1>> = d
      <3>1. /\ d[1] \in Nodes /\ d[2] \in 1..MaxCalls /\ d \in calls
            /\ d[2] <= Len(trace[d[1]]) /\ d = <<d[1], d[2]>>
            /\ d[2] # 1 /\ InRange(trace[d[1]][d[2] - 1]) /\ InRange(At(d))
        BY <2>0, <2>2, CallAt DEF Enters
      <3> DEFINE c == <<d[1], d[2] - 1>>
      <3>2. Len(trace[d[1]]) \in Nat /\ MaxCalls \in Nat
        BY <2>0, <3>1, RangesAssumption DEF TraceOK
      <3>3. d[2] - 1 \in 1..MaxCalls /\ d[2] - 1 < Len(trace[d[1]])
            /\ (d[2] - 1) + 1 = d[2]
        BY <3>1, <3>2
      <3>4. c \in calls
        BY <2>2, <3>1, <3>3 DEF Calls, At
      <3>5. ~ Leaves(c)
        BY <3>1, <3>3 DEF Leaves, At
      <3>6. <<c[1], c[2] + 1>> = d
        BY <3>1, <3>3
      <3> QED BY <3>4, <3>5, <3>6
    <2>6. succ \in Bijection(calls \ E, calls \ S)
      <3>1. succ \in [calls \ E -> calls \ S]
        BY <2>4
      <3>2. ASSUME NEW c \in calls \ E, NEW d \in calls \ E, succ[c] = succ[d]
            PROVE  c = d
        <4>1. c = <<c[1], c[2]>> /\ d = <<d[1], d[2]>> /\ c[2] \in Int /\ d[2] \in Int
          BY <2>0, <2>2, CallAt
        <4>2. c[1] = d[1] /\ c[2] + 1 = d[2] + 1
          BY <3>2
        <4> QED BY <4>1, <4>2
      <3>3. \A d \in calls \ S : \E c \in calls \ E : succ[c] = d
        BY <2>5
      <3> HIDE DEF succ, E, S
      <3> QED BY <3>1, <3>2, <3>3, Fun_IsBij
    <2>7. Cardinality(calls \ E) = Cardinality(calls \ S)
      <3>1. ExistsBijection(calls \ E, calls \ S)
        BY <2>6 DEF ExistsBijection
      <3>2. IsFiniteSet(calls \ E)
        <4>1. calls \ E \in SUBSET calls
          OBVIOUS
        <4> HIDE DEF E
        <4> QED BY <2>3, <4>1, FS_Subset
      <3> HIDE DEF E, S
      <3> QED BY <3>1, <3>2, FS_Bijection
    <2> HIDE DEF E, S
    <2>8. Cardinality(E) = Cardinality(S)
      BY <2>1, <2>3, <2>7, SameComplement
    <2> QED BY <2>1, <2>8 DEF S
  <1> QED BY <1>1, RangesInvariant, PTL
=============================================================================
