---------------------- MODULE ResourceAllocationProofs ----------------------
(***************************************************************************)
(* Proofs about ResourceAllocation, for every set of agents, every table   *)
(* of throughputs, every budget and every number of groups.                *)
(***************************************************************************)
EXTENDS ResourceAllocation, Induction, FiniteSetTheorems

(***************************************************************************)
(* Sums.                                                                   *)
(***************************************************************************)
Chosen(s) == CHOOSE x \in s : TRUE

\* g solves, for the subsets in K, the recursion by which SumFunction is defined.
SumSolves(g, f, K) ==
    g = [s \in K |-> IF s = {} THEN 0 ELSE f[Chosen(s)] + g[s \ {Chosen(s)}]]

\* g sums f over the subsets of D, whichever element is counted first.
Adds(g, f, D) ==
    /\ g \in [SUBSET D -> Nat] /\ g[{}] = 0
    /\ \A s \in SUBSET D : \A x \in s : g[s] = f[x] + g[s \ {x}]

UpToSize(D, k) == {s \in SUBSET D : Cardinality(s) <= k}

\* The recursion has a solution.
LEMMA SumSolution ==
    ASSUME NEW D, IsFiniteSet(D), NEW f
    PROVE  \E g : SumSolves(g, f, SUBSET D)
  <1> DEFINE n == Cardinality(D)
             S == {k \in 0..n : \E g : SumSolves(g, f, UpToSize(D, k))}
  <1>0. n \in Nat
    BY SubsetSizes
  <1>1. 0 \in S
    <2> DEFINE g == [s \in UpToSize(D, 0) |-> 0]
    <2>1. \A s \in UpToSize(D, 0) : s = {}
      BY SubsetSizes DEF UpToSize
    <2>2. SumSolves(g, f, UpToSize(D, 0))
      BY <2>1 DEF SumSolves
    <2> HIDE DEF g
    <2>3. 0 \in 0..n
      BY <1>0
    <2> QED BY <2>2, <2>3, Zenon
  <1>2. ASSUME NEW k \in 1..n, k - 1 \in S PROVE k \in S
    <2>1. PICK h : SumSolves(h, f, UpToSize(D, k - 1))
      BY <1>2
    <2> DEFINE g == [s \in UpToSize(D, k) |->
                       IF s = {} THEN 0 ELSE f[Chosen(s)] + h[s \ {Chosen(s)}]]
    <2>2. ASSUME NEW s \in UpToSize(D, k), s # {}
          PROVE  g[s \ {Chosen(s)}] = h[s \ {Chosen(s)}]
      <3> DEFINE u == s \ {Chosen(s)}
      <3>1. Chosen(s) \in s
        BY <2>2 DEF Chosen
      <3>2. u \in SUBSET D /\ Cardinality(u) = Cardinality(s) - 1 /\ Cardinality(s) \in Nat
            /\ Cardinality(s) <= k
        BY <3>1, SubsetSizes DEF UpToSize
      <3>3. u \in UpToSize(D, k - 1) /\ u \in UpToSize(D, k)
        <4> HIDE DEF u
        <4> QED BY <1>0, <3>2 DEF UpToSize
      <3> HIDE DEF u
      <3>4. h[u] = IF u = {} THEN 0 ELSE f[Chosen(u)] + h[u \ {Chosen(u)}]
        BY <2>1, <3>3, Zenon DEF SumSolves
      <3>5. g[u] = IF u = {} THEN 0 ELSE f[Chosen(u)] + h[u \ {Chosen(u)}]
        BY <3>3
      <3> QED BY <3>4, <3>5 DEF u
    <2>3. g = [s \in UpToSize(D, k) |-> IF s = {} THEN 0 ELSE f[Chosen(s)] + g[s \ {Chosen(s)}]]
      <3>1. \A s \in UpToSize(D, k) :
               g[s] = IF s = {} THEN 0 ELSE f[Chosen(s)] + h[s \ {Chosen(s)}]
        OBVIOUS
      <3>2. DOMAIN g = UpToSize(D, k) /\ g = [s \in UpToSize(D, k) |-> g[s]]
        OBVIOUS
      <3> HIDE DEF g
      <3>3. \A s \in UpToSize(D, k) :
               g[s] = IF s = {} THEN 0 ELSE f[Chosen(s)] + g[s \ {Chosen(s)}]
        BY <2>2, <3>1
      <3> QED BY <3>2, <3>3
    <2>4. SumSolves(g, f, UpToSize(D, k))
      BY <2>3 DEF SumSolves
    <2> HIDE DEF g
    <2>5. k \in 0..n
      BY <1>0
    <2> QED BY <2>4, <2>5, Zenon
  <1>3. n \in S
    <2>1. \A k \in 1..n : k - 1 \in S => k \in S
      BY <1>2
    <2>2. n \in 0..n
      BY <1>0
    <2> HIDE DEF S, n
    <2> QED BY <1>0, <1>1, <2>1, <2>2, UpTo
  <1>4. UpToSize(D, n) = SUBSET D
    BY <1>0, SubsetSizes DEF UpToSize
  <1> QED BY <1>3, <1>4

\* SumFunction adds up the values, whatever order CHOOSE takes them in.
LEMMA SumAdds ==
    ASSUME NEW D, IsFiniteSet(D), NEW f \in [D -> Nat]
    PROVE  \E g : Adds(g, f, D) /\ SumFunction(f) = g[D]
  <1> DEFINE g == CHOOSE x : SumSolves(x, f, SUBSET D)
             n == Cardinality(D)
  <1>1. SumSolves(g, f, SUBSET D)
    BY SumSolution, Zenon
  <1>2. SumFunction(f) = g[D]
    BY DEF SumFunction, SumFunctionOnSet, FoldFunctionOnSet, MapThenFoldSet, SumSolves, Chosen
  <1> HIDE DEF g
  <1>3. DOMAIN g = SUBSET D /\ g = [s \in SUBSET D |-> g[s]]
        /\ \A s \in SUBSET D : g[s] = IF s = {} THEN 0 ELSE f[Chosen(s)] + g[s \ {Chosen(s)}]
    BY <1>1, Zenon DEF SumSolves
  <1> DEFINE good(s) == g[s] \in Nat /\ \A x \in s : g[s] = f[x] + g[s \ {x}]
             S == {k \in 0..n : \A s \in SUBSET D : Cardinality(s) <= k => good(s)}
  <1>4. n \in Nat
    BY SubsetSizes
  <1>5. 0 \in S
    <2>1. ASSUME NEW s \in SUBSET D, Cardinality(s) <= 0 PROVE good(s)
      <3>1. s = {}
        <4>1. Cardinality(s) \in 0..n
          BY SubsetSizes
        <4>2. Cardinality(s) = 0
          BY <1>4, <2>1, <4>1
        <4> QED BY <4>2, SubsetSizes
      <3>2. g[s] = 0
        BY <1>3, <3>1
      <3> QED BY <3>1, <3>2
    <2> HIDE DEF good
    <2> QED BY <1>4, <2>1
  <1>6. ASSUME NEW k \in 1..n, k - 1 \in S PROVE k \in S
    <2>0. \A s \in SUBSET D : Cardinality(s) <= k - 1 => good(s)
      BY <1>6
    <2> HIDE DEF S
    <2>1. ASSUME NEW s \in SUBSET D, Cardinality(s) <= k, s # {} PROVE good(s)
      <3> DEFINE c == Chosen(s)
      <3>2. c \in s /\ c \in D /\ f[c] \in Nat
        BY <2>1 DEF Chosen
      <3>3. g[s] = f[c] + g[s \ {c}]
        BY <1>3, <2>1
      <3> HIDE DEF c, good
      <3>4. ASSUME NEW x \in s PROVE good(s \ {x})
        <4>1. s \ {x} \in SUBSET D /\ Cardinality(s \ {x}) = Cardinality(s) - 1
              /\ Cardinality(s) \in 0..n
          BY SubsetSizes
        <4>2. Cardinality(s \ {x}) <= k - 1
          BY <1>4, <2>1, <4>1
        <4> QED BY <2>0, <4>1, <4>2
      <3>5. g[s \ {c}] \in Nat
        BY <3>2, <3>4 DEF good
      <3>6. ASSUME NEW x \in s PROVE g[s] = f[x] + g[s \ {x}]
        <4>1. CASE x = c
          BY <3>3, <4>1
        <4>2. CASE x # c
          <5>1. x \in s \ {c} /\ c \in s \ {x} /\ (s \ {c}) \ {x} = (s \ {x}) \ {c}
                /\ x \in D /\ f[x] \in Nat
            BY <3>2, <4>2
          <5> DEFINE r == (s \ {x}) \ {c}
          <5>3. g[s \ {c}] = f[x] + g[r] /\ g[s \ {x}] = f[c] + g[r]
            BY <3>2, <3>4, <5>1 DEF good
          <5>4. g[r] \in Nat
            <6>1. s \ {x} \in SUBSET D /\ Cardinality(s \ {x}) = Cardinality(s) - 1
                  /\ Cardinality(s) \in 0..n
              BY SubsetSizes
            <6>2. r \in SUBSET D /\ Cardinality(r) = Cardinality(s \ {x}) - 1
              <7> DEFINE u == s \ {x}
              <7>1. u \in SUBSET D /\ c \in u
                BY <5>1, <6>1
              <7> HIDE DEF u
              <7>2. u \ {c} \in SUBSET D /\ Cardinality(u \ {c}) = Cardinality(u) - 1
                BY <7>1, SubsetSizes
              <7> QED BY <7>2 DEF u
            <6> HIDE DEF r
            <6>3. Cardinality(r) <= k - 1
              BY <1>4, <2>1, <6>1, <6>2
            <6>4. good(r)
              BY <2>0, <6>2, <6>3
            <6> QED BY <6>4 DEF good
          <5> HIDE DEF r
          <5> QED BY <3>2, <3>3, <5>1, <5>3, <5>4
        <4> QED BY <4>1, <4>2
      <3>7. g[s] \in Nat
        BY <3>2, <3>3, <3>5
      <3> QED BY <3>6, <3>7 DEF good
    <2>2. good({})
      <3>1. {} \in SUBSET D /\ g[{}] = 0
        BY <1>3
      <3> QED BY <3>1
    <2> HIDE DEF good
    <2>3. \A s \in SUBSET D : Cardinality(s) <= k => good(s)
      BY <2>1, <2>2
    <2> QED BY <1>4, <2>3 DEF S
  <1>7. \A k \in 0..n : k \in S
    <2>1. \A k \in 1..n : k - 1 \in S => k \in S
      BY <1>6
    <2> HIDE DEF S, n
    <2> QED BY <1>4, <1>5, <2>1, UpTo
  <1>8. ASSUME NEW s \in SUBSET D PROVE good(s)
    <2>1. Cardinality(s) \in 0..n
      BY SubsetSizes
    <2> HIDE DEF good
    <2>2. Cardinality(s) \in S /\ Cardinality(s) <= Cardinality(s)
      BY <1>4, <1>7, <2>1
    <2> QED BY <2>2
  <1>9. Adds(g, f, D)
    BY <1>3, <1>8 DEF Adds
  <1> QED BY <1>2, <1>9

\* Sums over the subsets of D: a function that is nowhere larger on a subset
\* has no larger sum over it.
LEMMA AddsOrder ==
    ASSUME NEW D, IsFiniteSet(D), NEW f \in [D -> Nat], NEW e \in [D -> Nat],
           NEW g, Adds(g, f, D), NEW h, Adds(h, e, D)
    PROVE  \A s \in SUBSET D : (\A x \in s : f[x] <= e[x]) => g[s] <= h[s]
  <1> DEFINE S == {s \in SUBSET D : (\A x \in s : f[x] <= e[x]) => g[s] <= h[s]}
  <1>1. {} \in S
    BY DEF Adds
  <1>2. ASSUME NEW s \in SUBSET D, NEW x \in s, s \ {x} \in S PROVE s \in S
    <2> SUFFICES ASSUME \A y \in s : f[y] <= e[y] PROVE g[s] <= h[s]
      OBVIOUS
    <2>1. g[s \ {x}] <= h[s \ {x}] /\ f[x] <= e[x]
      BY <1>2
    <2>2. g[s] = f[x] + g[s \ {x}] /\ h[s] = e[x] + h[s \ {x}]
      BY DEF Adds
    <2>3. g[s \ {x}] \in Nat /\ h[s \ {x}] \in Nat /\ f[x] \in Nat /\ e[x] \in Nat
      <3>1. s \ {x} \in SUBSET D /\ x \in D
        OBVIOUS
      <3> QED BY <3>1 DEF Adds
    <2> QED BY <2>1, <2>2, <2>3
  <1>3. \A s \in SUBSET D : s \in S
    <2>1. \A s \in SUBSET D : \A x \in s : s \ {x} \in S => s \in S
      BY <1>2
    <2> HIDE DEF S
    <2> QED BY <1>1, <2>1, SubsetInduction
  <1> QED BY <1>3

\* A sum is a natural number and no term is larger.
LEMMA SumBounds ==
    ASSUME NEW D, IsFiniteSet(D), NEW f \in [D -> Nat]
    PROVE  SumFunction(f) \in Nat /\ \A x \in D : f[x] <= SumFunction(f)
  <1>1. PICK g : Adds(g, f, D) /\ SumFunction(f) = g[D]
    BY SumAdds
  <1>2. D \in SUBSET D /\ g[D] \in Nat
    BY <1>1 DEF Adds
  <1>3. ASSUME NEW x \in D PROVE f[x] <= g[D]
    <2>1. g[D] = f[x] + g[D \ {x}] /\ g[D \ {x}] \in Nat /\ f[x] \in Nat
      BY <1>1, <1>2 DEF Adds
    <2> QED BY <2>1
  <1> QED BY <1>1, <1>2, <1>3

\* Adding to one term adds to the sum.
LEMMA SumUpdate ==
    ASSUME NEW D, IsFiniteSet(D), NEW f \in [D -> Nat], NEW x \in D, NEW d \in Nat,
           NEW e \in [D -> Nat], e[x] = f[x] + d, \A y \in D : y # x => e[y] = f[y]
    PROVE  SumFunction(e) = SumFunction(f) + d
  <1> DEFINE r == D \ {x}
  <1>1. e \in [D -> Nat] /\ e[x] = f[x] + d /\ \A y \in r : e[y] = f[y]
    OBVIOUS
  <1>2. PICK g : Adds(g, f, D) /\ SumFunction(f) = g[D]
    BY SumAdds
  <1>3. PICK h : Adds(h, e, D) /\ SumFunction(e) = h[D]
    BY <1>1, SumAdds
  <1>4. r \in SUBSET D /\ D \in SUBSET D
    OBVIOUS
  <1>5. \A y \in r : f[y] \in Nat /\ e[y] \in Nat /\ f[y] <= e[y] /\ e[y] <= f[y]
    BY <1>1
  <1>6. g[D] = f[x] + g[r] /\ h[D] = e[x] + h[r] /\ g[r] \in Nat /\ h[r] \in Nat
        /\ f[x] \in Nat
    BY <1>2, <1>3, <1>4 DEF Adds
  <1> HIDE DEF r
  <1>7. g[r] <= h[r] /\ h[r] <= g[r]
    BY <1>1, <1>2, <1>3, <1>4, <1>5, AddsOrder
  <1> QED BY <1>1, <1>2, <1>3, <1>6, <1>7

\* A sum of equal terms.
LEMMA SumConstant ==
    ASSUME NEW D, IsFiniteSet(D), NEW d \in Nat
    PROVE  SumFunction([x \in D |-> d]) = Cardinality(D) * d
  <1> DEFINE f == [x \in D |-> d]
  <1>1. f \in [D -> Nat] /\ \A x \in D : f[x] = d
    OBVIOUS
  <1> HIDE DEF f
  <1>2. PICK g : Adds(g, f, D) /\ SumFunction(f) = g[D]
    BY <1>1, SumAdds
  <1> DEFINE S == {s \in SUBSET D : g[s] = Cardinality(s) * d}
  <1>3. {} \in S
    BY <1>2, FS_EmptySet DEF Adds
  <1>4. ASSUME NEW s \in SUBSET D, NEW x \in s, s \ {x} \in S PROVE s \in S
    <2>1. g[s \ {x}] = Cardinality(s \ {x}) * d
      BY <1>4
    <2>2. g[s] = f[x] + g[s \ {x}] /\ f[x] = d
      BY <1>1, <1>2 DEF Adds
    <2>3. Cardinality(s \ {x}) = Cardinality(s) - 1 /\ Cardinality(s) \in Nat
      BY SubsetSizes
    <2>4. \A k \in Nat : d + (k - 1) * d = k * d
      OBVIOUS
    <2>5. g[s] = Cardinality(s) * d
      BY <2>1, <2>2, <2>3, <2>4
    <2> QED BY <2>5
  <1>5. \A s \in SUBSET D : s \in S
    <2>1. \A s \in SUBSET D : \A x \in s : s \ {x} \in S => s \in S
      BY <1>4
    <2> HIDE DEF S
    <2> QED BY <1>3, <2>1, SubsetInduction
  <1>6. D \in S
    BY <1>5
  <1> QED BY <1>2, <1>6 DEF f

\* A function with the same sum as another and nowhere larger is the same.
LEMMA SumTrade ==
    ASSUME NEW D, IsFiniteSet(D), NEW f \in [D -> Nat], NEW e \in [D -> Nat],
           SumFunction(f) = SumFunction(e), \A x \in D : f[x] <= e[x]
    PROVE  \A x \in D : f[x] = e[x]
  <1> SUFFICES ASSUME NEW x \in D, f[x] # e[x] PROVE FALSE
    OBVIOUS
  <1>1. PICK g : Adds(g, f, D) /\ SumFunction(f) = g[D]
    BY SumAdds
  <1>2. PICK h : Adds(h, e, D) /\ SumFunction(e) = h[D]
    BY SumAdds
  <1> DEFINE r == D \ {x}
  <1>3. r \in SUBSET D /\ D \in SUBSET D /\ \A y \in r : f[y] <= e[y]
    OBVIOUS
  <1>4. g[D] = f[x] + g[r] /\ h[D] = e[x] + h[r] /\ g[r] \in Nat /\ h[r] \in Nat
        /\ f[x] \in Nat /\ e[x] \in Nat
    BY <1>1, <1>2, <1>3 DEF Adds
  <1> HIDE DEF r
  <1>5. g[r] <= h[r]
    BY <1>1, <1>2, <1>3, AddsOrder
  <1>6. g[D] = h[D] /\ f[x] <= e[x]
    BY <1>1, <1>2
  <1> QED BY <1>4, <1>5, <1>6

-----------------------------------------------------------------------------
(***************************************************************************)
(* The greedy loop over one plan.                                          *)
(***************************************************************************)
\* scheme has k groups, and t a throughput for each.
Plan(t, scheme, k) ==
    /\ k \in Nat \ {0} /\ DOMAIN scheme = 1..k /\ Len(scheme) = k
    /\ \A j \in 1..k : t[scheme[j]] \in Nat

Rate(t, scheme, c, j) == c[j] * t[scheme[j]]

\* heappop takes a group that no other one is slower than.
LEMMA SlowestLeast ==
    ASSUME NEW t, NEW scheme, NEW k, Plan(t, scheme, k), NEW c \in [1..k -> Nat]
    PROVE  /\ Slowest(t, scheme, c) \in 1..k
           /\ \A i \in 1..k : Rate(t, scheme, c, Slowest(t, scheme, c)) <= Rate(t, scheme, c, i)
  <1> DEFINE V == {Rate(t, scheme, c, j) : j \in 1..k}
             Q == {j \in 1..k : \A i \in 1..k : Rate(t, scheme, c, j) <= Rate(t, scheme, c, i)}
  <1>1. \A j \in 1..k : Rate(t, scheme, c, j) \in Nat
    BY DEF Rate, Plan
  <1>2. V \subseteq Nat /\ V # {}
    BY <1>1 DEF Plan
  <1>3. PICK v \in V : \A y \in V : v <= y
    <2> HIDE DEF V
    <2> QED BY <1>2, LeastNat
  <1>4. Q # {} /\ Q \subseteq Nat
    BY <1>3
  <1>5. Slowest(t, scheme, c) = Min(Q)
    BY DEF Slowest, Rate, Plan
  <1>6. Min(Q) \in Q
    <2> HIDE DEF Q
    <2> QED BY <1>4, MinNat
  <1> QED BY <1>5, <1>6

\* The throughput of an assignment is that of its slowest group.
LEMMA MinThroughputLeast ==
    ASSUME NEW t, NEW scheme, NEW k, Plan(t, scheme, k), NEW c \in [1..k -> Nat]
    PROVE  /\ MinThroughput(t, scheme, c) \in Nat
           /\ \E j \in 1..k : MinThroughput(t, scheme, c) = Rate(t, scheme, c, j)
           /\ \A j \in 1..k : MinThroughput(t, scheme, c) <= Rate(t, scheme, c, j)
  <1> DEFINE V == {Rate(t, scheme, c, j) : j \in 1..k}
  <1>1. \A j \in 1..k : Rate(t, scheme, c, j) \in Nat
    BY DEF Rate, Plan
  <1>2. V \subseteq Nat /\ V # {}
    BY <1>1 DEF Plan
  <1>3. MinThroughput(t, scheme, c) = Min(V)
    BY DEF MinThroughput, Rate, Plan
  <1>4. Min(V) \in V /\ \A y \in V : Min(V) <= y
    <2> HIDE DEF V
    <2> QED BY <1>2, MinNat
  <1> QED BY <1>2, <1>3, <1>4

\* c solves the recursion of the greedy loop, for m rounds after the first.
CountsSolve(c, t, scheme, m) ==
    c = [i \in 0..m |->
            IF i = 0 THEN [j \in 1..Len(scheme) |-> 1]
            ELSE [c[i - 1] EXCEPT ![Slowest(t, scheme, c[i - 1])] = @ + 1]]

\* What a round of the greedy loop does.
GreedyRun(c, t, scheme, k, m) ==
    /\ c \in [0..m -> [1..k -> Nat]] /\ c[0] = [j \in 1..k |-> 1]
    /\ \A i \in 1..m :
         LET s == Slowest(t, scheme, c[i - 1])
         IN  s \in 1..k /\ c[i] = [c[i - 1] EXCEPT ![s] = c[i - 1][s] + 1]

\* The greedy loop runs from one instance per group to n instances.
LEMMA GreedyRuns ==
    ASSUME NEW t, NEW scheme, NEW k, Plan(t, scheme, k), NEW n \in Nat, k <= n
    PROVE  \E c : /\ GreedyRun(c, t, scheme, k, n - k)
                  /\ Greedy(t, scheme, n) =
                       [throughput |-> MinThroughput(t, scheme, c[n - k]),
                        scheme |-> scheme, counts |-> c[n - k]]
  <1> DEFINE m == n - k
             X == [1..k -> Nat]
             one == [j \in 1..k |-> 1]
             step(x) == [x EXCEPT ![Slowest(t, scheme, x)] = x[Slowest(t, scheme, x)] + 1]
             F == [p \in (1..m) \X X |-> step(p[2])]
  <1>1. m \in Nat /\ k \in Nat /\ Len(scheme) = k
    BY DEF Plan
  <1>2. \A x \in X : Slowest(t, scheme, x) \in 1..k /\ step(x) \in X
    <2>1. ASSUME NEW x \in X PROVE Slowest(t, scheme, x) \in 1..k
      BY SlowestLeast
    <2> QED BY <2>1
  <1>3. F \in [(1..m) \X X -> X] /\ \A i \in 1..m : \A x \in X : F[<<i, x>>] = step(x)
    <2> HIDE DEF X, step, m
    <2> QED BY <1>2
  <1>4. one \in X
    OBVIOUS
  <1>5. PICK b \in [0..m -> X] : b[0] = one /\ \A i \in 1..m : b[i] = F[<<i, b[i - 1]>>]
    <2>1. F \in [(1..m) \X X -> X]
      BY <1>3
    <2>2. m \in Nat
      BY <1>1
    <2> HIDE DEF F, X, one, m, step
    <2>3. \E b : Iteration(b, m, X, one, F)
      BY <1>4, <2>1, <2>2, Iterates, Zenon
    <2> QED BY <2>3 DEF Iteration
  <1>6. \A i \in 1..m : i - 1 \in 0..m /\ i \in 0..m /\ i # 0
    BY <1>1
  <1>7. CountsSolve(b, t, scheme, m)
    <2>1. \A i \in 1..m : b[i] = step(b[i - 1])
      <3> HIDE DEF F, X, step, one, m
      <3> QED BY <1>3, <1>5, <1>6
    <2>2. b = [i \in 0..m |-> b[i]]
      <3> HIDE DEF X, m
      <3> QED OBVIOUS
    <2>3. \A i \in 0..m : b[i] = IF i = 0 THEN one ELSE step(b[i - 1])
      <3>1. \A i \in 0..m : i = 0 \/ i \in 1..m
        BY <1>1
      <3> HIDE DEF step, one, X, m, F
      <3> QED BY <1>5, <2>1, <3>1
    <2>4. b = [i \in 0..m |-> IF i = 0 THEN one ELSE step(b[i - 1])]
      <3> HIDE DEF step, one, X, m, F
      <3> QED BY <2>2, <2>3
    <2> HIDE DEF m
    <2> QED BY <1>1, <2>4 DEF CountsSolve
  <1> DEFINE c == CHOOSE z : CountsSolve(z, t, scheme, m)
  <1>8. CountsSolve(c, t, scheme, m)
    <2> HIDE DEF m
    <2> QED BY <1>7, Zenon
  <1>9. Greedy(t, scheme, n) = [throughput |-> MinThroughput(t, scheme, c[m]),
                                scheme |-> scheme, counts |-> c[m]]
    BY <1>1 DEF Greedy, CountsSolve
  <1> HIDE DEF c
  <1>10. DOMAIN c = 0..m /\ c = [i \in 0..m |-> c[i]] /\ c[0] = one
         /\ \A i \in 1..m : c[i] = step(c[i - 1])
    <2>1. \A i \in 0..m : c[i] = IF i = 0 THEN one ELSE step(c[i - 1])
      <3> HIDE DEF m
      <3> QED BY <1>1, <1>8 DEF CountsSolve
    <2>2. 0 \in 0..m
      BY <1>1
    <2>3. DOMAIN c = 0..m /\ c = [i \in 0..m |-> c[i]]
      <3> HIDE DEF m
      <3> QED BY <1>8, Zenon DEF CountsSolve
    <2> HIDE DEF one, step, m
    <2> QED BY <1>6, <2>1, <2>2, <2>3
  <1> DEFINE S == {i \in 0..m : c[i] \in X}
  <1>11. \A i \in 0..m : i \in S
    <2>1. 0 \in S
      <3> HIDE DEF X, one, step, m
      <3>1. 0 \in 0..m
        BY <1>1
      <3> QED BY <1>4, <1>10, <3>1
    <2>2. \A i \in 1..m : i - 1 \in S => i \in S
      <3> HIDE DEF X, one, step, m
      <3> QED BY <1>2, <1>6, <1>10
    <2> HIDE DEF S, m
    <2> QED BY <1>1, <2>1, <2>2, UpTo
  <1>12. c \in [0..m -> X]
    <2>1. \A i \in 0..m : c[i] \in X
      BY <1>11
    <2> HIDE DEF X, m
    <2> QED BY <1>10, <2>1
  <1>13. \A i \in 1..m : Slowest(t, scheme, c[i - 1]) \in 1..k
    <2>1. \A i \in 1..m : c[i - 1] \in X
      <3> HIDE DEF X, m
      <3> QED BY <1>6, <1>12
    <2> HIDE DEF X, m
    <2> QED BY <1>2, <2>1
  <1>14. GreedyRun(c, t, scheme, k, m)
    BY <1>10, <1>12, <1>13 DEF GreedyRun
  <1> QED BY <1>9, <1>14

\* Multiplying by a natural number keeps the order.
LEMMA TimesOrder ==
    ASSUME NEW x \in Nat, NEW y \in Nat, NEW z \in Nat, x <= y
    PROVE  x * z \in Nat /\ y * z \in Nat /\ x * z <= y * z
  OBVIOUS

\* n instances over the groups such that no group that has several would, with
\* one less, still be faster than another.
Fair(a, t, scheme, k, n) ==
    /\ a \in [1..k -> Nat] /\ SumFunction(a) = n
    /\ \A j \in 1..k : a[j] >= 1
    /\ \A j, l \in 1..k : a[j] > 1 => (a[j] - 1) * t[scheme[j]] <= Rate(t, scheme, a, l)

\* A round of the greedy loop keeps the counts fair.
LEMMA FairStep ==
    ASSUME NEW t, NEW scheme, NEW k, Plan(t, scheme, k), NEW n \in Nat,
           NEW a, Fair(a, t, scheme, k, n)
    PROVE  LET s == Slowest(t, scheme, a)
           IN  Fair([a EXCEPT ![s] = a[s] + 1], t, scheme, k, n + 1)
  <1> DEFINE s == Slowest(t, scheme, a)
             b == [a EXCEPT ![s] = a[s] + 1]
  <1>1. a \in [1..k -> Nat] /\ k \in Nat
    BY DEF Fair, Plan
  <1>2. s \in 1..k /\ \A i \in 1..k : Rate(t, scheme, a, s) <= Rate(t, scheme, a, i)
    BY <1>1, SlowestLeast
  <1> HIDE DEF s
  <1>3. b \in [1..k -> Nat] /\ b[s] = a[s] + 1 /\ \A j \in 1..k : j # s => b[j] = a[j]
    BY <1>1, <1>2
  <1>4. SumFunction(b) = n + 1
    <2>1. IsFiniteSet(1..k)
      BY <1>1, FS_Interval
    <2>2. SumFunction(b) = SumFunction(a) + 1
      <3> DEFINE D == 1..k
      <3>1. /\ s \in D /\ a \in [D -> Nat] /\ IsFiniteSet(D) /\ 1 \in Nat
            /\ b \in [D -> Nat] /\ b[s] = a[s] + 1 /\ \A j \in D : j # s => b[j] = a[j]
        BY <1>1, <1>2, <1>3, <2>1
      <3> HIDE DEF D, b
      <3> QED BY <3>1, SumUpdate
    <2> QED BY <2>2 DEF Fair
  <1> HIDE DEF b
  <1>5. \A j \in 1..k : a[j] \in Nat /\ b[j] \in Nat /\ a[j] <= b[j] /\ a[j] >= 1
    <2>1. \A j \in 1..k : a[j] \in Nat /\ b[j] \in Nat /\ a[j] >= 1
      BY <1>1, <1>3 DEF Fair
    <2>2. \A j \in 1..k : a[j] <= b[j]
      BY <1>3, <2>1
    <2> QED BY <2>1, <2>2
  <1>6. \A j \in 1..k : b[j] >= 1
    BY <1>5
  <1>7. ASSUME NEW l \in 1..k
        PROVE  /\ Rate(t, scheme, a, l) <= Rate(t, scheme, b, l)
               /\ Rate(t, scheme, a, l) \in Nat /\ Rate(t, scheme, b, l) \in Nat
    <2>1. t[scheme[l]] \in Nat
      BY DEF Plan
    <2> QED BY <1>5, <2>1, TimesOrder DEF Rate
  <1>8. ASSUME NEW j \in 1..k, NEW l \in 1..k, b[j] > 1
        PROVE  (b[j] - 1) * t[scheme[j]] <= Rate(t, scheme, b, l)
    <2>1. (b[j] - 1) * t[scheme[j]] <= Rate(t, scheme, a, l)
      <3>1. CASE j = s
        <4>1. b[j] - 1 = a[s]
          BY <1>2, <1>3, <1>5, <3>1
        <4>2. Rate(t, scheme, a, s) <= Rate(t, scheme, a, l)
          BY <1>2
        <4> QED BY <3>1, <4>1, <4>2 DEF Rate
      <3>2. CASE j # s
        BY <1>3, <1>8, <3>2 DEF Fair
      <3> QED BY <3>1, <3>2
    <2>2. (b[j] - 1) * t[scheme[j]] \in Nat
      <3>1. b[j] - 1 \in Nat /\ t[scheme[j]] \in Nat
        BY <1>5, <1>8 DEF Plan
      <3> QED BY <3>1, TimesOrder
    <2> QED BY <1>7, <2>1, <2>2
  <1>9. Fair(b, t, scheme, k, n + 1)
    BY <1>3, <1>4, <1>6, <1>8 DEF Fair
  <1> QED BY <1>9 DEF b, s

\* The greedy loop ends with fair counts.
LEMMA GreedyFair ==
    ASSUME NEW t, NEW scheme, NEW k, Plan(t, scheme, k), NEW n \in Nat, k <= n
    PROVE  \E a : /\ Fair(a, t, scheme, k, n)
                  /\ Greedy(t, scheme, n) =
                       [throughput |-> MinThroughput(t, scheme, a),
                        scheme |-> scheme, counts |-> a]
  <1>0. k \in Nat /\ n - k \in Nat /\ k + (n - k) = n
    BY DEF Plan
  <1>1. PICK c : /\ GreedyRun(c, t, scheme, k, n - k)
                 /\ Greedy(t, scheme, n) =
                       [throughput |-> MinThroughput(t, scheme, c[n - k]),
                        scheme |-> scheme, counts |-> c[n - k]]
    BY GreedyRuns
  <1> DEFINE m == n - k
             S == {i \in 0..m : Fair(c[i], t, scheme, k, k + i)}
  <1>2. 0 \in S
    <2> DEFINE one == [j \in 1..k |-> 1]
    <2>1. IsFiniteSet(1..k) /\ Cardinality(1..k) = k
      BY <1>0, FS_Interval
    <2>2. SumFunction(one) = k * 1 /\ one \in [1..k -> Nat]
      BY <2>1, SumConstant
    <2>3. \A j \in 1..k : one[j] = 1
      OBVIOUS
    <2> HIDE DEF one
    <2>4. SumFunction(one) = k
      BY <1>0, <2>2
    <2>5. Fair(one, t, scheme, k, k)
      BY <2>2, <2>3, <2>4 DEF Fair
    <2>6. c[0] = one
      BY <1>1 DEF GreedyRun, one
    <2>7. k + 0 = k /\ 0 \in 0..m
      BY <1>0
    <2> QED BY <2>5, <2>6, <2>7
  <1>3. ASSUME NEW i \in 1..m, i - 1 \in S PROVE i \in S
    <2>1. Fair(c[i - 1], t, scheme, k, k + (i - 1))
      BY <1>3
    <2>2. k + (i - 1) \in Nat /\ k + (i - 1) + 1 = k + i /\ i \in 0..m
      BY <1>0
    <2> DEFINE p == c[i - 1]
               r == k + (i - 1)
    <2>3. c[i] = [p EXCEPT ![Slowest(t, scheme, p)] = p[Slowest(t, scheme, p)] + 1]
      BY <1>1 DEF GreedyRun
    <2>4. Fair(p, t, scheme, k, r) /\ r \in Nat /\ r + 1 = k + i
      BY <2>1, <2>2
    <2> HIDE DEF p, r
    <2>5. Fair(c[i], t, scheme, k, r + 1)
      BY <2>3, <2>4, FairStep
    <2> QED BY <2>2, <2>4, <2>5
  <1>4. m \in S
    <2>1. \A i \in 1..m : i - 1 \in S => i \in S
      BY <1>3
    <2>2. m \in Nat /\ m \in 0..m
      BY <1>0
    <2> HIDE DEF S, m
    <2> QED BY <1>2, <2>1, <2>2, UpTo
  <1>5. Fair(c[m], t, scheme, k, n)
    BY <1>0, <1>4
  <1> QED BY <1>1, <1>5

\* Fair counts are the best ones.
LEMMA FairBest ==
    ASSUME NEW t, NEW scheme, NEW k, Plan(t, scheme, k), NEW n \in Nat,
           NEW a, Fair(a, t, scheme, k, n),
           NEW w \in [1..k -> Nat], \A j \in 1..k : w[j] >= 1, SumFunction(w) = n
    PROVE  MinThroughput(t, scheme, w) <= MinThroughput(t, scheme, a)
  <1>0. k \in Nat /\ a \in [1..k -> Nat] /\ SumFunction(a) = n
    BY DEF Plan, Fair
  <1>1. k \in Nat /\ a \in [1..k -> Nat] /\ SumFunction(a) = n /\ IsFiniteSet(1..k)
    <2>1. 1 \in Int /\ k \in Int
      BY <1>0
    <2>2. IsFiniteSet(1..k)
      BY <2>1, FS_Interval
    <2> QED BY <1>0, <2>2
  <1>2. PICK l \in 1..k : MinThroughput(t, scheme, a) = Rate(t, scheme, a, l)
    BY <1>1, MinThroughputLeast
  <1>3. \A j \in 1..k : MinThroughput(t, scheme, w) <= Rate(t, scheme, w, j)
    BY MinThroughputLeast
  <1>4. MinThroughput(t, scheme, w) \in Nat /\ MinThroughput(t, scheme, a) \in Nat
    BY <1>1, MinThroughputLeast
  <1>5. CASE \A j \in 1..k : a[j] <= w[j]
    <2>1. \A j \in 1..k : a[j] = w[j]
      <3> DEFINE D == 1..k
      <3>1. /\ IsFiniteSet(D) /\ a \in [D -> Nat] /\ w \in [D -> Nat]
            /\ SumFunction(a) = SumFunction(w) /\ \A j \in D : a[j] <= w[j]
        BY <1>1, <1>5
      <3> HIDE DEF D
      <3>2. \A j \in D : a[j] = w[j]
        BY <3>1, SumTrade, Zenon
      <3> QED BY <3>2 DEF D
    <2>2. Rate(t, scheme, w, l) = Rate(t, scheme, a, l)
      BY <2>1 DEF Rate
    <2> QED BY <1>2, <1>3, <2>2
  <1>6. CASE \E j \in 1..k : ~ (a[j] <= w[j])
    <2>1. PICK j \in 1..k : ~ (a[j] <= w[j])
      BY <1>6
    <2>2. /\ a[j] \in Nat /\ w[j] \in Nat /\ t[scheme[j]] \in Nat
          /\ a[j] - 1 \in Nat /\ w[j] <= a[j] - 1 /\ a[j] > 1
      <3>1. a[j] \in Nat /\ w[j] \in Nat /\ w[j] >= 1 /\ t[scheme[j]] \in Nat
        BY <1>1 DEF Plan
      <3> QED BY <2>1, <3>1
    <2>3. /\ w[j] * t[scheme[j]] \in Nat /\ (a[j] - 1) * t[scheme[j]] \in Nat
          /\ w[j] * t[scheme[j]] <= (a[j] - 1) * t[scheme[j]]
      BY <2>2, TimesOrder
    <2>4. (a[j] - 1) * t[scheme[j]] <= Rate(t, scheme, a, l)
      BY <2>2 DEF Fair
    <2>5. MinThroughput(t, scheme, w) <= w[j] * t[scheme[j]]
      BY <1>3 DEF Rate
    <2> QED BY <1>2, <1>4, <2>3, <2>4, <2>5
  <1> QED BY <1>5, <1>6
-----------------------------------------------------------------------------
(***************************************************************************)
(* The dynamic program.                                                    *)
(***************************************************************************)
\* The constants are positive, and Inf is above the cost of any plan.
LEMMA Sizes ==
    /\ MaxIdx \in Nat \ {0} /\ MinGroup \in Nat \ {0} /\ MaxGroup \in Nat \ {0}
    /\ GpuStep \in Nat \ {0} /\ Scale \in Nat \ {0}
    /\ Inf \in Nat \ {0} /\ \A j \in 0..MaxGroup : j * Scale < Inf
  <1>1. MaxIdx \in Nat \ {0} /\ MinGroup \in Nat \ {0} /\ MaxGroup \in Nat \ {0}
        /\ GpuStep \in Nat \ {0} /\ Scale \in Nat \ {0}
    BY AllocationAssumption
  <1>2. ASSUME NEW j \in 0..MaxGroup PROVE j * Scale < Scale * (MaxGroup + 1)
    BY <1>1
  <1>3. Scale * (MaxGroup + 1) \in Nat \ {0}
    BY <1>1
  <1> QED BY <1>1, <1>2, <1>3 DEF Inf

\* The cost of a range is a natural number up to Scale.
LEMMA CostBound ==
    ASSUME NEW t \in [Ranges -> Nat], NEW r \in Ranges, t[r] > 0
    PROVE  Cost(t, r) \in Nat /\ Cost(t, r) <= Scale
  <1>1. \A y \in Nat : \A x \in Nat \ {0} : y \div x \in Nat /\ y \div x <= y
    OBVIOUS
  <1>2. t[r] \in Nat \ {0} /\ Scale \in Nat
    BY Sizes
  <1> QED BY <1>1, <1>2 DEF Cost

\* The ends from which a group may lead to c, and what that costs.
Before(t, row, c) == {q \in 0..(c - 1) : t[<<q, c>>] > 0 /\ row[q] # Inf}
Totals(t, row, c) == {Inf} \cup {row[p] + Cost(t, <<p, c>>) : p \in Before(t, row, c)}
FirstRow == [c \in 0..MaxIdx |-> IF c = 0 THEN 0 ELSE Inf]
NextRow(t, row) == [c \in 0..MaxIdx |-> Min(Totals(t, row, c))]
Rows == [0..MaxIdx -> Nat]

\* d is the table of the dynamic program.
DpTable(d, t) ==
    /\ d \in [0..MaxGroup -> Rows] /\ d[0] = FirstRow
    /\ \A k \in 1..MaxGroup : d[k] = NextRow(t, d[k - 1])

DpSolves(d, t) ==
    d = [k \in 0..MaxGroup |-> IF k = 0 THEN FirstRow ELSE NextRow(t, d[k - 1])]

\* A group between two ends, the first of which is smaller.
LEMMA RangeEnds ==
    ASSUME NEW c \in 0..MaxIdx, NEW p \in 0..(c - 1)
    PROVE  p \in 0..MaxIdx /\ p < c /\ <<p, c>> \in Ranges
  <1>1. p \in 0..MaxIdx /\ p < c
    BY Sizes
  <1> QED BY <1>1 DEF Ranges

\* The totals of a cell, and their least.
LEMMA TotalsLeast ==
    ASSUME NEW t \in [Ranges -> Nat], NEW row \in Rows, NEW c \in 0..MaxIdx
    PROVE  /\ Before(t, row, c) \subseteq 0..MaxIdx
           /\ \A p \in Before(t, row, c) : row[p] \in Nat /\ Cost(t, <<p, c>>) \in Nat
           /\ Min(Totals(t, row, c)) \in Nat
           /\ Min(Totals(t, row, c)) \in Totals(t, row, c)
           /\ \A x \in Totals(t, row, c) : Min(Totals(t, row, c)) <= x
  <1>1. ASSUME NEW p \in Before(t, row, c)
        PROVE  p \in 0..MaxIdx /\ row[p] \in Nat /\ Cost(t, <<p, c>>) \in Nat
    <2>1. p \in 0..(c - 1) /\ t[<<p, c>>] > 0
      BY DEF Before
    <2>2. p \in 0..MaxIdx /\ <<p, c>> \in Ranges
      BY <2>1, RangeEnds
    <2>3. row[p] \in Nat
      BY <2>2 DEF Rows
    <2> QED BY <2>1, <2>2, <2>3, CostBound
  <1>2. \A p \in Before(t, row, c) : row[p] + Cost(t, <<p, c>>) \in Nat
    BY <1>1
  <1>3. Totals(t, row, c) \subseteq Nat /\ Totals(t, row, c) # {}
    BY <1>2, Sizes DEF Totals
  <1>4. /\ Min(Totals(t, row, c)) \in Totals(t, row, c)
        /\ \A x \in Totals(t, row, c) : Min(Totals(t, row, c)) <= x
    BY <1>3, MinNat
  <1> QED BY <1>1, <1>3, <1>4

\* solve fills the whole table.
LEMMA DpFills ==
    ASSUME NEW t \in [Ranges -> Nat]
    PROVE  DpTable(Dp(t), t)
  <1> DEFINE m == MaxGroup
             F == [p \in (1..m) \X Rows |-> NextRow(t, p[2])]
  <1>1. m \in Nat
    BY Sizes
  <1>2. \A row \in Rows : NextRow(t, row) \in Rows
    <2>1. ASSUME NEW row \in Rows PROVE NextRow(t, row) \in Rows
      <3>1. \A c \in 0..MaxIdx : Min(Totals(t, row, c)) \in Nat
        BY TotalsLeast
      <3> QED BY <3>1 DEF NextRow, Rows
    <2> QED BY <2>1
  <1>3. F \in [(1..m) \X Rows -> Rows] /\ \A i \in 1..m : \A x \in Rows : F[<<i, x>>] = NextRow(t, x)
    BY <1>2
  <1>4. FirstRow \in Rows
    BY Sizes DEF FirstRow, Rows
  <1>5. PICK b : Iteration(b, m, Rows, FirstRow, F)
    <2>1. F \in [(1..m) \X Rows -> Rows]
      BY <1>3
    <2> HIDE DEF F, m
    <2> QED BY <1>1, <1>4, <2>1, Iterates, Zenon
  <1>6. \A i \in 1..m : i - 1 \in 0..m /\ i \in 0..m /\ i # 0
    BY <1>1
  <1>7. DpSolves(b, t)
    <2> HIDE DEF m
    <2>1. b \in [0..m -> Rows] /\ b[0] = FirstRow /\ \A i \in 1..m : b[i] = F[<<i, b[i - 1]>>]
      BY <1>5 DEF Iteration
    <2>2. \A i \in 1..m : b[i] = NextRow(t, b[i - 1])
      BY <1>3, <1>6, <2>1
    <2>3. \A i \in 0..m : i = 0 \/ i \in 1..m
      BY <1>1
    <2>4. b = [i \in 0..m |-> b[i]]
      BY <2>1
    <2>5. b = [i \in 0..m |-> IF i = 0 THEN FirstRow ELSE NextRow(t, b[i - 1])]
      BY <2>1, <2>2, <2>3, <2>4
    <2> QED BY <2>5 DEF DpSolves, m
  <1> DEFINE d == CHOOSE z : DpSolves(z, t)
  <1>8. DpSolves(d, t)
    BY <1>7, Zenon
  <1>9. Dp(t) = d
    <2> DEFINE body(z, k) == [c \in 0..MaxIdx |->
            IF k = 0 THEN (IF c = 0 THEN 0 ELSE Inf)
            ELSE Min({Inf} \cup {z[k - 1][p] + Cost(t, <<p, c>>) :
                    p \in {q \in 0..(c - 1) : t[<<q, c>>] > 0 /\ z[k - 1][q] # Inf}})]
    <2>1. ASSUME NEW z, NEW k PROVE body(z, k) = IF k = 0 THEN FirstRow ELSE NextRow(t, z[k - 1])
      BY DEF FirstRow, NextRow, Totals, Before
    <2>2. Dp(t) = CHOOSE z : z = [k \in 0..MaxGroup |-> body(z, k)]
      BY DEF Dp
    <2> HIDE DEF body
    <2>3. \A z : (z = [k \in 0..MaxGroup |-> body(z, k)]) <=> DpSolves(z, t)
      <3>1. ASSUME NEW z
            PROVE  [k \in 0..MaxGroup |-> body(z, k)] =
                   [k \in 0..MaxGroup |-> IF k = 0 THEN FirstRow ELSE NextRow(t, z[k - 1])]
        BY <2>1
      <3> QED BY <3>1 DEF DpSolves
    <2> QED BY <2>2, <2>3
  <1> HIDE DEF d
  <1>10. d[0] = FirstRow /\ \A i \in 1..m : d[i] = NextRow(t, d[i - 1])
    <2>1. \A i \in 0..m : d[i] = IF i = 0 THEN FirstRow ELSE NextRow(t, d[i - 1])
      BY <1>8 DEF DpSolves
    <2>2. 0 \in 0..m
      BY <1>1
    <2> QED BY <1>6, <2>1, <2>2
  <1>11. d = [i \in 0..m |-> d[i]]
    BY <1>8, Zenon DEF DpSolves
  <1> DEFINE S == {i \in 0..m : d[i] \in Rows}
  <1>12. \A i \in 0..m : i \in S
    <2>1. 0 \in S
      BY <1>1, <1>4, <1>10
    <2>2. \A i \in 1..m : i - 1 \in S => i \in S
      BY <1>2, <1>6, <1>10
    <2> HIDE DEF S, m
    <2> QED BY <1>1, <2>1, <2>2, UpTo
  <1>13. d \in [0..m -> Rows]
    <2>1. \A i \in 0..m : d[i] \in Rows
      BY <1>12
    <2> QED BY <1>11, <2>1
  <1> QED BY <1>9, <1>10, <1>13 DEF DpTable

\* A cell of the table: its parent attains it, and no transition is cheaper.
LEMMA DpCell ==
    ASSUME NEW t \in [Ranges -> Nat], NEW d, DpTable(d, t),
           NEW k \in 1..MaxGroup, NEW c \in 0..MaxIdx
    PROVE  /\ d[k - 1] \in Rows /\ d[k] \in Rows
           /\ d[k][c] # Inf =>
                LET p == Parent(t, d, k, c)
                IN  /\ p \in 0..(c - 1) /\ t[<<p, c>>] > 0 /\ d[k - 1][p] # Inf
                    /\ d[k][c] = d[k - 1][p] + Cost(t, <<p, c>>)
           /\ \A p \in 0..(c - 1) : t[<<p, c>>] > 0 /\ d[k - 1][p] # Inf =>
                d[k][c] <= d[k - 1][p] + Cost(t, <<p, c>>)
  <1> DEFINE row == d[k - 1]
  <1>1. k - 1 \in 0..MaxGroup /\ k \in 0..MaxGroup
    BY Sizes
  <1>2. row \in Rows /\ d[k] \in Rows
    BY <1>1 DEF DpTable
  <1>3. d[k][c] = Min(Totals(t, row, c))
    BY DEF DpTable, NextRow
  <1> HIDE DEF row
  <1>4. /\ Before(t, row, c) \subseteq 0..MaxIdx
        /\ Min(Totals(t, row, c)) \in Totals(t, row, c)
        /\ \A x \in Totals(t, row, c) : Min(Totals(t, row, c)) <= x
    BY <1>2, TotalsLeast
  <1>5. \A p \in 0..(c - 1) : t[<<p, c>>] > 0 /\ row[p] # Inf =>
           d[k][c] <= row[p] + Cost(t, <<p, c>>)
    BY <1>3, <1>4 DEF Totals, Before
  <1>6. ASSUME d[k][c] # Inf
        PROVE  LET p == Parent(t, d, k, c)
               IN  /\ p \in 0..(c - 1) /\ t[<<p, c>>] > 0 /\ row[p] # Inf
                   /\ d[k][c] = row[p] + Cost(t, <<p, c>>)
    <2> DEFINE Q == {p \in 0..(c - 1) : /\ t[<<p, c>>] > 0 /\ row[p] # Inf
                                         /\ row[p] + Cost(t, <<p, c>>) = d[k][c]}
    <2>1. Q # {}
      BY <1>3, <1>4, <1>6 DEF Totals, Before
    <2>2. Q \subseteq Nat
      OBVIOUS
    <2>3. Parent(t, d, k, c) = Min(Q)
      BY DEF Parent, row
    <2>4. Min(Q) \in Q
      <3> HIDE DEF Q
      <3> QED BY <2>1, <2>2, MinNat
    <2> QED BY <2>3, <2>4
  <1> QED BY <1>2, <1>5, <1>6 DEF row

CutSolves(cut, t, d, k) ==
    cut = [j \in 0..k |-> IF j = k THEN MaxIdx ELSE Parent(t, d, j + 1, cut[j + 1])]

\* cut leads from 0 to MaxIdx in k groups that have a throughput, at the cost
\* the table gives for them.
Cuts(cut, t, d, k) ==
    /\ cut \in [0..k -> 0..MaxIdx] /\ cut[0] = 0 /\ cut[k] = MaxIdx
    /\ \A j \in 1..k : /\ cut[j - 1] < cut[j] /\ t[<<cut[j - 1], cut[j]>>] > 0
                       /\ d[j][cut[j]] = d[j - 1][cut[j - 1]]
                                          + Cost(t, <<cut[j - 1], cut[j]>>)

\* The parents of a cell that is reached lead back to a cell that is.
LEMMA CutReached ==
    ASSUME NEW t \in [Ranges -> Nat], NEW d, DpTable(d, t),
           NEW k \in 1..MaxGroup, NEW j \in 0..(k - 1), NEW c \in 0..MaxIdx,
           d[j + 1][c] # Inf
    PROVE  LET p == Parent(t, d, j + 1, c)
           IN  /\ p \in 0..MaxIdx /\ p < c /\ t[<<p, c>>] > 0 /\ d[j][p] # Inf
               /\ d[j + 1][c] = d[j][p] + Cost(t, <<p, c>>)
  <1> DEFINE i == j + 1
             p == Parent(t, d, i, c)
  <1>1. i \in 1..MaxGroup /\ i - 1 = j
    BY Sizes
  <1>2. d[i][c] # Inf
    OBVIOUS
  <1> HIDE DEF i
  <1>3. p \in 0..(c - 1) /\ t[<<p, c>>] > 0 /\ d[i - 1][p] # Inf
        /\ d[i][c] = d[i - 1][p] + Cost(t, <<p, c>>)
    BY <1>1, <1>2, DpCell
  <1> HIDE DEF p
  <1>4. p \in 0..MaxIdx /\ p < c
    BY <1>3, RangeEnds
  <1>5. /\ p \in 0..MaxIdx /\ p < c /\ t[<<p, c>>] > 0 /\ d[j][p] # Inf
        /\ d[i][c] = d[j][p] + Cost(t, <<p, c>>)
    BY <1>1, <1>3, <1>4
  <1> QED BY <1>5 DEF p, i

\* _reconstruct_scheme finds a way back from the last cell to the first.
LEMMA CutExists ==
    ASSUME NEW t \in [Ranges -> Nat], NEW d, DpTable(d, t),
           NEW k \in 1..MaxGroup, d[k][MaxIdx] # Inf
    PROVE  \E cut : CutSolves(cut, t, d, k)
  <1> DEFINE X == 0..MaxIdx
             par(i, x) == Parent(t, d, (k - i) + 1, x)
             F == [q \in (1..k) \X X |-> IF par(q[1], q[2]) \in X THEN par(q[1], q[2]) ELSE 0]
  <1>1. k \in Nat /\ 0 \in X /\ MaxIdx \in X
    BY Sizes
  <1>2. F \in [(1..k) \X X -> X]
    <2> HIDE DEF X, par
    <2> QED BY <1>1
  <1>3. PICK b : Iteration(b, k, X, MaxIdx, F)
    <2> HIDE DEF F, X
    <2> QED BY <1>1, <1>2, Iterates, Zenon
  <1>4. /\ b \in [0..k -> X] /\ b[0] = MaxIdx
        /\ \A i \in 1..k : par(i, b[i - 1]) \in X => b[i] = par(i, b[i - 1])
    <2>1. b \in [0..k -> X] /\ b[0] = MaxIdx /\ \A i \in 1..k : b[i] = F[<<i, b[i - 1]>>]
      BY <1>3 DEF Iteration
    <2>2. \A i \in 1..k : b[i - 1] \in X
      <3>1. \A i \in 1..k : i - 1 \in 0..k
        BY <1>1
      <3> HIDE DEF X
      <3> QED BY <2>1, <3>1
    <2> HIDE DEF X, par
    <2> QED BY <2>1, <2>2
  <1> DEFINE S == {i \in 0..k : d[k - i][b[i]] # Inf}
  <1>5. ASSUME NEW i \in 1..k, d[k - (i - 1)][b[i - 1]] # Inf
        PROVE  b[i] = par(i, b[i - 1]) /\ d[k - i][b[i]] # Inf
    <2> DEFINE j == k - i
               c == b[i - 1]
    <2>1. j \in 0..(k - 1) /\ j + 1 = k - (i - 1) /\ i - 1 \in 0..k
      BY <1>1
    <2>2. c \in X /\ d[j + 1][c] # Inf
      BY <1>4, <1>5, <2>1
    <2> HIDE DEF c, j
    <2>3. Parent(t, d, j + 1, c) \in X /\ d[j][Parent(t, d, j + 1, c)] # Inf
      BY <2>1, <2>2, CutReached
    <2> HIDE DEF X
    <2> QED BY <1>4, <2>3 DEF j, c
  <1>6. \A i \in 0..k : i \in S
    <2>1. 0 \in S
      <3>1. k - 0 = k /\ 0 \in 0..k
        BY <1>1
      <3> QED BY <1>4, <3>1
    <2>2. ASSUME NEW i \in 1..k, i - 1 \in S PROVE i \in S
      <3>1. d[k - (i - 1)][b[i - 1]] # Inf
        BY <2>2
      <3>2. d[k - i][b[i]] # Inf
        BY <1>5, <3>1
      <3> QED BY <3>2
    <2> HIDE DEF S
    <2> QED BY <1>1, <2>1, <2>2, UpTo
  <1> DEFINE cut == [j \in 0..k |-> b[k - j]]
  <1>7. ASSUME NEW j \in 0..k
        PROVE  cut[j] = IF j = k THEN MaxIdx ELSE Parent(t, d, j + 1, cut[j + 1])
    <2>1. CASE j = k
      BY <1>1, <1>4, <2>1
    <2>2. CASE j # k
      <3> DEFINE i == k - j
      <3>1. i \in 1..k /\ i - 1 \in 0..k /\ j + 1 \in 0..k /\ (k - i) + 1 = j + 1
            /\ k - (j + 1) = i - 1
        BY <1>1, <2>2
      <3>2. d[k - (i - 1)][b[i - 1]] # Inf
        <4> HIDE DEF i
        <4>1. i - 1 \in S
          BY <1>6, <3>1
        <4> QED BY <4>1
      <3>3. b[i] = par(i, b[i - 1])
        <4> HIDE DEF i, par
        <4> QED BY <1>5, <3>1, <3>2
      <3>4. cut[j] = b[i] /\ cut[j + 1] = b[i - 1]
        BY <3>1
      <3> HIDE DEF cut, i
      <3> QED BY <2>2, <3>1, <3>3, <3>4
    <2> QED BY <2>1, <2>2
  <1>8. cut = [j \in 0..k |-> cut[j]]
    OBVIOUS
  <1> HIDE DEF cut
  <1>9. CutSolves(cut, t, d, k)
    BY <1>7, <1>8 DEF CutSolves
  <1> QED BY <1>9

\* The plan is made of those cuts.
LEMMA SchemeCuts ==
    ASSUME NEW t \in [Ranges -> Nat], NEW d, DpTable(d, t),
           NEW k \in 1..MaxGroup, d[k][MaxIdx] # Inf
    PROVE  \E cut : /\ Cuts(cut, t, d, k)
                    /\ Scheme(t, d, k) = [j \in 1..k |-> <<cut[j - 1], cut[j]>>]
  <1> DEFINE cut == CHOOSE z : CutSolves(z, t, d, k)
             X == 0..MaxIdx
  <1>1. CutSolves(cut, t, d, k)
    BY CutExists, Zenon
  <1>2. Scheme(t, d, k) = [j \in 1..k |-> <<cut[j - 1], cut[j]>>]
    BY DEF Scheme, CutSolves
  <1> HIDE DEF cut
  <1>3. k \in Nat /\ k \in 0..k /\ 0 \in 0..k
    BY Sizes
  <1>4. cut = [j \in 0..k |-> cut[j]]
    BY <1>1, Zenon DEF CutSolves
  <1>5. cut[k] = MaxIdx /\ MaxIdx \in X
    BY <1>1, <1>3, Sizes DEF CutSolves
  <1>6. \A j \in 0..(k - 1) : cut[j] = Parent(t, d, j + 1, cut[j + 1])
    <2>1. \A j \in 0..(k - 1) : j \in 0..k /\ j # k
      BY <1>3
    <2> QED BY <1>1, <2>1 DEF CutSolves
  <1> DEFINE good(j) == cut[j] \in X /\ d[j][cut[j]] # Inf
             step(j) == /\ cut[j] < cut[j + 1] /\ t[<<cut[j], cut[j + 1]>>] > 0
                        /\ d[j + 1][cut[j + 1]] = d[j][cut[j]] + Cost(t, <<cut[j], cut[j + 1]>>)
             S == {i \in 0..k : good(k - i)}
  <1>7. ASSUME NEW j \in 0..(k - 1), good(j + 1) PROVE good(j) /\ step(j)
    <2> DEFINE c == cut[j + 1]
    <2>1. c \in X /\ d[j + 1][c] # Inf
      BY <1>7
    <2>2. cut[j] = Parent(t, d, j + 1, c)
      BY <1>6
    <2> HIDE DEF c
    <2>3. /\ cut[j] \in X /\ cut[j] < c /\ t[<<cut[j], c>>] > 0 /\ d[j][cut[j]] # Inf
          /\ d[j + 1][c] = d[j][cut[j]] + Cost(t, <<cut[j], c>>)
      BY <2>1, <2>2, CutReached
    <2> QED BY <2>3 DEF c
  <1> HIDE DEF step
  <1>8. \A i \in 0..k : i \in S
    <2>1. 0 \in S
      <3>1. k - 0 = k
        BY <1>3
      <3> QED BY <1>3, <1>5, <3>1
    <2>2. ASSUME NEW i \in 1..k, i - 1 \in S PROVE i \in S
      <3>1. k - i \in 0..(k - 1) /\ (k - i) + 1 = k - (i - 1) /\ i \in 0..k
        BY <1>3
      <3>2. good(k - (i - 1))
        BY <2>2
      <3> HIDE DEF good
      <3>3. good(k - i)
        BY <1>7, <3>1, <3>2
      <3> QED BY <3>1, <3>3
    <2> HIDE DEF S
    <2> QED BY <1>3, <2>1, <2>2, UpTo
  <1>9. \A j \in 0..k : good(j)
    <2>1. ASSUME NEW j \in 0..k PROVE good(j)
      <3>1. k - j \in 0..k /\ k - (k - j) = j
        BY <1>3
      <3> HIDE DEF good
      <3>2. good(k - (k - j))
        BY <1>8, <3>1
      <3> QED BY <3>1, <3>2
    <2> HIDE DEF good
    <2> QED BY <2>1
  <1>10. cut[0] = 0
    <2>1. d[0] = FirstRow
      BY DEF DpTable
    <2>2. cut[0] \in X /\ d[0][cut[0]] # Inf
      BY <1>3, <1>9
    <2> QED BY <2>1, <2>2 DEF FirstRow
  <1>11. ASSUME NEW j \in 1..k
         PROVE  /\ cut[j - 1] < cut[j] /\ t[<<cut[j - 1], cut[j]>>] > 0
                /\ d[j][cut[j]] = d[j - 1][cut[j - 1]] + Cost(t, <<cut[j - 1], cut[j]>>)
    <2> DEFINE i == j - 1
    <2>1. i \in 0..(k - 1) /\ i + 1 = j /\ j \in 0..k
      BY <1>3
    <2> HIDE DEF i, good
    <2>2. step(i)
      BY <1>7, <1>9, <2>1
    <2>3. /\ cut[i] < cut[j] /\ t[<<cut[i], cut[j]>>] > 0
          /\ d[j][cut[j]] = d[i][cut[i]] + Cost(t, <<cut[i], cut[j]>>)
      BY <2>1, <2>2 DEF step
    <2> QED BY <2>3 DEF i
  <1>12. cut \in [0..k -> X]
    <2>1. \A j \in 0..k : cut[j] \in X
      BY <1>9
    <2> QED BY <1>4, <2>1
  <1>13. Cuts(cut, t, d, k)
    BY <1>5, <1>10, <1>11, <1>12 DEF Cuts
  <1> QED BY <1>2, <1>13

\* It is a plan of k groups that covers the context.
LEMMA SchemePlan ==
    ASSUME NEW t \in [Ranges -> Nat], NEW d, DpTable(d, t),
           NEW k \in 1..MaxGroup, d[k][MaxIdx] # Inf
    PROVE  Scheme(t, d, k) \in Schemes(t, k) /\ Plan(t, Scheme(t, d, k), k)
  <1> DEFINE s == Scheme(t, d, k)
  <1>1. PICK cut : Cuts(cut, t, d, k) /\ s = [j \in 1..k |-> <<cut[j - 1], cut[j]>>]
    BY SchemeCuts
  <1> HIDE DEF s
  <1>2. k \in Nat \ {0} /\ \A j \in 1..k : j \in 0..k /\ j - 1 \in 0..k
    BY Sizes
  <1>3. ASSUME NEW j \in 1..k
        PROVE  s[j] = <<cut[j - 1], cut[j]>> /\ s[j] \in Ranges /\ t[s[j]] > 0 /\ t[s[j]] \in Nat
    <2>1. s[j] = <<cut[j - 1], cut[j]>> /\ cut[j - 1] \in 0..MaxIdx /\ cut[j] \in 0..MaxIdx
          /\ cut[j - 1] < cut[j] /\ t[<<cut[j - 1], cut[j]>>] > 0
      BY <1>1, <1>2 DEF Cuts
    <2>2. s[j] \in Ranges
      BY <2>1 DEF Ranges
    <2> QED BY <2>1, <2>2
  <1>4. s \in [1..k -> Ranges]
    <2>1. \A j \in 1..k : <<cut[j - 1], cut[j]>> \in Ranges
      BY <1>3
    <2> QED BY <1>1, <2>1
  <1>5. s \in Seq(Ranges) /\ Len(s) = k /\ DOMAIN s = 1..k
    BY <1>2, <1>4
  <1>6. s[1][1] = 0 /\ s[k][2] = MaxIdx
    <2>1. 1 \in 1..k /\ k \in 1..k /\ 1 - 1 = 0
      BY <1>2
    <2>2. s[1] = <<cut[0], cut[1]>> /\ s[k] = <<cut[k - 1], cut[k]>>
      BY <1>3, <2>1
    <2> QED BY <1>1, <2>2 DEF Cuts
  <1>7. ASSUME NEW j \in 1..k, j < k PROVE s[j][2] = s[j + 1][1]
    <2>1. j + 1 \in 1..k /\ (j + 1) - 1 = j
      BY <1>2, <1>7
    <2>2. s[j + 1] = <<cut[j], cut[j + 1]>> /\ s[j] = <<cut[j - 1], cut[j]>>
      BY <1>3, <2>1
    <2> QED BY <2>2
  <1>8. s \in Schemes(t, k)
    BY <1>3, <1>4, <1>6, <1>7 DEF Schemes
  <1>9. Plan(t, s, k)
    BY <1>2, <1>3, <1>5 DEF Plan
  <1> QED BY <1>8, <1>9 DEF s

\* h[j] is the sum of the first j values of f.
PartialSums(h, f, k) ==
    /\ h \in [0..k -> Nat] /\ h[0] = 0 /\ h[k] = SumFunction(f)
    /\ \A j \in 1..k : h[j] = h[j - 1] + f[j]

\* The sum of a sequence, from its first value to its last.
LEMMA SumPrefixes ==
    ASSUME NEW k \in Nat, NEW f \in [1..k -> Nat]
    PROVE  \E h : PartialSums(h, f, k)
  <1>1. IsFiniteSet(1..k)
    BY FS_Interval
  <1>2. PICK g : Adds(g, f, 1..k) /\ SumFunction(f) = g[1..k]
    BY <1>1, SumAdds
  <1> DEFINE h == [j \in 0..k |-> g[1..j]]
  <1>3. \A j \in 0..k : 1..j \in SUBSET (1..k) /\ h[j] = g[1..j] /\ g[1..j] \in Nat
    BY <1>2 DEF Adds
  <1>4. 1..0 = {} /\ h[0] = g[{}] /\ g[{}] = 0
    <2>1. 1..0 = {} /\ 0 \in 0..k
      OBVIOUS
    <2>2. h[0] = g[1..0]
      BY <2>1
    <2> QED BY <1>2, <2>1, <2>2 DEF Adds
  <1>5. ASSUME NEW j \in 1..k PROVE h[j] = h[j - 1] + f[j]
    <2>1. (1..j) \ {j} = 1..(j - 1) /\ j \in 1..j /\ j \in 0..k /\ j - 1 \in 0..k
      OBVIOUS
    <2>2. g[1..j] = f[j] + g[1..(j - 1)]
      <3>1. 1..j \in SUBSET (1..k)
        BY <1>3, <2>1
      <3>2. g[1..j] = f[j] + g[(1..j) \ {j}]
        BY <1>2, <2>1, <3>1 DEF Adds
      <3> QED BY <2>1, <3>2
    <2>3. h[j] = g[1..j] /\ h[j - 1] = g[1..(j - 1)] /\ g[1..(j - 1)] \in Nat /\ f[j] \in Nat
      BY <1>3, <2>1
    <2> HIDE DEF h
    <2> QED BY <2>2, <2>3
  <1>6. h[k] = SumFunction(f)
    BY <1>2
  <1>7. h \in [0..k -> Nat]
    BY <1>3
  <1> HIDE DEF h
  <1>8. PartialSums(h, f, k)
    BY <1>4, <1>5, <1>6, <1>7 DEF PartialSums
  <1> QED BY <1>8

\* The costs of the groups of a plan, and their sum.
LEMMA SchemeCostIs ==
    ASSUME NEW t \in [Ranges -> Nat], NEW k \in Nat, NEW s \in [1..k -> Ranges],
           \A j \in 1..k : t[s[j]] > 0
    PROVE  LET f == [j \in 1..k |-> Cost(t, s[j])]
           IN  f \in [1..k -> Nat] /\ SchemeCost(t, s) = SumFunction(f)
  <1>1. \A j \in 1..k : Cost(t, s[j]) \in Nat
    BY CostBound
  <1>2. DOMAIN s = 1..k
    OBVIOUS
  <1>3. SchemeCost(t, s) = SumFunction([j \in 1..k |-> Cost(t, s[j])])
    BY <1>2 DEF SchemeCost, Cost
  <1> QED BY <1>1, <1>3

\* No plan of k groups is cheaper than the table's last cell.
LEMMA DpBound ==
    ASSUME NEW t \in [Ranges -> Nat], NEW d, DpTable(d, t),
           NEW k \in 1..MaxGroup, NEW s \in Schemes(t, k)
    PROVE  d[k][MaxIdx] <= SchemeCost(t, s) /\ d[k][MaxIdx] # Inf
  <1> DEFINE f == [j \in 1..k |-> Cost(t, s[j])]
             e(j) == IF j = 0 THEN 0 ELSE s[j][2]
  <1>1. /\ s \in [1..k -> Ranges] /\ s[1][1] = 0 /\ s[k][2] = MaxIdx
        /\ \A j \in 1..k : t[s[j]] > 0 /\ (j < k => s[j][2] = s[j + 1][1])
    BY DEF Schemes
  <1>2. k \in Nat \ {0} /\ MaxGroup \in Nat /\ k <= MaxGroup
    BY Sizes
  <1>3. f \in [1..k -> Nat] /\ SchemeCost(t, s) = SumFunction(f)
    BY <1>1, <1>2, SchemeCostIs
  <1>4. \A j \in 1..k : f[j] = Cost(t, s[j]) /\ f[j] \in Nat /\ f[j] <= Scale
    <2>1. \A j \in 1..k : Cost(t, s[j]) \in Nat /\ Cost(t, s[j]) <= Scale
      BY <1>1, CostBound
    <2> QED BY <2>1
  <1> HIDE DEF f
  <1>5. PICK h : PartialSums(h, f, k)
    BY <1>2, <1>3, SumPrefixes
  <1>6. ASSUME NEW j \in 1..k
        PROVE  /\ s[j] = <<e(j - 1), e(j)>>
               /\ e(j) \in 0..MaxIdx /\ e(j - 1) \in 0..(e(j) - 1)
    <2>1. s[j] \in Ranges
      BY <1>1
    <2>2. /\ s[j] = <<s[j][1], s[j][2]>> /\ s[j][1] \in 0..MaxIdx /\ s[j][2] \in 0..MaxIdx
          /\ s[j][1] < s[j][2]
      BY <2>1 DEF Ranges
    <2>3. e(j) = s[j][2]
      BY <1>2
    <2>4. e(j - 1) = s[j][1]
      <3>1. CASE j = 1
        BY <1>1, <3>1
      <3>2. CASE j # 1
        <4>1. j - 1 \in 1..k /\ j - 1 < k /\ (j - 1) + 1 = j /\ j - 1 # 0
          BY <1>2, <3>2
        <4>2. s[j - 1][2] = s[j][1]
          BY <1>1, <4>1
        <4> QED BY <4>1, <4>2
      <3> QED BY <3>1, <3>2
    <2> HIDE DEF e
    <2>5. e(j - 1) \in 0..(e(j) - 1)
      BY <2>2, <2>3, <2>4, Sizes
    <2> QED BY <2>2, <2>3, <2>4, <2>5
  <1>7. e(0) = 0 /\ e(k) = MaxIdx
    BY <1>1, <1>2
  <1> HIDE DEF e
  <1> DEFINE S == {j \in 0..k : d[j][e(j)] <= h[j] /\ h[j] <= j * Scale}
  <1>8. 0 \in S
    <2>1. d[0][e(0)] = 0 /\ h[0] = 0
      BY <1>5, <1>7, Sizes DEF DpTable, FirstRow, PartialSums
    <2>2. 0 * Scale = 0 /\ 0 \in 0..k
      BY <1>2, Sizes
    <2> QED BY <2>1, <2>2
  <1>9. ASSUME NEW j \in 1..k, j - 1 \in S PROVE j \in S
    <2> DEFINE c == e(j)
               p == e(j - 1)
               u == d[j - 1][p]
    <2>1. j \in 0..k /\ j - 1 \in 0..k /\ j \in 1..MaxGroup /\ j \in Nat /\ j - 1 \in 0..MaxGroup
      BY <1>2
    <2>2. c \in 0..MaxIdx /\ p \in 0..(c - 1) /\ s[j] = <<p, c>> /\ t[<<p, c>>] > 0
      BY <1>1, <1>6
    <2>3. u <= h[j - 1] /\ h[j - 1] <= (j - 1) * Scale
      BY <1>9
    <2>4. /\ h[j] = h[j - 1] + f[j] /\ h[j - 1] \in Nat
          /\ f[j] = Cost(t, <<p, c>>) /\ f[j] \in Nat /\ f[j] <= Scale
      <3>1. h[j] = h[j - 1] + f[j] /\ h[j - 1] \in Nat
        BY <1>5, <2>1 DEF PartialSums
      <3> QED BY <1>4, <2>2, <3>1
    <2> HIDE DEF c, p
    <2>5. d[j - 1] \in Rows /\ d[j] \in Rows
      BY <2>1, <2>2, DpCell
    <2>6. u \in Nat /\ d[j][c] \in Nat
      BY <2>2, <2>5, RangeEnds DEF Rows
    <2>7. (j - 1) * Scale < Inf /\ (j - 1) * Scale \in Nat /\ Inf \in Nat /\ Scale \in Nat
          /\ (j - 1) * Scale + Scale = j * Scale
      BY <2>1, Sizes
    <2> HIDE DEF u
    <2>8. u # Inf
      BY <2>3, <2>4, <2>6, <2>7
    <2>9. d[j][c] <= u + f[j]
      BY <2>1, <2>2, <2>4, <2>8, DpCell DEF u
    <2>10. d[j][c] <= h[j] /\ h[j] <= j * Scale
      BY <2>3, <2>4, <2>6, <2>7, <2>9
    <2> QED BY <2>1, <2>10 DEF c
  <1>10. k \in S
    <2>1. \A j \in 1..k : j - 1 \in S => j \in S
      BY <1>9
    <2>2. k \in Nat /\ k \in 0..k
      BY <1>2
    <2> HIDE DEF S
    <2> QED BY <1>8, <2>1, <2>2, UpTo
  <1>11. d[k][MaxIdx] <= h[k] /\ h[k] <= k * Scale /\ h[k] = SchemeCost(t, s) /\ h[k] \in Nat
    <2>1. k \in 0..k
      BY <1>2
    <2> QED BY <1>3, <1>5, <1>7, <1>10, <2>1 DEF PartialSums
  <1>12. d[k][MaxIdx] \in Nat /\ k * Scale < Inf /\ k * Scale \in Nat /\ Inf \in Nat
    <2>1. k \in 0..MaxGroup /\ MaxIdx \in 0..MaxIdx
      BY <1>2, Sizes
    <2>2. d[k] \in Rows
      BY <2>1 DEF DpTable
    <2> QED BY <1>2, <2>1, <2>2, Sizes DEF Rows
  <1> QED BY <1>11, <1>12

\* The reconstructed plan costs what the table's last cell says.
LEMMA SchemeCostExact ==
    ASSUME NEW t \in [Ranges -> Nat], NEW d, DpTable(d, t),
           NEW k \in 1..MaxGroup, d[k][MaxIdx] # Inf
    PROVE  SchemeCost(t, Scheme(t, d, k)) = d[k][MaxIdx]
  <1> DEFINE s == Scheme(t, d, k)
             f == [j \in 1..k |-> Cost(t, s[j])]
  <1>1. PICK cut : Cuts(cut, t, d, k) /\ s = [j \in 1..k |-> <<cut[j - 1], cut[j]>>]
    BY SchemeCuts
  <1>2. s \in [1..k -> Ranges] /\ \A j \in 1..k : t[s[j]] > 0
    BY SchemePlan DEF Schemes
  <1> HIDE DEF s
  <1>3. k \in Nat
    BY Sizes
  <1>4. f \in [1..k -> Nat] /\ SchemeCost(t, s) = SumFunction(f)
    BY <1>2, <1>3, SchemeCostIs
  <1>5. \A j \in 1..k : f[j] = Cost(t, <<cut[j - 1], cut[j]>>)
    BY <1>1
  <1> HIDE DEF f
  <1>6. PICK h : PartialSums(h, f, k)
    BY <1>3, <1>4, SumPrefixes
  <1> DEFINE S == {j \in 0..k : h[j] = d[j][cut[j]]}
  <1>7. 0 \in S
    BY <1>1, <1>3, <1>6, Sizes DEF PartialSums, Cuts, DpTable, FirstRow
  <1>8. ASSUME NEW j \in 1..k, j - 1 \in S PROVE j \in S
    <2>1. h[j] = h[j - 1] + f[j] /\ h[j - 1] = d[j - 1][cut[j - 1]] /\ j \in 0..k
      BY <1>3, <1>6, <1>8 DEF PartialSums
    <2>2. d[j][cut[j]] = d[j - 1][cut[j - 1]] + f[j]
      BY <1>1, <1>5 DEF Cuts
    <2> QED BY <2>1, <2>2
  <1>9. k \in S
    <2>1. \A j \in 1..k : j - 1 \in S => j \in S
      BY <1>8
    <2>2. k \in 0..k
      BY <1>3
    <2> HIDE DEF S
    <2> QED BY <1>3, <1>7, <2>1, <2>2, UpTo
  <1> QED BY <1>1, <1>4, <1>6, <1>9 DEF PartialSums, Cuts, s
-----------------------------------------------------------------------------
(***************************************************************************)
(* The throughput curve.                                                   *)
(***************************************************************************)
\* What the greedy loop makes of a candidate's plan.
LEMMA CandidatePlan ==
    ASSUME NEW t \in [Ranges -> Nat], NEW d, DpTable(d, t), NEW n \in Nat,
           NEW k \in Candidates(d, n)
    PROVE  LET s == Scheme(t, d, k) IN
           /\ Plan(t, s, k) /\ k <= n
           /\ \E a : Fair(a, t, s, k, n)
                     /\ Greedy(t, s, n) = [throughput |-> MinThroughput(t, s, a),
                                           scheme |-> s, counts |-> a]
           /\ Greedy(t, s, n).throughput \in Nat
  <1> DEFINE s == Scheme(t, d, k)
  <1>1. k \in 1..MaxGroup /\ k <= n /\ d[k][MaxIdx] # Inf
    BY Sizes DEF Candidates
  <1>2. Plan(t, s, k)
    BY <1>1, SchemePlan
  <1> HIDE DEF s
  <1>3. PICK a : Fair(a, t, s, k, n)
                 /\ Greedy(t, s, n) = [throughput |-> MinThroughput(t, s, a),
                                       scheme |-> s, counts |-> a]
    BY <1>1, <1>2, GreedyFair
  <1>4. MinThroughput(t, s, a) \in Nat
    BY <1>2, <1>3, MinThroughputLeast DEF Fair
  <1>5. Greedy(t, s, n).throughput \in Nat
    BY <1>3, <1>4
  <1> QED BY <1>1, <1>2, <1>3, <1>5 DEF s

\* solve takes a best candidate, if there is one.
LEMMA BestIs ==
    ASSUME NEW t \in [Ranges -> Nat], NEW d, DpTable(d, t), NEW n \in Nat
    PROVE  \/ Candidates(d, n) = {} /\ Best(t, d, n) = NoAssignment
           \/ /\ \E k \in Candidates(d, n) : Best(t, d, n) = Greedy(t, Scheme(t, d, k), n)
              /\ \A i \in Candidates(d, n) :
                    Greedy(t, Scheme(t, d, i), n).throughput <= Best(t, d, n).throughput
  <1> DEFINE C == Candidates(d, n)
             of == [k \in C |-> Greedy(t, Scheme(t, d, k), n)]
             top == {k \in C : \A i \in C : of[i].throughput <= of[k].throughput}
             R == {p \in C \X C : of[p[2]].throughput <= of[p[1]].throughput}
  <1>1. Best(t, d, n) = IF top = {} THEN NoAssignment ELSE of[Min(top)]
    BY DEF Best
  <1>2. \A k \in C : of[k] = Greedy(t, Scheme(t, d, k), n) /\ of[k].throughput \in Nat
    BY CandidatePlan
  <1>3. C \subseteq Nat /\ IsFiniteSet(C)
    <2>1. MinGroup \in Int /\ MaxGroup \in Int /\ MinGroup \in Nat
      BY Sizes
    <2>2. IsFiniteSet(MinGroup..MaxGroup)
      BY <2>1, FS_Interval
    <2>3. C \subseteq MinGroup..MaxGroup
      BY DEF Candidates
    <2> HIDE DEF C
    <2>4. IsFiniteSet(C)
      BY <2>2, <2>3, FS_Subset
    <2>5. MinGroup..MaxGroup \subseteq Nat
      BY <2>1
    <2> QED BY <2>3, <2>4, <2>5
  <1> HIDE DEF C, of
  <1>4. CASE C = {}
    <2>1. top = {}
      BY <1>4
    <2> QED BY <1>1, <1>4, <2>1 DEF C
  <1>5. CASE C # {}
    <2>1. \A x, y \in C : <<x, y>> \in R \/ <<y, x>> \in R
      BY <1>2
    <2>2. \A x, y, z \in C : <<x, y>> \in R /\ <<y, z>> \in R => <<x, z>> \in R
      BY <1>2
    <2>3. \A x, y \in C : <<x, y>> \in R => of[y].throughput <= of[x].throughput
      OBVIOUS
    <2>4. \E x \in C : \A y \in C : <<x, y>> \in R
      <3> HIDE DEF R
      <3> QED BY <1>3, <1>5, <2>1, <2>2, FiniteLeast
    <2>5. top # {}
      BY <2>3, <2>4
    <2>6. Min(top) \in top
      <3>1. top \subseteq Nat
        BY <1>3
      <3> HIDE DEF top
      <3> QED BY <2>5, <3>1, MinNat
    <2>7. Best(t, d, n) = of[Min(top)]
      BY <1>1, <2>5
    <2>8. Min(top) \in C /\ \A i \in C : of[i].throughput <= of[Min(top)].throughput
      BY <2>6
    <2> HIDE DEF top
    <2> QED BY <1>2, <2>7, <2>8 DEF C
  <1> QED BY <1>4, <1>5

\* With more instances, a plan's greedy split is no slower.
LEMMA GreedyGrows ==
    ASSUME NEW t \in [Ranges -> Nat], NEW d, DpTable(d, t),
           NEW n \in Nat, NEW m \in Nat, n <= m, NEW k \in Candidates(d, n)
    PROVE  /\ k \in Candidates(d, m)
           /\ Greedy(t, Scheme(t, d, k), n).throughput <= Greedy(t, Scheme(t, d, k), m).throughput
  <1> DEFINE s == Scheme(t, d, k)
  <1>0. k \in Candidates(d, m)
    BY Sizes DEF Candidates
  <1>1. Plan(t, s, k) /\ k \in Nat \ {0}
    <2>1. Plan(t, s, k)
      BY CandidatePlan
    <2> QED BY <2>1 DEF Plan
  <1>2. PICK a : /\ Fair(a, t, s, k, n)
                 /\ Greedy(t, s, n) = [throughput |-> MinThroughput(t, s, a),
                                       scheme |-> s, counts |-> a]
    BY CandidatePlan
  <1>3. PICK b : /\ Fair(b, t, s, k, m)
                 /\ Greedy(t, s, m) = [throughput |-> MinThroughput(t, s, b),
                                       scheme |-> s, counts |-> b]
    BY <1>0, CandidatePlan
  <1> HIDE DEF s
  <1> DEFINE w == [a EXCEPT ![1] = a[1] + (m - n)]
  <1>4. a \in [1..k -> Nat] /\ 1 \in 1..k /\ m - n \in Nat /\ SumFunction(a) = n
        /\ \A j \in 1..k : a[j] >= 1
    BY <1>1, <1>2 DEF Fair
  <1>5. w \in [1..k -> Nat] /\ w[1] = a[1] + (m - n) /\ \A j \in 1..k : j # 1 => w[j] = a[j]
    <2> DEFINE more == m - n
    <2>1. more \in Nat
      BY <1>4
    <2> HIDE DEF more
    <2> QED BY <1>4, <2>1
  <1>6. SumFunction(w) = m
    <2>1. IsFiniteSet(1..k)
      BY <1>1, FS_Interval
    <2> DEFINE more == m - n
    <2>2. more \in Nat /\ n + more = m
      BY <1>4
    <2> HIDE DEF more
    <2>3. SumFunction(w) = SumFunction(a) + more
      <3> DEFINE D == 1..k
      <3>1. /\ 1 \in D /\ a \in [D -> Nat] /\ IsFiniteSet(D) /\ w \in [D -> Nat]
            /\ w[1] = a[1] + more /\ \A j \in D : j # 1 => w[j] = a[j]
        BY <1>4, <1>5, <2>1 DEF more
      <3> HIDE DEF D, w
      <3> QED BY <2>2, <3>1, SumUpdate
    <2> QED BY <1>4, <2>2, <2>3
  <1> HIDE DEF w
  <1>7. \A j \in 1..k : a[j] \in Nat /\ w[j] \in Nat /\ a[j] <= w[j] /\ w[j] >= 1
    <2>1. \A j \in 1..k : a[j] \in Nat /\ w[j] \in Nat /\ a[j] >= 1
      BY <1>4, <1>5
    <2>2. \A j \in 1..k : a[j] <= w[j]
      BY <1>4, <1>5, <2>1
    <2> QED BY <2>1, <2>2
  <1>8. MinThroughput(t, s, a) <= MinThroughput(t, s, w)
    <2>1. PICK j \in 1..k : MinThroughput(t, s, w) = Rate(t, s, w, j)
      BY <1>1, <1>5, MinThroughputLeast
    <2>2. MinThroughput(t, s, a) <= Rate(t, s, a, j) /\ MinThroughput(t, s, a) \in Nat
      BY <1>1, <1>4, MinThroughputLeast
    <2>3. Rate(t, s, a, j) \in Nat /\ Rate(t, s, w, j) \in Nat
          /\ Rate(t, s, a, j) <= Rate(t, s, w, j)
      <3>1. t[s[j]] \in Nat
        BY <1>1 DEF Plan
      <3> QED BY <1>7, <3>1, TimesOrder DEF Rate
    <2> QED BY <2>1, <2>2, <2>3
  <1>9. MinThroughput(t, s, w) <= MinThroughput(t, s, b)
    BY <1>1, <1>3, <1>5, <1>6, <1>7, FairBest
  <1>10. /\ MinThroughput(t, s, a) \in Nat /\ MinThroughput(t, s, w) \in Nat
         /\ MinThroughput(t, s, b) \in Nat
    BY <1>1, <1>3, <1>4, <1>5, MinThroughputLeast DEF Fair
  <1>11. Greedy(t, s, n).throughput <= Greedy(t, s, m).throughput
    BY <1>2, <1>3, <1>8, <1>9, <1>10
  <1> QED BY <1>0, <1>11 DEF s

\* The curve does not fall.
LEMMA BestGrows ==
    ASSUME NEW t \in [Ranges -> Nat], NEW d, DpTable(d, t),
           NEW n \in Nat, NEW m \in Nat, n <= m
    PROVE  /\ Best(t, d, n).throughput \in Nat /\ Best(t, d, m).throughput \in Nat
           /\ Best(t, d, n).throughput <= Best(t, d, m).throughput
  <1>1. \A x \in Nat : Best(t, d, x).throughput \in Nat
    <2>1. ASSUME NEW x \in Nat PROVE Best(t, d, x).throughput \in Nat
      BY BestIs, CandidatePlan DEF NoAssignment
    <2> QED BY <2>1
  <1>2. CASE Best(t, d, n) = NoAssignment
    <2>1. Best(t, d, n).throughput = 0
      BY <1>2 DEF NoAssignment
    <2> QED BY <1>1, <2>1
  <1>3. CASE Best(t, d, n) # NoAssignment
    <2>1. PICK k \in Candidates(d, n) : Best(t, d, n) = Greedy(t, Scheme(t, d, k), n)
      BY <1>3, BestIs
    <2> DEFINE s == Scheme(t, d, k)
    <2>2. k \in Candidates(d, m) /\ Greedy(t, s, n).throughput <= Greedy(t, s, m).throughput
      BY GreedyGrows
    <2>3. Greedy(t, s, m).throughput <= Best(t, d, m).throughput /\ Greedy(t, s, m).throughput \in Nat
      BY <2>2, BestIs, CandidatePlan
    <2> HIDE DEF s
    <2>4. Best(t, d, n).throughput = Greedy(t, s, n).throughput
      BY <2>1 DEF s
    <2> QED BY <1>1, <2>2, <2>3, <2>4
  <1> QED BY <1>2, <1>3

\* An assignment of the curve splits its instances in the best way.
LEMMA BestSplits ==
    ASSUME NEW t \in [Ranges -> Nat], NEW d, DpTable(d, t), NEW n \in Nat,
           Best(t, d, n) # NoAssignment
    PROVE  LET c == Best(t, d, n) IN
           /\ SumFunction(c.counts) = n
           /\ \A w \in Shares(Len(c.scheme), n) : MinThroughput(t, c.scheme, w) <= c.throughput
  <1>1. PICK k \in Candidates(d, n) : Best(t, d, n) = Greedy(t, Scheme(t, d, k), n)
    BY BestIs
  <1> DEFINE s == Scheme(t, d, k)
             c == Best(t, d, n)
  <1>2. PICK a : /\ Fair(a, t, s, k, n)
                 /\ Greedy(t, s, n) = [throughput |-> MinThroughput(t, s, a),
                                       scheme |-> s, counts |-> a]
    BY CandidatePlan
  <1>3. Plan(t, s, k)
    BY CandidatePlan
  <1>4. c = Greedy(t, s, n)
    BY <1>1
  <1> HIDE DEF s, c
  <1>5. c.counts = a /\ c.scheme = s /\ c.throughput = MinThroughput(t, s, a)
    BY <1>2, <1>4
  <1>6. SumFunction(a) = n /\ Len(s) = k /\ k \in Nat
    BY <1>2, <1>3 DEF Fair, Plan
  <1>7. ASSUME NEW w \in Shares(k, n) PROVE MinThroughput(t, s, w) <= MinThroughput(t, s, a)
    <2>1. w \in [1..k -> 1..n] /\ SumFunction(w) = n
      BY DEF Shares
    <2>2. w \in [1..k -> Nat] /\ \A j \in 1..k : w[j] >= 1
      BY <2>1
    <2> QED BY <1>2, <1>3, <2>1, <2>2, FairBest
  <1>8. /\ SumFunction(c.counts) = n
        /\ \A w \in Shares(Len(c.scheme), n) : MinThroughput(t, c.scheme, w) <= c.throughput
    BY <1>5, <1>6, <1>7
  <1> QED BY <1>8 DEF c
-----------------------------------------------------------------------------
(***************************************************************************)
(* The rounds of WorkflowAllocator.allocate.                               *)
(***************************************************************************)
Fractions == Nat \X (Nat \ {0})

\* Fractions are compared by a total, transitive relation.
LEMMA AtMostOrder ==
    ASSUME NEW x \in Fractions, NEW y \in Fractions
    PROVE  /\ AtMost(x, y) \/ AtMost(y, x)
           /\ \A z \in Fractions : AtMost(x, y) /\ AtMost(y, z) => AtMost(x, z)
  <1>1. \A f \in Fractions : f[1] \in Nat /\ f[2] \in Nat /\ f[2] > 0
    BY DEF Fractions
  <1>2. AtMost(x, y) \/ AtMost(y, x)
    <2>1. ASSUME NEW p \in Nat, NEW q \in Nat PROVE p <= q \/ q <= p
      OBVIOUS
    <2>2. \A f, h \in Fractions : f[1] * h[2] \in Nat
      BY <1>1
    <2> QED BY <2>1, <2>2 DEF AtMost
  <1>3. ASSUME NEW z \in Fractions, AtMost(x, y), AtMost(y, z) PROVE AtMost(x, z)
    <2>1. ASSUME NEW a \in Nat, NEW b \in Nat, NEW c \in Nat, NEW d \in Nat,
                 NEW e \in Nat, NEW f \in Nat, d > 0, a * d <= c * b, c * f <= e * d
          PROVE  a * f <= e * b
      <3>1. a * d \in Nat /\ c * b \in Nat /\ c * f \in Nat /\ e * d \in Nat
            /\ a * f \in Nat /\ e * b \in Nat
        OBVIOUS
      <3>2. (a * d) * f <= (c * b) * f /\ (c * f) * b <= (e * d) * b
        BY <2>1, <3>1, TimesOrder
      <3>3. (a * d) * f = (a * f) * d /\ (c * b) * f = (c * f) * b /\ (e * d) * b = (e * b) * d
        OBVIOUS
      <3>4. (a * f) * d <= (e * b) * d
        <4>1. (a * d) * f \in Nat /\ (c * b) * f \in Nat /\ (e * d) * b \in Nat
          BY <3>1, TimesOrder
        <4> QED BY <3>2, <3>3, <4>1
      <3>5. ASSUME NEW p \in Nat, NEW q \in Nat, p * d <= q * d PROVE p <= q
        <4> SUFFICES ASSUME q + 1 <= p PROVE FALSE
          OBVIOUS
        <4>1. (q + 1) * d <= p * d
          BY TimesOrder
        <4>2. (q + 1) * d = q * d + d /\ q * d \in Nat /\ p * d \in Nat
          OBVIOUS
        <4> QED BY <2>1, <3>5, <4>1, <4>2
      <3> QED BY <3>1, <3>4, <3>5
    <2> QED BY <1>1, <1>3, <2>1 DEF AtMost
  <1> QED BY <1>2, <1>3

\* Dividing keeps the order.
LEMMA DivOrder ==
    ASSUME NEW s \in Nat \ {0}, NEW x \in Nat, NEW y \in Nat, x <= y
    PROVE  x \div s \in Nat /\ y \div s \in Nat /\ x \div s <= y \div s
  <1> DEFINE p == x \div s
             q == y \div s
  <1>1. p \in Nat /\ q \in Nat /\ p * s <= x /\ y < q * s + s
    OBVIOUS
  <1> HIDE DEF p, q
  <1>2. ASSUME q + 1 <= p PROVE FALSE
    <2>1. (q + 1) * s <= p * s /\ (q + 1) * s = q * s + s /\ p * s \in Nat /\ q * s \in Nat
      BY <1>1, <1>2, TimesOrder
    <2> QED BY <1>1, <2>1
  <1> QED BY <1>1, <1>2 DEF p, q

\* _normalized_throughputs for the curves that solve returns.
Norm(i, a, g) ==
    IF i.inv[a] <= 0 THEN <<0, 1>>
    ELSE <<Solve(i.tp[a], i.budget)[g].throughput, i.inv[a]>>

\* The entry of a curve.
LEMMA CurveEntry ==
    ASSUME NEW t, NEW total \in Nat, NEW g \in 0..total
    PROVE  Solve(t, total)[g] = Best(t, Dp(t), g \div GpuStep)
  BY DEF Solve

\* An agent's normalized throughput does not fall with the GPUs it is given.
LEMMA NormGrows ==
    ASSUME NEW i \in Inputs, NEW a \in Agents,
           NEW g \in 0..i.budget, NEW h \in 0..i.budget, g <= h
    PROVE  /\ Norm(i, a, g) \in Fractions /\ Norm(i, a, h) \in Fractions
           /\ AtMost(Norm(i, a, g), Norm(i, a, h))
  <1> DEFINE t == i.tp[a]
             n == g \div GpuStep
             m == h \div GpuStep
             e == i.inv[a]
             u == Best(t, Dp(t), n).throughput
             v == Best(t, Dp(t), m).throughput
  <1>1. i.budget \in Nat /\ t \in [Ranges -> Nat] /\ e \in Nat
    BY AllocationAssumption
  <1>2. g \in Nat /\ h \in Nat /\ GpuStep \in Nat \ {0}
    BY <1>1, Sizes
  <1>3. n \in Nat /\ m \in Nat /\ n <= m
    BY <1>2, DivOrder
  <1>4. Solve(t, i.budget)[g].throughput = u /\ Solve(t, i.budget)[h].throughput = v
    BY <1>1, CurveEntry
  <1>5. DpTable(Dp(t), t)
    BY <1>1, DpFills
  <1> HIDE DEF n, m
  <1>6. u \in Nat /\ v \in Nat /\ u <= v
    <2> DEFINE d == Dp(t)
    <2>1. DpTable(d, t)
      BY <1>5
    <2> HIDE DEF t, d
    <2> QED BY <1>1, <1>3, <2>1, BestGrows DEF d
  <1> HIDE DEF u, v
  <1>7. CASE e <= 0
    <2>1. Norm(i, a, g) = <<0, 1>> /\ Norm(i, a, h) = <<0, 1>>
      BY <1>7 DEF Norm
    <2> QED BY <2>1 DEF Fractions, AtMost
  <1>8. CASE ~ (e <= 0)
    <2>1. Norm(i, a, g) = <<u, e>> /\ Norm(i, a, h) = <<v, e>>
      BY <1>4, <1>8 DEF Norm
    <2>2. e \in Nat \ {0}
      BY <1>1, <1>8
    <2> HIDE DEF e
    <2>3. u * e <= v * e
      BY <1>6, <2>2, TimesOrder
    <2> QED BY <1>6, <2>1, <2>2, <2>3 DEF Fractions, AtMost
  <1> QED BY <1>7, <1>8

Multiples == {GpuStep * i : i \in Nat}

\* Whole instances: what multiples of gpus_per_instance have in common.
LEMMA MultipleFacts ==
    /\ Multiples \subseteq Nat /\ GpuStep \in Multiples
    /\ \A x \in Multiples : x + GpuStep \in Multiples /\ x % GpuStep = 0
    /\ \A x \in Nat : x % GpuStep = 0 => x \in Multiples
    /\ \A x, y \in Multiples : x < y => x + GpuStep <= y
    /\ \A n \in Nat : n * GpuStep \in Multiples
  <1>1. GpuStep \in Nat \ {0}
    BY Sizes
  <1>2. Multiples \subseteq Nat
    BY <1>1 DEF Multiples
  <1>3. GpuStep \in Multiples
    <2>1. GpuStep = GpuStep * 1
      BY <1>1
    <2> QED BY <2>1 DEF Multiples
  <1>4. ASSUME NEW i \in Nat
        PROVE  GpuStep * i + GpuStep = GpuStep * (i + 1) /\ (GpuStep * i) % GpuStep = 0
    <2>1. GpuStep * i + GpuStep = GpuStep * (i + 1)
      BY <1>1
    <2> DEFINE x == GpuStep * i
               q == x \div GpuStep
               r == x % GpuStep
    <2>2. x \in Nat /\ q \in Int /\ r \in Nat /\ r < GpuStep /\ x = GpuStep * q + r
      BY <1>1
    <2> HIDE DEF q, r
    <2>3. GpuStep * (i - q) = r
      BY <1>1, <2>2
    <2>4. i - q \in Int /\ ~ (i - q >= 1) /\ ~ (i - q <= -1)
      BY <1>1, <2>2, <2>3
    <2>5. i - q = 0
      BY <2>4
    <2>6. r = 0
      BY <1>1, <2>3, <2>5
    <2> QED BY <2>1, <2>6 DEF r
  <1>5. \A x \in Multiples : x + GpuStep \in Multiples /\ x % GpuStep = 0
    <2>1. ASSUME NEW x \in Multiples PROVE x + GpuStep \in Multiples /\ x % GpuStep = 0
      <3>1. PICK i \in Nat : x = GpuStep * i
        BY DEF Multiples
      <3>2. i + 1 \in Nat /\ x + GpuStep = GpuStep * (i + 1) /\ x % GpuStep = 0
        BY <1>4, <3>1
      <3> QED BY <3>2 DEF Multiples
    <2> QED BY <2>1
  <1>6. \A x \in Nat : x % GpuStep = 0 => x \in Multiples
    <2>1. ASSUME NEW x \in Nat, x % GpuStep = 0 PROVE x \in Multiples
      <3>1. x = GpuStep * (x \div GpuStep) /\ x \div GpuStep \in Nat
        BY <1>1, <2>1
      <3> QED BY <3>1 DEF Multiples
    <2> QED BY <2>1
  <1>7. \A x, y \in Multiples : x < y => x + GpuStep <= y
    <2>1. ASSUME NEW i \in Nat, NEW j \in Nat, GpuStep * i < GpuStep * j
          PROVE  GpuStep * i + GpuStep <= GpuStep * j
      <3>1. i + 1 <= j
        <4> SUFFICES ASSUME j <= i PROVE FALSE
          OBVIOUS
        <4>1. j * GpuStep <= i * GpuStep
          BY <1>1, TimesOrder
        <4>2. GpuStep * i = i * GpuStep /\ GpuStep * j = j * GpuStep
              /\ i * GpuStep \in Nat /\ j * GpuStep \in Nat
          BY <1>1
        <4> QED BY <2>1, <4>1, <4>2
      <3>2. (i + 1) * GpuStep <= j * GpuStep
        BY <1>1, <3>1, TimesOrder
      <3>3. (i + 1) * GpuStep = GpuStep * i + GpuStep /\ j * GpuStep = GpuStep * j
        BY <1>1
      <3> QED BY <3>2, <3>3
    <2> QED BY <2>1 DEF Multiples
  <1>8. \A n \in Nat : n * GpuStep \in Multiples
    <2>1. \A n \in Nat : n * GpuStep = GpuStep * n
      BY <1>1
    <2> QED BY <2>1 DEF Multiples
  <1> QED BY <1>2, <1>3, <1>5, <1>6, <1>7, <1>8

\* Without its last instance, an agent would be no faster than any other is.
Balanced(i, q) ==
    \A b, c \in Agents : q[b] > GpuStep =>
        AtMost(Norm(i, b, q[b] - GpuStep), Norm(i, c, q[c]))

\* q hands out whole instances, one at least to everyone, within the budget.
Shared(i, q) ==
    /\ q \in [Agents -> Multiples] /\ \A a \in Agents : q[a] >= GpuStep
    /\ SumFunction(q) \in Multiples /\ SumFunction(q) <= i.budget
    /\ Balanced(i, q)

\* No agent has more than the budget.
LEMMA SharedWithin ==
    ASSUME NEW i \in Inputs, NEW q, Shared(i, q)
    PROVE  /\ q \in [Agents -> Nat] /\ SumFunction(q) \in Nat /\ i.budget \in Nat
           /\ \A a \in Agents : q[a] \in 0..i.budget
  <1>1. q \in [Agents -> Nat] /\ i.budget \in Nat /\ SumFunction(q) <= i.budget
    BY MultipleFacts, AllocationAssumption DEF Shared
  <1>2. SumFunction(q) \in Nat /\ \A a \in Agents : q[a] <= SumFunction(q)
    BY <1>1, AllocationAssumption, SumBounds
  <1>3. \A a \in Agents : q[a] \in Nat
    BY <1>1
  <1> QED BY <1>1, <1>2, <1>3

\* One instance for every agent.
LEMMA SharedStart ==
    ASSUME NEW i \in Inputs, i.budget >= Cardinality(Agents) * GpuStep
    PROVE  Shared(i, [a \in Agents |-> GpuStep])
  <1> DEFINE q == [a \in Agents |-> GpuStep]
  <1>1. GpuStep \in Nat \ {0} /\ IsFiniteSet(Agents) /\ Cardinality(Agents) \in Nat
    BY Sizes, AllocationAssumption, FS_CardinalityType
  <1>2. SumFunction(q) = Cardinality(Agents) * GpuStep
    BY <1>1, SumConstant
  <1>3. SumFunction(q) \in Multiples
    BY <1>1, <1>2, MultipleFacts
  <1>4. q \in [Agents -> Multiples] /\ \A a \in Agents : q[a] = GpuStep
    BY MultipleFacts
  <1> HIDE DEF q
  <1>5. \A a \in Agents : q[a] >= GpuStep /\ ~ (q[a] > GpuStep)
    BY <1>1, <1>4
  <1>6. Balanced(i, q)
    BY <1>5 DEF Balanced
  <1>7. SumFunction(q) <= i.budget
    <2>1. i.budget \in Nat /\ Cardinality(Agents) * GpuStep \in Nat
      BY <1>1, <1>2, <1>3, MultipleFacts, AllocationAssumption
    <2> QED BY <1>2, <2>1
  <1> QED BY <1>3, <1>4, <1>5, <1>6, <1>7 DEF Shared, q

\* The agents that no other one is slower than.
Slowests(i, q) ==
    {a \in Agents : \A b \in Agents : AtMost(Norm(i, a, q[a]), Norm(i, b, q[b]))}

\* There is one, whatever has been handed out.
LEMMA SlowestAgent ==
    ASSUME NEW i \in Inputs, NEW q, Shared(i, q)
    PROVE  Min(Slowests(i, q)) \in Slowests(i, q)
  <1> DEFINE v(a) == Norm(i, a, q[a])
             R == {p \in Agents \X Agents : AtMost(v(p[1]), v(p[2]))}
  <1>1. \A a \in Agents : v(a) \in Fractions
    <2>1. ASSUME NEW a \in Agents PROVE v(a) \in Fractions
      <3>1. q[a] \in 0..i.budget /\ q[a] <= q[a]
        BY SharedWithin
      <3> QED BY <3>1, NormGrows
    <2> HIDE DEF v
    <2> QED BY <2>1
  <1>2. \A x, y \in Agents : <<x, y>> \in R <=> AtMost(v(x), v(y))
    <2> HIDE DEF v
    <2> QED OBVIOUS
  <1> HIDE DEF R, v
  <1>3. \A x, y \in Agents : <<x, y>> \in R \/ <<y, x>> \in R
    BY <1>1, <1>2, AtMostOrder
  <1>4. \A x, y, z \in Agents : <<x, y>> \in R /\ <<y, z>> \in R => <<x, z>> \in R
    <2>1. ASSUME NEW x \in Agents, NEW y \in Agents, NEW z \in Agents,
                 AtMost(v(x), v(y)), AtMost(v(y), v(z))
          PROVE  AtMost(v(x), v(z))
      BY <1>1, <2>1, AtMostOrder
    <2> QED BY <1>2, <2>1
  <1>5. \E x \in Agents : \A y \in Agents : <<x, y>> \in R
    BY <1>3, <1>4, FiniteLeast, AllocationAssumption
  <1>6. Slowests(i, q) # {}
    BY <1>2, <1>5 DEF Slowests, v
  <1>7. Slowests(i, q) \subseteq Nat
    BY AllocationAssumption DEF Slowests
  <1> QED BY <1>6, <1>7, MinNat

\* An instance for a slowest agent keeps the allocation balanced.
LEMMA SharedStep ==
    ASSUME NEW i \in Inputs, i.budget % GpuStep = 0, NEW q, Shared(i, q),
           SumFunction(q) < i.budget, NEW s \in Slowests(i, q)
    PROVE  Shared(i, [q EXCEPT ![s] = q[s] + GpuStep])
  <1> DEFINE r == [q EXCEPT ![s] = q[s] + GpuStep]
  <1>1. /\ s \in Agents /\ \A b \in Agents : AtMost(Norm(i, s, q[s]), Norm(i, b, q[b]))
        /\ GpuStep \in Nat \ {0} /\ i.budget \in Nat /\ SumFunction(q) \in Nat
        /\ q \in [Agents -> Nat] /\ q \in [Agents -> Multiples]
        /\ \A a \in Agents : q[a] \in 0..i.budget
    BY Sizes, SharedWithin DEF Slowests, Shared
  <1>2. q[s] + GpuStep \in Multiples
    BY <1>1, MultipleFacts
  <1>3. r \in [Agents -> Multiples] /\ r[s] = q[s] + GpuStep /\ \A a \in Agents : a # s => r[a] = q[a]
    BY <1>1, <1>2
  <1>4. SumFunction(r) = SumFunction(q) + GpuStep
    <2>1. IsFiniteSet(Agents) /\ s \in Agents /\ q \in [Agents -> Nat] /\ GpuStep \in Nat
      BY <1>1, AllocationAssumption
    <2>2. r \in [Agents -> Nat]
      BY <1>3, MultipleFacts
    <2> HIDE DEF r
    <2> QED BY <1>3, <2>1, <2>2, SumUpdate
  <1> HIDE DEF r
  <1>5. SumFunction(r) \in Multiples /\ SumFunction(r) <= i.budget
    <2>1. i.budget \in Multiples /\ SumFunction(q) \in Multiples
      BY <1>1, MultipleFacts DEF Shared
    <2> QED BY <1>4, <2>1, MultipleFacts
  <1>6. r \in [Agents -> Nat] /\ \A a \in Agents : r[a] \in 0..i.budget
    <2>1. r \in [Agents -> Nat]
      BY <1>3, MultipleFacts
    <2>2. SumFunction(r) \in Nat /\ \A a \in Agents : r[a] <= SumFunction(r)
      BY <2>1, AllocationAssumption, SumBounds
    <2>3. \A a \in Agents : r[a] \in Nat
      BY <2>1
    <2> QED BY <1>1, <1>5, <2>1, <2>2, <2>3
  <1>7. \A a \in Agents : q[a] <= r[a] /\ r[a] >= GpuStep
    <2>1. \A a \in Agents : q[a] \in Nat /\ q[a] >= GpuStep
      BY <1>1 DEF Shared
    <2> QED BY <1>1, <1>3, <2>1
  <1>8. ASSUME NEW b \in Agents, NEW c \in Agents, r[b] > GpuStep
        PROVE  AtMost(Norm(i, b, r[b] - GpuStep), Norm(i, c, r[c]))
    <2> DEFINE g == r[b] - GpuStep
    <2>1. AtMost(Norm(i, b, g), Norm(i, c, q[c]))
      <3>1. CASE b = s
        <4>1. g = q[s]
          BY <1>1, <1>3, <3>1
        <4> HIDE DEF g
        <4> QED BY <1>1, <3>1, <4>1
      <3>2. CASE b # s
        BY <1>3, <1>8, <3>2 DEF Shared, Balanced
      <3> QED BY <3>1, <3>2
    <2>2. g \in 0..i.budget /\ g <= g /\ q[c] \in 0..i.budget /\ r[c] \in 0..i.budget /\ q[c] <= r[c]
      <3>1. r[b] \in 0..i.budget /\ q[c] \in 0..i.budget /\ r[c] \in 0..i.budget /\ q[c] <= r[c]
        BY <1>1, <1>6, <1>7
      <3> QED BY <1>1, <1>8, <3>1
    <2> HIDE DEF g
    <2>3. /\ Norm(i, b, g) \in Fractions /\ Norm(i, c, q[c]) \in Fractions
          /\ Norm(i, c, r[c]) \in Fractions /\ AtMost(Norm(i, c, q[c]), Norm(i, c, r[c]))
      BY <2>2, NormGrows
    <2>4. AtMost(Norm(i, b, g), Norm(i, c, r[c]))
      BY <2>1, <2>3, AtMostOrder
    <2> QED BY <2>4 DEF g
  <1>9. Balanced(i, r)
    BY <1>8 DEF Balanced
  <1>10. Shared(i, r)
    BY <1>3, <1>5, <1>7, <1>9 DEF Shared
  <1> QED BY <1>10 DEF r

\* A balanced allocation of the whole budget has the fastest slowest agent.
LEMMA SharedOptimal ==
    ASSUME NEW i \in Inputs, NEW q, Shared(i, q), SumFunction(q) = i.budget,
           NEW w \in [Agents -> Multiples], \A a \in Agents : w[a] >= GpuStep,
           SumFunction(w) = i.budget
    PROVE  \E b \in Agents : \A c \in Agents : AtMost(Norm(i, b, w[b]), Norm(i, c, q[c]))
  <1>1. /\ q \in [Agents -> Nat] /\ q \in [Agents -> Multiples] /\ i.budget \in Nat
        /\ \A a \in Agents : q[a] \in 0..i.budget
    BY SharedWithin DEF Shared
  <1>2. w \in [Agents -> Nat] /\ IsFiniteSet(Agents) /\ GpuStep \in Nat \ {0}
    BY MultipleFacts, AllocationAssumption, Sizes
  <1>3. CASE \A a \in Agents : q[a] <= w[a]
    <2>1. \A a \in Agents : q[a] = w[a]
      <3>1. SumFunction(q) = SumFunction(w)
        OBVIOUS
      <3> QED BY <1>1, <1>2, <1>3, <3>1, SumTrade, Zenon
    <2>2. PICK s \in Slowests(i, q) : TRUE
      BY SlowestAgent
    <2> QED BY <2>1, <2>2 DEF Slowests
  <1>4. CASE \E a \in Agents : ~ (q[a] <= w[a])
    <2>1. PICK b \in Agents : ~ (q[b] <= w[b])
      BY <1>4
    <2> DEFINE g == q[b] - GpuStep
    <2>2. q[b] \in Nat /\ w[b] \in Nat /\ q[b] \in Multiples /\ w[b] \in Multiples
          /\ w[b] >= GpuStep /\ q[b] \in 0..i.budget
      BY <1>1, <1>2
    <2>3. w[b] < q[b]
      BY <2>1, <2>2
    <2>4. w[b] + GpuStep <= q[b]
      BY <2>2, <2>3, MultipleFacts
    <2>5. w[b] \in 0..i.budget /\ g \in 0..i.budget /\ w[b] <= g /\ q[b] > GpuStep
      BY <1>1, <1>2, <2>2, <2>4
    <2>6. \A c \in Agents : AtMost(Norm(i, b, g), Norm(i, c, q[c]))
      BY <2>5 DEF Shared, Balanced
    <2> HIDE DEF g
    <2>7. /\ Norm(i, b, w[b]) \in Fractions /\ Norm(i, b, g) \in Fractions
          /\ AtMost(Norm(i, b, w[b]), Norm(i, b, g))
      BY <2>5, NormGrows
    <2>8. ASSUME NEW c \in Agents PROVE AtMost(Norm(i, b, w[b]), Norm(i, c, q[c]))
      <3>1. q[c] \in 0..i.budget /\ q[c] <= q[c]
        BY <1>1
      <3>2. Norm(i, c, q[c]) \in Fractions
        BY <3>1, NormGrows
      <3> QED BY <2>6, <2>7, <3>2, AtMostOrder
    <2> QED BY <2>8
  <1> QED BY <1>3, <1>4

(***************************************************************************)
(* The theorems.                                                           *)
(***************************************************************************)
\* Before the rounds nothing is handed out; then the curves are the solved
\* ones and the allocation is balanced; in the end the budget is used up.
AllocationInvariant ==
    /\ input \in Inputs
    /\ phase \in {"start", "rejected", "give", "done"}
    /\ phase \in {"give", "done"} =>
         /\ input.budget % GpuStep = 0 /\ Shared(input, gpus)
         /\ curves = [a \in Agents |-> Solve(input.tp[a], input.budget)]
    /\ phase = "done" => SumFunction(gpus) = input.budget

\* With the solved curves, the agent of a round is a slowest one.
LEMMA BottleneckSlowest ==
    ASSUME AllocationInvariant, phase \in {"give", "done"}
    PROVE  /\ \A a \in Agents : \A g : Normalized(a, g) = Norm(input, a, g)
           /\ Bottleneck \in Slowests(input, gpus)
  <1>1. \A a \in Agents : \A g : Normalized(a, g) = Norm(input, a, g)
    BY DEF AllocationInvariant, Normalized, Norm
  <1>2. Bottleneck = Min(Slowests(input, gpus))
    BY <1>1 DEF Bottleneck, Slowests
  <1>3. input \in Inputs /\ Shared(input, gpus)
    BY DEF AllocationInvariant
  <1>4. Min(Slowests(input, gpus)) \in Slowests(input, gpus)
    BY <1>3, SlowestAgent
  <1> QED BY <1>1, <1>2, <1>4

\* Every behaviour of allocate satisfies the invariant.
THEOREM AllocationInductive == Spec => []AllocationInvariant
  <1>1. Init => AllocationInvariant
    BY DEF Init, AllocationInvariant
  <1>2. AllocationInvariant /\ [Next]_vars => AllocationInvariant'
    <2> SUFFICES ASSUME AllocationInvariant, [Next]_vars PROVE AllocationInvariant'
      OBVIOUS
    <2>0. input \in Inputs
      BY DEF AllocationInvariant
    <2>1. CASE Reject
      BY <2>1 DEF Reject, AllocationInvariant
    <2>2. CASE SolveAgents
      <3>1. input' = input /\ phase' = "give" /\ gpus' = [a \in Agents |-> GpuStep]
            /\ curves' = [a \in Agents |-> Solve(input.tp[a], input.budget)]
            /\ input.budget % GpuStep = 0 /\ input.budget >= Cardinality(Agents) * GpuStep
        BY <2>2 DEF SolveAgents, Admissible
      <3>2. Shared(input, gpus')
        BY <2>0, <3>1, SharedStart
      <3> QED BY <2>0, <3>1, <3>2 DEF AllocationInvariant
    <2>3. CASE Give
      <3> DEFINE s == Bottleneck
      <3>1. /\ input' = input /\ phase' = phase /\ phase = "give" /\ curves' = curves
            /\ gpus' = [gpus EXCEPT ![s] = gpus[s] + GpuStep]
            /\ SumFunction(gpus) < input.budget
        BY <2>3 DEF Give, Allocated
      <3>2. s \in Slowests(input, gpus)
        BY <3>1, BottleneckSlowest
      <3>3. input.budget % GpuStep = 0 /\ Shared(input, gpus)
            /\ curves = [a \in Agents |-> Solve(input.tp[a], input.budget)]
        BY <3>1 DEF AllocationInvariant
      <3> HIDE DEF s
      <3>4. Shared(input, gpus')
        BY <2>0, <3>1, <3>2, <3>3, SharedStep
      <3> QED BY <2>0, <3>1, <3>3, <3>4 DEF AllocationInvariant
    <2>4. CASE Return
      <3>1. /\ input' = input /\ phase' = "done" /\ phase = "give" /\ curves' = curves
            /\ gpus' = gpus /\ SumFunction(gpus) >= input.budget
        BY <2>4 DEF Return, Allocated
      <3>2. input.budget % GpuStep = 0 /\ Shared(input, gpus)
            /\ curves = [a \in Agents |-> Solve(input.tp[a], input.budget)]
        BY <3>1 DEF AllocationInvariant
      <3>3. SumFunction(gpus) \in Nat /\ input.budget \in Nat /\ SumFunction(gpus) <= input.budget
        BY <2>0, <3>2, SharedWithin DEF Shared
      <3>4. SumFunction(gpus) = input.budget
        BY <3>1, <3>3
      <3> QED BY <2>0, <3>1, <3>2, <3>4 DEF AllocationInvariant
    <2>5. CASE UNCHANGED vars
      BY <2>5 DEF vars, AllocationInvariant
    <2> QED BY <2>1, <2>2, <2>3, <2>4, <2>5 DEF Next
  <1> QED BY <1>1, <1>2, PTL DEF Spec

\* The dynamic program of solve is exact: the plan it reconstructs for k groups
\* covers the context at the least sum of inverse throughputs of all plans of k
\* groups, and it finds none only if there is none.
THEOREM PlansStayMinimal == Spec => []PlansMinimal
  <1>1. AllocationInvariant => PlansMinimal
    <2> SUFFICES ASSUME AllocationInvariant, NEW a \in Agents, NEW k \in 1..MaxGroup
                 PROVE  LET t == input.tp[a]
                            dp == Dp(t)
                        IN  IF dp[k][MaxIdx] = Inf THEN Schemes(t, k) = {}
                            ELSE /\ Scheme(t, dp, k) \in Schemes(t, k)
                                 /\ \A s \in Schemes(t, k) :
                                       SchemeCost(t, Scheme(t, dp, k)) <= SchemeCost(t, s)
      BY DEF PlansMinimal
    <2> DEFINE t == input.tp[a]
               dp == Dp(t)
    <2>1. t \in [Ranges -> Nat]
      BY AllocationAssumption DEF AllocationInvariant
    <2>2. DpTable(dp, t)
      BY <2>1, DpFills
    <2> HIDE DEF t, dp
    <2>3. CASE dp[k][MaxIdx] = Inf
      <3>1. ASSUME NEW s \in Schemes(t, k) PROVE FALSE
        BY <2>1, <2>2, <2>3, DpBound
      <3> QED BY <2>3, <3>1 DEF t, dp
    <2>4. CASE dp[k][MaxIdx] # Inf
      <3>1. Scheme(t, dp, k) \in Schemes(t, k)
        BY <2>1, <2>2, <2>4, SchemePlan
      <3>2. SchemeCost(t, Scheme(t, dp, k)) = dp[k][MaxIdx]
        BY <2>1, <2>2, <2>4, SchemeCostExact
      <3>3. \A s \in Schemes(t, k) : dp[k][MaxIdx] <= SchemeCost(t, s)
        BY <2>1, <2>2, DpBound
      <3> QED BY <2>4, <3>1, <3>2, <3>3 DEF t, dp
    <2> QED BY <2>3, <2>4
  <1> QED BY <1>1, AllocationInductive, PTL

\* _allocate_instances_greedily hands out all instances, and no other split of
\* them over the groups of its plan has a faster slowest group.
THEOREM SplitsStayBest == Spec => []GreedyBest
  <1>1. AllocationInvariant => GreedyBest
    <2> SUFFICES ASSUME AllocationInvariant, phase = "give",
                        NEW a \in Agents, NEW g \in DOMAIN curves[a],
                        curves[a][g] # NoAssignment
                 PROVE  LET c == curves[a][g]
                            n == g \div GpuStep
                        IN  /\ SumFunction(c.counts) = n
                            /\ \A w \in Shares(Len(c.scheme), n) :
                                  MinThroughput(input.tp[a], c.scheme, w) <= c.throughput
      BY DEF GreedyBest
    <2> DEFINE t == input.tp[a]
               n == g \div GpuStep
               d == Dp(t)
    <2>1. t \in [Ranges -> Nat] /\ input.budget \in Nat
      BY AllocationAssumption DEF AllocationInvariant
    <2>2. curves[a] = Solve(t, input.budget)
      BY DEF AllocationInvariant
    <2>3. g \in 0..input.budget
      BY <2>2 DEF Solve
    <2>4. curves[a][g] = Best(t, d, n)
      BY <2>1, <2>2, <2>3, CurveEntry
    <2>5. n \in Nat
      <3>1. g \in Nat /\ g <= g /\ GpuStep \in Nat \ {0}
        BY <2>1, <2>3, Sizes
      <3> QED BY <3>1, DivOrder
    <2>6. DpTable(d, t)
      BY <2>1, DpFills
    <2> HIDE DEF t, n, d
    <2>7. LET c == Best(t, d, n) IN
          /\ SumFunction(c.counts) = n
          /\ \A w \in Shares(Len(c.scheme), n) : MinThroughput(t, c.scheme, w) <= c.throughput
      BY <2>1, <2>4, <2>5, <2>6, BestSplits
    <2> QED BY <2>4, <2>7 DEF t, n
  <1> QED BY <1>1, AllocationInductive, PTL

\* allocate uses the budget exactly, gives every agent whole instances and one
\* at least, and no other such allocation has a faster slowest agent.
THEOREM AllocationOptimal == Spec => []MaxMinOptimal
  <1>1. AllocationInvariant => MaxMinOptimal
    <2> SUFFICES ASSUME AllocationInvariant, phase = "done" PROVE MaxMinOptimal
      BY DEF MaxMinOptimal
    <2>1. input \in Inputs /\ Shared(input, gpus) /\ SumFunction(gpus) = input.budget
      BY DEF AllocationInvariant
    <2>2. \A a \in Agents : gpus[a] >= GpuStep /\ gpus[a] % GpuStep = 0
      BY <2>1, MultipleFacts DEF Shared
    <2>3. ASSUME NEW w \in [Agents -> {GpuStep * i : i \in 1..(input.budget \div GpuStep)}],
                 SumFunction(w) = input.budget
          PROVE  \E b \in Agents : \A c \in Agents :
                    AtMost(Normalized(b, w[b]), Normalized(c, gpus[c]))
      <3>1. \A i \in 1..(input.budget \div GpuStep) :
               GpuStep * i \in Multiples /\ GpuStep * i >= GpuStep
        <4>1. ASSUME NEW i \in 1..(input.budget \div GpuStep)
              PROVE  GpuStep * i \in Multiples /\ GpuStep * i >= GpuStep
          <5>1. i \in Nat /\ 1 <= i /\ GpuStep \in Nat
            BY Sizes
          <5>2. 1 * GpuStep <= i * GpuStep /\ 1 * GpuStep = GpuStep /\ i * GpuStep = GpuStep * i
            BY <5>1, TimesOrder
          <5> QED BY <5>1, <5>2 DEF Multiples
        <4> QED BY <4>1
      <3>2. w \in [Agents -> Multiples] /\ \A a \in Agents : w[a] >= GpuStep
        BY <3>1
      <3>3. \E b \in Agents : \A c \in Agents :
               AtMost(Norm(input, b, w[b]), Norm(input, c, gpus[c]))
        BY <2>1, <2>3, <3>2, SharedOptimal
      <3>4. \A a \in Agents : \A g : Normalized(a, g) = Norm(input, a, g)
        BY BottleneckSlowest
      <3> QED BY <3>3, <3>4
    <2> QED BY <2>1, <2>2, <2>3 DEF MaxMinOptimal, Allocated
  <1> QED BY <1>1, AllocationInductive, PTL
=============================================================================
