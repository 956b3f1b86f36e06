----------------------------- MODULE Induction -----------------------------
(***************************************************************************)
(* Induction without an induction rule, by smallest counterexamples; and   *)
(* what it shows of FoldLeft of the community modules, for one operator    *)
(* Combine that an instance gives, and of the list operations of           *)
(* PythonLists.                                                            *)
(***************************************************************************)
EXTENDS PythonLists, SequencesExt, FiniteSetsExt, FiniteSetTheorems,
        WellFoundedInduction, TLAPS

CONSTANT Combine(_, _)

Less == {ss \in Nat \X Nat : ss[1] < ss[2]}

\* A set of naturals has a smallest element.
LEMMA LeastNat ==
    ASSUME NEW S, S \subseteq Nat, S # {}
    PROVE  \E x \in S : \A y \in S : x <= y
  <1>1. IsWellFoundedOn(Less, Nat)
    BY NatLessThanWellFounded DEF OpToRel, Less
  <1>2. PICK x \in S : \A y \in S : ~ (<<y, x>> \in Less)
    BY <1>1, WFMin
  <1>3. \A m, n \in Nat : m < n => <<m, n>> \in Less
    BY DEF Less
  <1>4. ASSUME NEW y \in S
        PROVE  x <= y
    <2>1. x \in Nat /\ y \in Nat
      OBVIOUS
    <2>2. ~ (y < x)
      BY <1>2, <1>3, <2>1, Zenon
    <2> QED BY <2>1, <2>2
  <1> QED BY <1>4

\* Induction up to n, for a set of naturals.
LEMMA UpTo ==
    ASSUME NEW n \in Nat, NEW S, 0 \in S,
           \A i \in 1..n : i - 1 \in S => i \in S
    PROVE  \A i \in 0..n : i \in S
  <1> SUFFICES ASSUME NEW j \in 0..n, j \notin S PROVE FALSE
    OBVIOUS
  <1> DEFINE C == {i \in 0..n : i \notin S}
  <1>1. PICK x \in C : \A y \in C : x <= y
    <2>1. C \subseteq Nat /\ C # {}
      OBVIOUS
    <2> HIDE DEF C
    <2> QED BY <2>1, LeastNat
  <1>2. x \in 1..n
    BY <1>1
  <1>3. x - 1 \notin C /\ x - 1 \in 0..n
    BY <1>1, <1>2
  <1> QED BY <1>1, <1>2, <1>3

\* Max of an initial segment of the naturals.
LEMMA MaxSegment ==
    ASSUME NEW n \in Nat, NEW s \in SUBSET (1..n), n \in s
    PROVE  Max(s) = n
  <1>1. n \in s /\ \A y \in s : n >= y
    OBVIOUS
  <1>2. Max(s) \in s /\ \A y \in s : Max(s) >= y
    BY <1>1 DEF Max
  <1>3. ASSUME NEW x \in s, \A y \in s : x >= y PROVE x = n
    <2>1. x \in 1..n
      OBVIOUS
    <2> QED BY <1>1, <1>3, <2>1
  <1> QED BY <1>2, <1>3, Zenon

\* Min of a set of naturals is its least element.
LEMMA MinNat ==
    ASSUME NEW S, S \subseteq Nat, S # {}
    PROVE  Min(S) \in S /\ \A y \in S : Min(S) <= y
  <1>1. \E x \in S : \A y \in S : x <= y
    BY LeastNat
  <1> QED BY <1>1, Zenon DEF Min

\* Subsets of a finite set, and what removing an element does to their size.
LEMMA SubsetSizes ==
    ASSUME NEW D, IsFiniteSet(D)
    PROVE  /\ Cardinality(D) \in Nat
           /\ \A s \in SUBSET D : /\ IsFiniteSet(s) /\ Cardinality(s) \in 0..Cardinality(D)
                                  /\ Cardinality(s) = 0 <=> s = {}
           /\ \A s \in SUBSET D : \A x \in s : /\ s \ {x} \in SUBSET D
                                               /\ Cardinality(s \ {x}) = Cardinality(s) - 1
  <1>1. Cardinality(D) \in Nat
    BY FS_CardinalityType
  <1>2. ASSUME NEW s \in SUBSET D
        PROVE  /\ IsFiniteSet(s) /\ Cardinality(s) \in 0..Cardinality(D)
               /\ Cardinality(s) = 0 <=> s = {}
    <2>1. IsFiniteSet(s) /\ Cardinality(s) <= Cardinality(D)
      BY FS_Subset
    <2>2. Cardinality(s) \in Nat /\ (Cardinality(s) = 0 <=> s = {})
      BY <2>1, FS_CardinalityType, FS_EmptySet
    <2> QED BY <1>1, <2>1, <2>2
  <1>3. ASSUME NEW s \in SUBSET D, NEW x \in s
        PROVE  s \ {x} \in SUBSET D /\ Cardinality(s \ {x}) = Cardinality(s) - 1
    BY <1>2, FS_RemoveElement
  <1> QED BY <1>1, <1>2, <1>3

\* Induction over the subsets of a finite set, for a set of them.
LEMMA SubsetInduction ==
    ASSUME NEW D, IsFiniteSet(D), NEW S, {} \in S,
           \A s \in SUBSET D : \A x \in s : s \ {x} \in S => s \in S
    PROVE  \A s \in SUBSET D : s \in S
  <1> DEFINE n == Cardinality(D)
             T == {k \in 0..n : \A s \in SUBSET D : Cardinality(s) = k => s \in S}
  <1>1. n \in Nat
    BY SubsetSizes
  <1>2. 0 \in T
    <2>1. \A s \in SUBSET D : Cardinality(s) = 0 => s \in S
      BY SubsetSizes
    <2> QED BY <1>1, <2>1
  <1>3. ASSUME NEW k \in 1..n, k - 1 \in T PROVE k \in T
    <2>1. ASSUME NEW s \in SUBSET D, Cardinality(s) = k PROVE s \in S
      <3>1. s # {}
        BY <1>1, <2>1, SubsetSizes
      <3>2. PICK x \in s : TRUE
        BY <3>1
      <3>3. s \ {x} \in SUBSET D /\ Cardinality(s \ {x}) = k - 1
        BY <2>1, SubsetSizes
      <3>4. s \ {x} \in S
        BY <1>3, <3>3
      <3> QED BY <3>4
    <2> QED BY <1>1, <2>1
  <1>4. \A k \in 0..n : k \in T
    <2>1. \A k \in 1..n : k - 1 \in T => k \in T
      BY <1>3
    <2> HIDE DEF T, n
    <2> QED BY <1>1, <1>2, <2>1, UpTo
  <1> QED BY <1>4, SubsetSizes

\* A finite set with a total, transitive relation has a least element.
LEMMA FiniteLeast ==
    ASSUME NEW D, IsFiniteSet(D), D # {}, NEW R,
           \A x, y \in D : <<x, y>> \in R \/ <<y, x>> \in R,
           \A x, y, z \in D : <<x, y>> \in R /\ <<y, z>> \in R => <<x, z>> \in R
    PROVE  \E x \in D : \A y \in D : <<x, y>> \in R
  <1> DEFINE S == {s \in SUBSET D : s # {} => \E x \in s : \A y \in s : <<x, y>> \in R}
  <1>1. {} \in S
    OBVIOUS
  <1>2. ASSUME NEW s \in SUBSET D, NEW x \in s, s \ {x} \in S PROVE s \in S
    <2>1. CASE s \ {x} = {}
      BY <2>1
    <2>2. CASE s \ {x} # {}
      <3>1. PICK l \in s \ {x} : \A y \in s \ {x} : <<l, y>> \in R
        BY <1>2, <2>2
      <3>2. CASE <<l, x>> \in R
        BY <3>1, <3>2
      <3>3. CASE <<x, l>> \in R
        BY <3>1, <3>3
      <3> QED BY <3>1, <3>2, <3>3
    <2> QED BY <2>1, <2>2
  <1>3. \A s \in SUBSET D : s \in S
    <2>1. \A s \in SUBSET D : \A x \in s : s \ {x} \in S => s \in S
      BY <1>2
    <2> HIDE DEF S
    <2> QED BY <1>1, <2>1, SubsetInduction
  <1> QED BY <1>3

\* c starts with a, and F gives the next value.
Iteration(c, m, X, a, F) ==
    c \in [0..m -> X] /\ c[0] = a /\ \A i \in 1..m : c[i] = F[<<i, c[i - 1]>>]

\* Values computed one from the other exist.
LEMMA Iterates ==
    ASSUME NEW m \in Nat, NEW X, NEW a \in X, NEW F \in [(1..m) \X X -> X]
    PROVE  \E c : Iteration(c, m, X, a, F)
  <1> DEFINE S == {n \in 0..m : \E c \in [0..n -> X] :
                       c[0] = a /\ \A i \in 1..n : c[i] = F[<<i, c[i - 1]>>]}
  <1>1. 0 \in S
    <2> DEFINE c == [i \in 0..0 |-> a]
    <2>1. c \in [0..0 -> X] /\ c[0] = a /\ \A i \in 1..0 : c[i] = F[<<i, c[i - 1]>>]
      OBVIOUS
    <2> HIDE DEF c
    <2>2. 0 \in 0..m
      OBVIOUS
    <2> QED BY <2>1, <2>2
  <1>2. ASSUME NEW n \in 1..m, n - 1 \in S PROVE n \in S
    <2>1. PICK b \in [0..(n - 1) -> X] :
             b[0] = a /\ \A i \in 1..(n - 1) : b[i] = F[<<i, b[i - 1]>>]
      BY <1>2
    <2> DEFINE v == F[<<n, b[n - 1]>>]
               c == [i \in 0..n |-> IF i = n THEN v ELSE b[i]]
    <2>2. v \in X
      <3>1. n - 1 \in 0..(n - 1)
        OBVIOUS
      <3>2. b[n - 1] \in X
        BY <3>1
      <3> QED BY <3>2
    <2>3. c \in [0..n -> X] /\ c[n] = v /\ \A i \in 0..(n - 1) : c[i] = b[i]
      <3> HIDE DEF v
      <3>1. ASSUME NEW i \in 0..n, i # n PROVE i \in 0..(n - 1)
        BY <3>1
      <3>2. \A i \in 0..n : i # n => b[i] \in X
        BY <3>1
      <3>3. n \in 0..n /\ \A i \in 0..(n - 1) : i \in 0..n /\ i # n
        OBVIOUS
      <3> QED BY <2>2, <3>2, <3>3
    <2> HIDE DEF c
    <2>4. c[0] = a
      <3>1. 0 \in 0..(n - 1)
        OBVIOUS
      <3> QED BY <2>1, <2>3, <3>1
    <2>5. ASSUME NEW i \in 1..n PROVE c[i] = F[<<i, c[i - 1]>>]
      <3>1. i - 1 \in 0..(n - 1)
        OBVIOUS
      <3>2. c[i - 1] = b[i - 1]
        BY <2>3, <3>1
      <3>3. CASE i = n
        BY <2>3, <3>2, <3>3
      <3>4. CASE i # n
        <4>1. i \in 1..(n - 1) /\ i \in 0..(n - 1)
          BY <3>4
        <4> QED BY <2>1, <2>3, <3>2, <4>1
      <3> QED BY <3>3, <3>4
    <2>6. n \in 0..m
      OBVIOUS
    <2> HIDE DEF v
    <2> QED BY <2>3, <2>4, <2>5, <2>6
  <1>3. m \in S
    <2>1. \A n \in 1..m : n - 1 \in S => n \in S
      BY <1>2
    <2>2. m \in 0..m
      OBVIOUS
    <2> HIDE DEF S
    <2> QED BY <1>1, <2>1, <2>2, UpTo
  <1> QED BY <1>3 DEF Iteration
-----------------------------------------------------------------------------
Fold(b, q) == FoldLeft(Combine, b, q)

\* g solves the recursion by which MapThenFoldSet is defined.
Solves(g, n, b, q) ==
    g = [s \in SUBSET (1..n) |->
            IF s = {} THEN b ELSE Combine(g[s \ {Max(s)}], q[Max(s)])]

\* run[i] is the result after i elements.
Runs(run, n, b, q) ==
    /\ run[0] = b
    /\ run[n] = Fold(b, q)
    /\ \A i \in 1..n : run[i] = Combine(run[i - 1], q[i])

\* The recursion has a solution.
LEMMA FoldSolution ==
    ASSUME NEW n \in Nat, NEW b, NEW q
    PROVE  \E g : Solves(g, n, b, q)
  <1> DEFINE S == {k \in 0..n : \E g : Solves(g, k, b, q)}
  <1>1. 0 \in S
    <2> DEFINE g == [s \in SUBSET (1..0) |-> b]
    <2>1. Solves(g, 0, b, q)
      <3>1. \A s \in SUBSET (1..0) : s = {}
        OBVIOUS
      <3> QED BY <3>1 DEF Solves
    <2>2. 0 \in 0..n
      OBVIOUS
    <2> HIDE DEF g
    <2> QED BY <2>1, <2>2, Zenon
  <1>2. ASSUME NEW k \in 1..n, k - 1 \in S PROVE k \in S
    <2>1. PICK h : Solves(h, k - 1, b, q)
      BY <1>2
    <2> DEFINE g == [s \in SUBSET (1..k) |->
                       IF k \in s THEN Combine(h[s \ {k}], q[k]) ELSE h[s]]
    <2>2. ASSUME NEW s \in SUBSET (1..k)
          PROVE  g[s] = IF s = {} THEN b ELSE Combine(g[s \ {Max(s)}], q[Max(s)])
      <3>1. CASE k \in s
        <4>1. Max(s) = k
          BY <3>1, MaxSegment
        <4>2. s \ {k} \in SUBSET (1..k)
          OBVIOUS
        <4>3. g[s \ {k}] = h[s \ {k}]
          BY <4>2
        <4>4. g[s] = Combine(h[s \ {k}], q[k])
          BY <3>1
        <4> HIDE DEF g
        <4> QED BY <3>1, <4>1, <4>3, <4>4
      <3>2. CASE k \notin s
        <4>1. s \in SUBSET (1..(k - 1))
          BY <3>2
        <4>2. g[s] = h[s]
          BY <3>2
        <4>3. h[s] = IF s = {} THEN b ELSE Combine(h[s \ {Max(s)}], q[Max(s)])
          BY <2>1, <4>1 DEF Solves
        <4>4. s \ {Max(s)} \in SUBSET (1..k) /\ k \notin s \ {Max(s)}
          BY <3>2
        <4>5. g[s \ {Max(s)}] = h[s \ {Max(s)}]
          BY <4>4
        <4> HIDE DEF g
        <4> QED BY <4>2, <4>3, <4>5
      <3> QED BY <3>1, <3>2
    <2>3. DOMAIN g = SUBSET (1..k) /\ g = [s \in SUBSET (1..k) |-> g[s]]
      OBVIOUS
    <2>4. Solves(g, k, b, q)
      <3> HIDE DEF g
      <3> QED BY <2>2, <2>3 DEF Solves
    <2>5. k \in 0..n
      OBVIOUS
    <2> HIDE DEF g
    <2> QED BY <2>4, <2>5, Zenon
  <1> HIDE DEF S
  <1>3. n \in S
    <2>1. \A k \in 1..n : k - 1 \in S => k \in S
      BY <1>2
    <2>2. \A i \in 0..n : i \in S
      BY <1>1, <2>1, UpTo
    <2> QED BY <2>2
  <1> QED BY <1>3 DEF S

\* FoldLeft runs through the steps in their order.
LEMMA FoldRun ==
    ASSUME NEW n \in Nat, NEW b, NEW q, DOMAIN q = 1..n
    PROVE  \E run : Runs(run, n, b, q)
  <1> DEFINE g == CHOOSE x : Solves(x, n, b, q)
             run == [i \in 0..n |-> g[1..i]]
  <1>1. Solves(g, n, b, q)
    <2>1. \E x : Solves(x, n, b, q)
      BY FoldSolution
    <2> QED BY <2>1, Zenon
  <1>2. Fold(b, q) = g[1..n]
    BY DEF Fold, FoldLeft, MapThenFoldSet, Solves
  <1> HIDE DEF g
  <1>3. run[0] = b
    <2>0. {} \in SUBSET (1..n) /\ 1..0 = {}
      OBVIOUS
    <2>1. g[{}] = b
      BY <1>1, <2>0, Zenon DEF Solves
    <2>2. run[0] = g[1..0]
      OBVIOUS
    <2> HIDE DEF run
    <2> QED BY <2>0, <2>1, <2>2
  <1>4. ASSUME NEW i \in 1..n PROVE run[i] = Combine(run[i - 1], q[i])
    <2>1. i \in 1..i /\ (1..i) \ {i} = 1..(i - 1)
      OBVIOUS
    <2>2. 1..i \in SUBSET (1..n) /\ 1..i # {}
      BY <2>1
    <2>3. Max(1..i) = i
      BY <2>1, <2>2, MaxSegment
    <2>4. g[1..i] = Combine(g[1..(i - 1)], q[i])
      BY <1>1, <2>1, <2>2, <2>3, Zenon DEF Solves
    <2> QED BY <2>4
  <1>5. run[n] = g[1..n]
    OBVIOUS
  <1> HIDE DEF run
  <1> QED BY <1>2, <1>3, <1>4, <1>5 DEF Runs
-----------------------------------------------------------------------------
(***************************************************************************)
(* bisect_left.                                                            *)
(***************************************************************************)
Middle(r) == (r[1] + r[2]) \div 2
Bisect(g, hits, r) ==
    IF r[1] >= r[2] THEN r[1]
    ELSE IF Middle(r) + 1 \in hits THEN g[<<Middle(r) + 1, r[2]>>]
    ELSE g[<<r[1], Middle(r)>>]
Spans(n) == (0..n) \X (0..n)

\* g solves the recursion of bisect, on all ranges or on those of k blocks.
Bisects(g, hits, n) == g = [r \in Spans(n) |-> Bisect(g, hits, r)]
BisectsTo(g, hits, n, k) ==
    \A r \in Spans(n) : r[2] - r[1] <= k => g[r] = Bisect(g, hits, r)

\* The two halves of a range.
LEMMA Halves ==
    ASSUME NEW n \in Nat, NEW r \in Spans(n), r[1] < r[2]
    PROVE  /\ r[1] \in 0..n /\ r[2] \in 0..n /\ Middle(r) \in r[1]..(r[2] - 1)
           /\ <<Middle(r) + 1, r[2]>> \in Spans(n) /\ <<r[1], Middle(r)>> \in Spans(n)
  <1>1. r[1] \in 0..n /\ r[2] \in 0..n
    BY DEF Spans
  <1>2. Middle(r) \in r[1]..(r[2] - 1)
    BY <1>1 DEF Middle
  <1>3. Middle(r) \in 0..n /\ Middle(r) + 1 \in 0..n
    BY <1>1, <1>2
  <1> QED BY <1>1, <1>2, <1>3 DEF Spans

\* The recursion has a solution.
LEMMA BisectSolution ==
    ASSUME NEW hits, NEW n \in Nat
    PROVE  \E g : Bisects(g, hits, n)
  <1> DEFINE S == {k \in 0..n : \E g : BisectsTo(g, hits, n, k)}
  <1>1. 0 \in S
    <2> DEFINE g == [r \in Spans(n) |-> r[1]]
    <2>1. BisectsTo(g, hits, n, 0)
      <3> SUFFICES ASSUME NEW r \in Spans(n), r[2] - r[1] <= 0
                   PROVE  g[r] = Bisect(g, hits, r)
        BY DEF BisectsTo
      <3>1. r[1] \in 0..n /\ r[2] \in 0..n
        BY DEF Spans
      <3>2. r[1] >= r[2]
        BY <3>1
      <3> QED BY <3>2 DEF Bisect
    <2>2. 0 \in 0..n
      OBVIOUS
    <2> HIDE DEF g
    <2> QED BY <2>1, <2>2, Zenon
  <1>2. ASSUME NEW k \in 1..n, k - 1 \in S PROVE k \in S
    <2>1. PICK h : BisectsTo(h, hits, n, k - 1)
      BY <1>2
    <2> DEFINE g == [r \in Spans(n) |-> IF r[2] - r[1] <= k - 1 THEN h[r]
                                         ELSE Bisect(h, hits, r)]
    <2>2. ASSUME NEW r \in Spans(n), r[2] - r[1] <= k
          PROVE  g[r] = Bisect(g, hits, r)
      <3>1. r[1] \in 0..n /\ r[2] \in 0..n
        BY DEF Spans
      <3>2. g[r] = Bisect(h, hits, r)
        BY <2>1 DEF BisectsTo
      <3>3. CASE r[1] >= r[2]
        <4> HIDE DEF g
        <4> QED BY <3>2, <3>3 DEF Bisect
      <3>4. CASE r[1] < r[2]
        <4> DEFINE u == <<Middle(r) + 1, r[2]>>
                   v == <<r[1], Middle(r)>>
        <4>1. u \in Spans(n) /\ v \in Spans(n) /\ Middle(r) \in r[1]..(r[2] - 1)
          BY <3>4, Halves
        <4>2. u[2] - u[1] <= k - 1 /\ v[2] - v[1] <= k - 1
          BY <2>2, <3>1, <4>1
        <4> HIDE DEF u, v
        <4>3. g[u] = h[u] /\ g[v] = h[v]
          BY <4>1, <4>2
        <4> HIDE DEF g
        <4> QED BY <3>2, <4>3 DEF Bisect, u, v
      <3> QED BY <3>1, <3>3, <3>4
    <2>3. k \in 0..n
      OBVIOUS
    <2> HIDE DEF g
    <2>4. BisectsTo(g, hits, n, k)
      BY <2>2 DEF BisectsTo
    <2> QED BY <2>3, <2>4, Zenon
  <1>3. n \in S
    <2> HIDE DEF S
    <2>1. \A k \in 1..n : k - 1 \in S => k \in S
      BY <1>2
    <2>2. \A i \in 0..n : i \in S
      BY <1>1, <2>1, UpTo
    <2> QED BY <2>2
  <1>4. PICK h : BisectsTo(h, hits, n, n)
    BY <1>3
  <1> DEFINE g == [r \in Spans(n) |-> h[r]]
  <1>5. ASSUME NEW r \in Spans(n) PROVE g[r] = Bisect(g, hits, r)
    <2>1. r[1] \in 0..n /\ r[2] \in 0..n
      BY DEF Spans
    <2>2. r[2] - r[1] <= n
      BY <2>1
    <2>3. g[r] = Bisect(h, hits, r)
      BY <1>4, <2>2 DEF BisectsTo
    <2>4. CASE r[1] >= r[2]
      <3> HIDE DEF g
      <3> QED BY <2>3, <2>4 DEF Bisect
    <2>5. CASE r[1] < r[2]
      <3> DEFINE u == <<Middle(r) + 1, r[2]>>
                 v == <<r[1], Middle(r)>>
      <3>1. u \in Spans(n) /\ v \in Spans(n)
        BY <2>5, Halves
      <3> HIDE DEF u, v
      <3>2. g[u] = h[u] /\ g[v] = h[v]
        BY <3>1
      <3> HIDE DEF g
      <3> QED BY <2>3, <3>2 DEF Bisect, u, v
    <2> QED BY <2>1, <2>4, <2>5
  <1>6. g = [r \in Spans(n) |-> g[r]]
    OBVIOUS
  <1> HIDE DEF g
  <1>7. Bisects(g, hits, n)
    BY <1>5, <1>6 DEF Bisects
  <1> QED BY <1>7, Zenon

\* The answer is a number of leading positions, and where no miss comes before
\* a hit it is how many of them hit.
LEMMA BisectFacts ==
    ASSUME NEW hits, NEW n \in Nat
    PROVE  /\ BisectLeft(hits, n) \in 0..n
           /\ (\A j \in 1..n : \A i \in 1..j : j \in hits => i \in hits)
              => \A i \in 1..n : i \in hits <=> i <= BisectLeft(hits, n)
  <1> DEFINE g == CHOOSE x : Bisects(x, hits, n)
             mono == \A j \in 1..n : \A i \in 1..j : j \in hits => i \in hits
             exact(r) == \A i \in 1..n : r[1] < i /\ i <= r[2]
                                         => (i \in hits <=> i <= g[r])
             good(r) == g[r] \in r[1]..r[2] /\ (mono => exact(r))
             S == {k \in 0..n : \A r \in Spans(n) :
                                   r[1] <= r[2] /\ r[2] - r[1] <= k => good(r)}
  <1>1. Bisects(g, hits, n)
    <2>1. \E x : Bisects(x, hits, n)
      BY BisectSolution
    <2> QED BY <2>1, Zenon
  <1>2. BisectLeft(hits, n) = g[<<0, n>>]
    BY DEF BisectLeft, Bisects, Bisect, Spans, Middle
  <1> HIDE DEF g
  <1>3. \A r \in Spans(n) : g[r] = Bisect(g, hits, r)
    BY <1>1, Zenon DEF Bisects
  <1> HIDE DEF mono
  <1>4. ASSUME NEW r \in Spans(n), r[1] = r[2] PROVE good(r)
    <2>1. r[1] \in 0..n /\ r[2] \in 0..n
      BY DEF Spans
    <2>2. g[r] = r[1]
      <3>1. r[1] >= r[2]
        BY <1>4, <2>1
      <3>2. g[r] = Bisect(g, hits, r)
        BY <1>3
      <3>3. Bisect(g, hits, r) = r[1]
        BY <3>1 DEF Bisect
      <3> QED BY <3>2, <3>3
    <2> QED BY <1>4, <2>1, <2>2
  <1>5. 0 \in S
    <2>1. ASSUME NEW r \in Spans(n), r[1] <= r[2], r[2] - r[1] <= 0 PROVE r[1] = r[2]
      <3>1. r[1] \in 0..n /\ r[2] \in 0..n
        BY DEF Spans
      <3> QED BY <2>1, <3>1
    <2> HIDE DEF good
    <2> QED BY <1>4, <2>1
  <1>6. ASSUME NEW k \in 1..n, k - 1 \in S,
               NEW r \in Spans(n), r[1] < r[2], r[2] - r[1] <= k
        PROVE  good(r)
    <2> DEFINE mid == Middle(r)
               u == <<mid + 1, r[2]>>
               v == <<r[1], mid>>
    <2>1. r[1] \in 0..n /\ r[2] \in 0..n /\ mid \in r[1]..(r[2] - 1)
          /\ u \in Spans(n) /\ v \in Spans(n)
      BY <1>6, Halves
    <2>2. g[r] = IF mid + 1 \in hits THEN g[u] ELSE g[v]
      BY <1>3, <1>6, <2>1 DEF Bisect
    <2> HIDE DEF mid
    <2>3. u[1] = mid + 1 /\ u[2] = r[2] /\ v[1] = r[1] /\ v[2] = mid
      OBVIOUS
    <2> HIDE DEF u, v
    <2>4. u[1] <= u[2] /\ u[2] - u[1] <= k - 1 /\ v[1] <= v[2] /\ v[2] - v[1] <= k - 1
      BY <1>6, <2>1, <2>3
    <2>5. good(u) /\ good(v)
      <3> HIDE DEF good
      <3> QED BY <1>6, <2>1, <2>4
    <2>6. CASE mid + 1 \in hits
      <3>1. g[r] = g[u] /\ g[u] \in (mid + 1)..r[2]
        BY <2>2, <2>3, <2>5, <2>6
      <3>2. ASSUME mono, NEW i \in 1..n, r[1] < i, i <= r[2]
            PROVE  i \in hits <=> i <= g[r]
        <4>1. CASE i <= mid + 1
          <5>1. mid + 1 \in 1..n /\ i \in 1..(mid + 1)
            BY <2>1, <4>1
          <5>2. i \in hits
            BY <2>6, <3>2, <5>1 DEF mono
          <5> QED BY <2>1, <3>1, <4>1, <5>2
        <4>2. CASE i > mid + 1
          <5>1. u[1] < i /\ i <= u[2]
            BY <2>3, <3>2, <4>2
          <5> QED BY <2>5, <3>1, <3>2, <5>1
        <4>3. i \in Int /\ mid + 1 \in Int
          BY <2>1
        <4> QED BY <4>1, <4>2, <4>3
      <3>3. g[r] \in r[1]..r[2]
        BY <2>1, <3>1
      <3> QED BY <3>2, <3>3
    <2>7. CASE mid + 1 \notin hits
      <3>1. g[r] = g[v] /\ g[v] \in r[1]..mid
        BY <2>2, <2>3, <2>5, <2>7
      <3>2. ASSUME mono, NEW i \in 1..n, r[1] < i, i <= r[2]
            PROVE  i \in hits <=> i <= g[r]
        <4>1. CASE i >= mid + 1
          <5>1. mid + 1 \in 1..i
            BY <2>1, <4>1
          <5>2. i \notin hits
            BY <2>7, <3>2, <5>1 DEF mono
          <5> QED BY <2>1, <3>1, <4>1, <5>2
        <4>2. CASE i < mid + 1
          <5>1. v[1] < i /\ i <= v[2]
            BY <2>1, <2>3, <3>2, <4>2
          <5> QED BY <2>5, <3>1, <3>2, <5>1
        <4>3. i \in Int /\ mid + 1 \in Int
          BY <2>1
        <4> QED BY <4>1, <4>2, <4>3
      <3>3. g[r] \in r[1]..r[2]
        BY <2>1, <3>1
      <3> QED BY <3>2, <3>3
    <2> QED BY <2>6, <2>7
  <1>7. ASSUME NEW k \in 1..n, k - 1 \in S PROVE k \in S
    <2>1. ASSUME NEW r \in Spans(n), r[1] <= r[2], r[2] - r[1] <= k PROVE good(r)
      <3>1. r[1] \in Int /\ r[2] \in Int
        BY DEF Spans
      <3>2. r[1] = r[2] \/ r[1] < r[2]
        BY <2>1, <3>1
      <3> HIDE DEF good, S
      <3> QED BY <1>4, <1>6, <1>7, <2>1, <3>2
    <2>2. k \in 0..n
      OBVIOUS
    <2> HIDE DEF good
    <2> QED BY <2>1, <2>2
  <1>8. n \in S
    <2> HIDE DEF S
    <2>1. \A k \in 1..n : k - 1 \in S => k \in S
      BY <1>7
    <2>2. \A i \in 0..n : i \in S
      BY <1>5, <2>1, UpTo
    <2> QED BY <2>2
  <1>9. <<0, n>> \in Spans(n) /\ <<0, n>>[1] = 0 /\ <<0, n>>[2] = n /\ 0 <= n /\ n - 0 <= n
    BY DEF Spans
  <1>10. good(<<0, n>>)
    <2> HIDE DEF good
    <2> QED BY <1>8, <1>9
  <1> QED BY <1>2, <1>9, <1>10 DEF mono

\* The leading hits are all in the answer, whatever comes after them.
LEMMA BisectCovers ==
    ASSUME NEW hits, NEW n \in Nat, NEW m \in 0..n, \A i \in 1..m : i \in hits
    PROVE  m <= BisectLeft(hits, n)
  <1> DEFINE g == CHOOSE x : Bisects(x, hits, n)
             good(r) == m <= r[2] => m <= g[r]
             S == {k \in 0..n : \A r \in Spans(n) :
                                   r[1] <= r[2] /\ r[2] - r[1] <= k => good(r)}
  <1>1. Bisects(g, hits, n)
    <2>1. \E x : Bisects(x, hits, n)
      BY BisectSolution
    <2> QED BY <2>1, Zenon
  <1>2. BisectLeft(hits, n) = g[<<0, n>>]
    BY DEF BisectLeft, Bisects, Bisect, Spans, Middle
  <1> HIDE DEF g
  <1>3. \A r \in Spans(n) : g[r] = Bisect(g, hits, r)
    BY <1>1, Zenon DEF Bisects
  <1>4. ASSUME NEW r \in Spans(n), r[1] = r[2] PROVE good(r)
    <2>1. r[1] \in 0..n /\ r[2] \in 0..n
      BY DEF Spans
    <2>2. r[1] >= r[2]
      BY <1>4, <2>1
    <2>3. g[r] = Bisect(g, hits, r)
      BY <1>3
    <2>4. Bisect(g, hits, r) = r[1]
      BY <2>2 DEF Bisect
    <2> QED BY <1>4, <2>1, <2>3, <2>4
  <1>5. 0 \in S
    <2>1. ASSUME NEW r \in Spans(n), r[1] <= r[2], r[2] - r[1] <= 0 PROVE r[1] = r[2]
      <3>1. r[1] \in 0..n /\ r[2] \in 0..n
        BY DEF Spans
      <3> QED BY <2>1, <3>1
    <2> HIDE DEF good
    <2> QED BY <1>4, <2>1
  <1>6. ASSUME NEW k \in 1..n, k - 1 \in S,
               NEW r \in Spans(n), r[1] < r[2], r[2] - r[1] <= k
        PROVE  good(r)
    <2> DEFINE mid == Middle(r)
               u == <<mid + 1, r[2]>>
               v == <<r[1], mid>>
    <2>1. r[1] \in 0..n /\ r[2] \in 0..n /\ mid \in r[1]..(r[2] - 1)
          /\ u \in Spans(n) /\ v \in Spans(n)
      BY <1>6, Halves
    <2>2. g[r] = IF mid + 1 \in hits THEN g[u] ELSE g[v]
      BY <1>3, <1>6, <2>1 DEF Bisect
    <2> HIDE DEF mid
    <2>3. u[1] = mid + 1 /\ u[2] = r[2] /\ v[1] = r[1] /\ v[2] = mid
      OBVIOUS
    <2> HIDE DEF u, v
    <2>4. u[1] <= u[2] /\ u[2] - u[1] <= k - 1 /\ v[1] <= v[2] /\ v[2] - v[1] <= k - 1
      BY <1>6, <2>1, <2>3
    <2>5. good(u) /\ good(v)
      <3> HIDE DEF good
      <3> QED BY <1>6, <2>1, <2>4
    <2>6. CASE mid + 1 \in hits
      BY <2>2, <2>3, <2>5, <2>6
    <2>7. CASE mid + 1 \notin hits
      <3>1. m <= mid
        <4>1. mid + 1 \notin 1..m
          BY <2>7
        <4> QED BY <2>1, <4>1
      <3> QED BY <2>2, <2>3, <2>5, <2>7, <3>1
    <2> QED BY <2>6, <2>7
  <1>7. ASSUME NEW k \in 1..n, k - 1 \in S PROVE k \in S
    <2>1. ASSUME NEW r \in Spans(n), r[1] <= r[2], r[2] - r[1] <= k PROVE good(r)
      <3>1. r[1] \in Int /\ r[2] \in Int
        BY DEF Spans
      <3>2. r[1] = r[2] \/ r[1] < r[2]
        BY <2>1, <3>1
      <3> HIDE DEF good, S
      <3> QED BY <1>4, <1>6, <1>7, <2>1, <3>2
    <2>2. k \in 0..n
      OBVIOUS
    <2> HIDE DEF good
    <2> QED BY <2>1, <2>2
  <1>8. n \in S
    <2> HIDE DEF S
    <2>1. \A i \in 0..n : i \in S
      BY <1>5, <1>7, UpTo
    <2> QED BY <2>1
  <1>9. <<0, n>> \in Spans(n)
    BY DEF Spans
  <1> DEFINE r == <<0, n>>
  <1>10. r[1] = 0 /\ r[2] = n
    OBVIOUS
  <1> HIDE DEF r
  <1>11. good(r)
    <2> HIDE DEF good
    <2> QED BY <1>8, <1>9, <1>10 DEF r
  <1> QED BY <1>2, <1>10, <1>11 DEF r
-----------------------------------------------------------------------------
(***************************************************************************)
(* The elements of sequences.                                              *)
(***************************************************************************)
\* The elements of a sequence come from its set.
LEMMA ElementsIn ==
    ASSUME NEW X, NEW q \in Seq(X)
    PROVE  /\ ToSet(q) \subseteq X /\ IsFiniteSet(ToSet(q)) /\ q \in Seq(ToSet(q))
           /\ Len(q) \in Nat /\ DOMAIN q = 1..Len(q)
           /\ \A i \in 1..Len(q) : q[i] \in ToSet(q) /\ q[i] \in X
           /\ \A x \in ToSet(q) : \E i \in 1..Len(q) : q[i] = x
           /\ q # <<>> <=> Len(q) > 0
           /\ ToSet(q) = {} <=> q = <<>>
  <1>1. Len(q) \in Nat /\ DOMAIN q = 1..Len(q) /\ \A i \in 1..Len(q) : q[i] \in X
    OBVIOUS
  <1>2. ToSet(q) = {q[i] : i \in 1..Len(q)}
    BY <1>1 DEF ToSet
  <1>3. IsFiniteSet(ToSet(q))
    <2>1. IsFiniteSet(1..Len(q))
      <3>1. 1 \in Int /\ Len(q) \in Int
        BY <1>1
      <3> QED BY <3>1, FS_Interval
    <2> DEFINE f == [i \in 1..Len(q) |-> q[i]]
    <2>2. f \in Surjection(1..Len(q), ToSet(q))
      BY <1>2 DEF Surjection
    <2> HIDE DEF f
    <2> QED BY <2>1, <2>2, FS_Surjection
  <1>4. q \in Seq(ToSet(q))
    <2>1. q = [i \in 1..Len(q) |-> q[i]] /\ \A i \in 1..Len(q) : q[i] \in ToSet(q)
      BY <1>1, <1>2
    <2> QED BY <1>1, <2>1
  <1>5. q # <<>> <=> Len(q) > 0
    OBVIOUS
  <1>6. ToSet(q) = {} <=> q = <<>>
    <2>1. ASSUME Len(q) > 0 PROVE ToSet(q) # {}
      <3>1. 1 \in 1..Len(q)
        BY <1>1, <2>1
      <3> QED BY <1>2, <3>1
    <2>2. ASSUME q = <<>> PROVE ToSet(q) = {}
      BY <2>2 DEF ToSet
    <2> QED BY <1>5, <2>1, <2>2
  <1> QED BY <1>1, <1>2, <1>3, <1>4, <1>5, <1>6

\* Append.
LEMMA AppendSet ==
    ASSUME NEW X, NEW q \in Seq(X), NEW x \in X
    PROVE  /\ Append(q, x) \in Seq(X)
           /\ ToSet(Append(q, x)) = ToSet(q) \cup {x}
           /\ IsInjective(q) /\ x \notin ToSet(q) => IsInjective(Append(q, x))
           /\ Len(Append(q, x)) = Len(q) + 1
           /\ DOMAIN Append(q, x) = 1..(Len(q) + 1)
           /\ Append(q, x)[Len(q) + 1] = x
           /\ \A i \in 1..Len(q) : Append(q, x)[i] = q[i]
  <1> DEFINE r == Append(q, x)
             n == Len(q)
  <1>1. /\ r \in Seq(X) /\ Len(r) = n + 1 /\ n \in Nat /\ r[n + 1] = x
        /\ \A i \in 1..n : r[i] = q[i]
    OBVIOUS
  <1>2. DOMAIN r = 1..(n + 1) /\ DOMAIN q = 1..n
    BY <1>1
  <1> HIDE DEF r, n
  <1>3. 1..(n + 1) = 1..n \cup {n + 1} /\ n + 1 \notin 1..n
    BY <1>1
  <1>4. ToSet(r) = ToSet(q) \cup {x}
    BY <1>1, <1>2, <1>3 DEF ToSet
  <1>5. ASSUME IsInjective(q), x \notin ToSet(q) PROVE IsInjective(r)
    <2>1. \A i \in 1..n : q[i] # x
      BY <1>2, <1>5 DEF ToSet
    <2> QED BY <1>1, <1>2, <1>3, <1>5, <2>1 DEF IsInjective
  <1> QED BY <1>1, <1>2, <1>4, <1>5 DEF r, n

\* Concatenation.
LEMMA ConcatSet ==
    ASSUME NEW X, NEW p \in Seq(X), NEW q \in Seq(X)
    PROVE  /\ p \o q \in Seq(X)
           /\ ToSet(p \o q) = ToSet(p) \cup ToSet(q)
           /\ IsInjective(p) /\ IsInjective(q) /\ ToSet(p) \cap ToSet(q) = {}
              => IsInjective(p \o q)
  <1> DEFINE r == p \o q
             m == Len(p)
             n == Len(q)
  <1>1. /\ r \in Seq(X) /\ Len(r) = m + n /\ m \in Nat /\ n \in Nat
        /\ \A i \in 1..m : r[i] = p[i]
        /\ \A i \in (m + 1)..(m + n) : r[i] = q[i - m]
        /\ DOMAIN p = 1..m /\ DOMAIN q = 1..n
    OBVIOUS
  <1>2. DOMAIN r = 1..(m + n)
    BY <1>1
  <1> HIDE DEF r, m, n
  <1>3. /\ \A i \in 1..(m + n) : i \in 1..m \/ (i \in (m + 1)..(m + n) /\ i - m \in 1..n)
        /\ \A i \in 1..m : i \in 1..(m + n)
        /\ \A i \in 1..n : i + m \in (m + 1)..(m + n) /\ i + m \in 1..(m + n) /\ (i + m) - m = i
        /\ \A i, j \in (m + 1)..(m + n) : i - m = j - m => i = j
    BY <1>1
  <1>4. ASSUME NEW x \in ToSet(p) \cup ToSet(q) PROVE x \in ToSet(r)
    <2>1. CASE x \in ToSet(p)
      <3>1. PICK i \in 1..m : p[i] = x
        BY <1>1, <2>1 DEF ToSet
      <3> QED BY <1>1, <1>2, <1>3, <3>1 DEF ToSet
    <2>2. CASE x \in ToSet(q)
      <3>1. PICK i \in 1..n : q[i] = x
        BY <1>1, <2>2 DEF ToSet
      <3>2. r[i + m] = x /\ i + m \in DOMAIN r
        BY <1>1, <1>2, <1>3, <3>1
      <3> QED BY <3>2 DEF ToSet
    <2> QED BY <2>1, <2>2
  <1>5. ASSUME NEW i \in DOMAIN r
        PROVE  \/ i \in 1..m /\ r[i] = p[i] /\ r[i] \in ToSet(p)
               \/ i \in (m + 1)..(m + n) /\ i - m \in 1..n /\ r[i] = q[i - m]
                  /\ r[i] \in ToSet(q)
    BY <1>1, <1>2, <1>3 DEF ToSet
  <1>6. ToSet(r) = ToSet(p) \cup ToSet(q)
    <2>1. \A x \in ToSet(r) : \E i \in DOMAIN r : x = r[i]
      BY DEF ToSet
    <2> QED BY <1>4, <1>5, <2>1
  <1>7. ASSUME IsInjective(p), IsInjective(q), ToSet(p) \cap ToSet(q) = {}
        PROVE  IsInjective(r)
    <2> SUFFICES ASSUME NEW i \in DOMAIN r, NEW j \in DOMAIN r, r[i] = r[j]
                 PROVE  i = j
      BY DEF IsInjective
    <2>1. CASE i \in 1..m /\ j \in 1..m
      BY <1>1, <1>7, <2>1 DEF IsInjective
    <2>2. CASE i \in (m + 1)..(m + n) /\ j \in (m + 1)..(m + n)
      <3>1. i - m \in 1..n /\ j - m \in 1..n
        BY <1>1, <2>2
      <3>2. q[i - m] = q[j - m]
        BY <1>1, <2>2
      <3>3. i - m = j - m
        BY <1>1, <1>7, <3>1, <3>2, Zenon DEF IsInjective
      <3> QED BY <1>3, <2>2, <3>3
    <2> QED BY <1>5, <1>7, <2>1, <2>2
  <1> QED BY <1>1, <1>6, <1>7 DEF r

\* A slice of a sequence without repetitions, and what it leaves.
LEMMA SliceSet ==
    ASSUME NEW X, NEW q \in Seq(X), NEW a \in Nat \ {0}, NEW z \in Nat, z <= Len(q)
    PROVE  /\ SubSeq(q, a, z) \in Seq(X)
           /\ ToSet(SubSeq(q, a, z)) = {q[i] : i \in a..z}
           /\ Len(SubSeq(q, a, z)) = IF a <= z THEN z - a + 1 ELSE 0
           /\ \A i \in 1..(z - a + 1) : SubSeq(q, a, z)[i] = q[i + a - 1]
           /\ IsInjective(q) => IsInjective(SubSeq(q, a, z))
  <1> DEFINE r == SubSeq(q, a, z)
             n == IF a <= z THEN z - a + 1 ELSE 0
  <1>1. \A i \in a..z : q[i] \in X
    OBVIOUS
  <1>2. /\ r \in Seq(X) /\ Len(r) = n /\ n \in Nat
        /\ \A i \in 1..n : r[i] = q[i + a - 1]
        /\ DOMAIN q = 1..Len(q) /\ Len(q) \in Nat
    BY <1>1
  <1>3. DOMAIN r = 1..n /\ 1..n = 1..(z - a + 1)
    BY <1>2
  <1>4. /\ \A i \in 1..n : i + a - 1 \in a..z /\ i + a - 1 \in 1..Len(q)
        /\ \A j \in a..z : j - a + 1 \in 1..n /\ (j - a + 1) + a - 1 = j
        /\ \A i, j \in 1..n : i + a - 1 = j + a - 1 => i = j
    BY <1>2
  <1> HIDE DEF r, n
  <1>5. ToSet(r) = {q[i] : i \in a..z}
    <2>1. ASSUME NEW x \in ToSet(r) PROVE x \in {q[i] : i \in a..z}
      <3>1. PICK i \in 1..n : r[i] = x
        BY <1>3, <2>1 DEF ToSet
      <3>2. x = q[i + a - 1] /\ i + a - 1 \in a..z
        BY <1>2, <1>4, <3>1
      <3> QED BY <3>2
    <2>2. ASSUME NEW j \in a..z PROVE q[j] \in ToSet(r)
      <3>1. r[j - a + 1] = q[j] /\ j - a + 1 \in DOMAIN r
        BY <1>2, <1>3, <1>4
      <3> QED BY <3>1 DEF ToSet
    <2> QED BY <2>1, <2>2
  <1>6. ASSUME IsInjective(q) PROVE IsInjective(r)
    <2> SUFFICES ASSUME NEW i \in 1..n, NEW j \in 1..n, r[i] = r[j] PROVE i = j
      BY <1>3 DEF IsInjective
    <2>1. i + a - 1 \in DOMAIN q /\ j + a - 1 \in DOMAIN q /\ q[i + a - 1] = q[j + a - 1]
      BY <1>2, <1>4
    <2> HIDE DEF r
    <2>2. i + a - 1 = j + a - 1
      BY <1>6, <2>1, Zenon DEF IsInjective
    <2> QED BY <1>4, <2>2
  <1> QED BY <1>2, <1>3, <1>5, <1>6 DEF r, n

\* The head of a sequence without repetitions is not in its tail.
LEMMA TailSet ==
    ASSUME NEW X, NEW q \in Seq(X), q # <<>>
    PROVE  /\ Tail(q) \in Seq(X) /\ Head(q) \in ToSet(q) /\ Head(q) \in X
           /\ ToSet(q) = ToSet(Tail(q)) \cup {Head(q)}
           /\ IsInjective(q) => IsInjective(Tail(q)) /\ Head(q) \notin ToSet(Tail(q))
  <1> DEFINE n == Len(q)
             r == SubSeq(q, 2, n)
  <1>1. /\ n \in Nat /\ n >= 1 /\ Head(q) = q[1] /\ Tail(q) = r /\ DOMAIN q = 1..n
        /\ q[1] \in X /\ Tail(q) \in Seq(X)
    OBVIOUS
  <1>2. 1..n = {1} \cup 2..n /\ 1 \notin 2..n /\ 1 \in 1..n
    BY <1>1
  <1>3. ToSet(r) = {q[i] : i \in 2..n} /\ (IsInjective(q) => IsInjective(r))
    <2>1. 2 \in Nat \ {0} /\ n \in Nat /\ n <= Len(q)
      BY <1>1
    <2> HIDE DEF n
    <2> QED BY <2>1, SliceSet
  <1> HIDE DEF n, r
  <1>4. q[1] \in ToSet(q)
    BY <1>1, <1>2 DEF ToSet
  <1>5. ToSet(q) = ToSet(r) \cup {q[1]}
    BY <1>1, <1>2, <1>3 DEF ToSet
  <1>6. ASSUME IsInjective(q) PROVE q[1] \notin ToSet(r)
    BY <1>1, <1>2, <1>3, <1>6 DEF IsInjective
  <1> QED BY <1>1, <1>3, <1>4, <1>5, <1>6

\* So for the last element and the front.
LEMMA FrontSet ==
    ASSUME NEW X, NEW q \in Seq(X), q # <<>>
    PROVE  /\ Front(q) \in Seq(X) /\ Last(q) \in ToSet(q) /\ Last(q) \in X
           /\ Len(Front(q)) = Len(q) - 1 /\ Last(q) = q[Len(q)]
           /\ \A i \in 1..(Len(q) - 1) : Front(q)[i] = q[i]
           /\ ToSet(q) = ToSet(Front(q)) \cup {Last(q)}
           /\ IsInjective(q) => IsInjective(Front(q)) /\ Last(q) \notin ToSet(Front(q))
  <1> DEFINE n == Len(q)
             r == SubSeq(q, 1, n - 1)
  <1>1. /\ n \in Nat /\ n >= 1 /\ DOMAIN q = 1..n /\ q[n] \in X
        /\ n - 1 \in Nat /\ n - 1 <= n
    OBVIOUS
  <1>2. 1..n = {n} \cup 1..(n - 1) /\ n \notin 1..(n - 1) /\ n \in 1..n
    BY <1>1
  <1>3. Front(q) = r /\ Last(q) = q[n]
    BY DEF Front, Last
  <1>4. /\ ToSet(r) = {q[i] : i \in 1..(n - 1)} /\ (IsInjective(q) => IsInjective(r))
        /\ r \in Seq(X) /\ Len(r) = IF 1 <= n - 1 THEN (n - 1) - 1 + 1 ELSE 0
        /\ \A i \in 1..((n - 1) - 1 + 1) : r[i] = q[i + 1 - 1]
    <2>1. 1 \in Nat \ {0} /\ n - 1 \in Nat /\ n - 1 <= Len(q)
      BY <1>1
    <2> HIDE DEF n
    <2> QED BY <2>1, SliceSet
  <1>5. Len(r) = n - 1 /\ 1..((n - 1) - 1 + 1) = 1..(n - 1)
        /\ \A i \in 1..(n - 1) : i + 1 - 1 = i
    BY <1>1, <1>4
  <1> HIDE DEF r
  <1>6. \A i \in 1..(n - 1) : r[i] = q[i]
    BY <1>4, <1>5
  <1>7. q[n] \in ToSet(q)
    BY <1>1, <1>2 DEF ToSet
  <1>8. ToSet(q) = ToSet(r) \cup {q[n]}
    <2> HIDE DEF n
    <2> QED BY <1>1, <1>2, <1>4 DEF ToSet
  <1>9. ASSUME IsInjective(q) PROVE q[n] \notin ToSet(r)
    <2> HIDE DEF n
    <2> QED BY <1>1, <1>2, <1>4, <1>9 DEF IsInjective
  <1> QED BY <1>1, <1>3, <1>4, <1>5, <1>6, <1>7, <1>8, <1>9

\* Reverse.
LEMMA ReverseSet ==
    ASSUME NEW X, NEW q \in Seq(X)
    PROVE  /\ Reverse(q) \in Seq(X) /\ ToSet(Reverse(q)) = ToSet(q)
           /\ IsInjective(q) => IsInjective(Reverse(q))
  <1> DEFINE n == Len(q)
             r == Reverse(q)
  <1>1. n \in Nat /\ DOMAIN q = 1..n /\ \A i \in 1..n : q[i] \in X
    OBVIOUS
  <1>2. /\ \A i \in 1..n : (n - i) + 1 \in 1..n /\ (n - ((n - i) + 1)) + 1 = i
        /\ \A i, j \in 1..n : (n - i) + 1 = (n - j) + 1 => i = j
    BY <1>1
  <1>3. r = [i \in 1..n |-> q[(n - i) + 1]]
    BY DEF Reverse
  <1> HIDE DEF n, r
  <1>4. r \in Seq(X) /\ DOMAIN r = 1..n
    BY <1>1, <1>2, <1>3
  <1>5. ToSet(r) = ToSet(q)
    <2>1. ASSUME NEW i \in 1..n PROVE r[i] \in ToSet(q)
      BY <1>1, <1>2, <1>3 DEF ToSet
    <2>2. ASSUME NEW i \in 1..n PROVE q[i] \in ToSet(r)
      <3>1. (n - i) + 1 \in DOMAIN r /\ r[(n - i) + 1] = q[i]
        BY <1>2, <1>3, <1>4
      <3> QED BY <3>1 DEF ToSet
    <2> QED BY <1>1, <1>4, <2>1, <2>2 DEF ToSet
  <1>6. ASSUME IsInjective(q) PROVE IsInjective(r)
    BY <1>1, <1>2, <1>3, <1>4, <1>6 DEF IsInjective
  <1> QED BY <1>4, <1>5, <1>6 DEF r
-----------------------------------------------------------------------------
(***************************************************************************)
(* Comprehensions and sorting.                                             *)
(***************************************************************************)
\* The recursion of Kept.
Keeping(c, q, S) ==
    c = [i \in 0..Len(q) |->
            IF i = 0 THEN <<>>
            ELSE IF q[i] \in S THEN Append(c[i - 1], q[i]) ELSE c[i - 1]]

\* Kept runs through the sequence.
LEMMA KeptRun ==
    ASSUME NEW X, NEW q \in Seq(X), NEW S
    PROVE  \E c : /\ c[0] = <<>> /\ c[Len(q)] = Kept(q, S)
                  /\ \A i \in 1..Len(q) :
                        c[i] = IF q[i] \in S THEN Append(c[i - 1], q[i]) ELSE c[i - 1]
  <1> DEFINE n == Len(q)
             F == [a \in (1..n) \X Seq(X) |->
                      IF q[a[1]] \in S THEN Append(a[2], q[a[1]]) ELSE a[2]]
  <1>1. n \in Nat /\ \A i \in 1..n : q[i] \in X
    OBVIOUS
  <1>2. F \in [(1..n) \X Seq(X) -> Seq(X)]
    <2>1. ASSUME NEW a \in (1..n) \X Seq(X)
          PROVE  (IF q[a[1]] \in S THEN Append(a[2], q[a[1]]) ELSE a[2]) \in Seq(X)
      BY <1>1
    <2> QED BY <2>1
  <1>3. PICK d : Iteration(d, n, Seq(X), <<>>, F)
    <2>1. <<>> \in Seq(X)
      OBVIOUS
    <2> HIDE DEF n, F
    <2> QED BY <1>1, <1>2, <2>1, Iterates, Zenon
  <1>4. /\ d[0] = <<>> /\ d = [i \in 0..n |-> d[i]]
        /\ \A i \in 1..n : d[i] = IF q[i] \in S THEN Append(d[i - 1], q[i]) ELSE d[i - 1]
    <2>1. /\ d \in [0..n -> Seq(X)] /\ d[0] = <<>>
          /\ \A i \in 1..n : d[i] = F[<<i, d[i - 1]>>]
      BY <1>3 DEF Iteration
    <2>2. ASSUME NEW i \in 1..n
          PROVE  d[i] = IF q[i] \in S THEN Append(d[i - 1], q[i]) ELSE d[i - 1]
      <3>1. i - 1 \in 0..n
        BY <1>1
      <3>2. d[i - 1] \in Seq(X)
        BY <2>1, <3>1
      <3>3. <<i, d[i - 1]>> \in (1..n) \X Seq(X)
        BY <3>2
      <3> QED BY <2>1, <3>3
    <2> QED BY <2>1, <2>2
  <1>5. Keeping(d, q, S)
    <2>1. \A i \in 0..n : d[i] = IF i = 0 THEN <<>>
                     ELSE IF q[i] \in S THEN Append(d[i - 1], q[i]) ELSE d[i - 1]
      <3>1. \A i \in 0..n : i = 0 \/ i \in 1..n
        BY <1>1
      <3> QED BY <1>4, <3>1
    <2> QED BY <1>4, <2>1 DEF Keeping
  <1> DEFINE c == CHOOSE x : Keeping(x, q, S)
  <1>6. Keeping(c, q, S)
    BY <1>5, Zenon
  <1>7. Kept(q, S) = c[n]
    BY DEF Kept, Keeping
  <1> HIDE DEF c
  <1>8. c[0] = <<>>
    <2>1. 0 \in 0..n
      BY <1>1
    <2> QED BY <1>6, <2>1 DEF Keeping
  <1>9. ASSUME NEW i \in 1..n
        PROVE  c[i] = IF q[i] \in S THEN Append(c[i - 1], q[i]) ELSE c[i - 1]
    <2>1. i \in 0..n /\ i # 0
      BY <1>1
    <2> QED BY <1>6, <2>1 DEF Keeping
  <1> QED BY <1>7, <1>8, <1>9

\* Kept has the elements of q in S, none of them more often.
LEMMA KeptSet ==
    ASSUME NEW X, NEW q \in Seq(X), NEW S
    PROVE  /\ Kept(q, S) \in Seq(X)
           /\ ToSet(Kept(q, S)) = ToSet(q) \cap S
           /\ IsInjective(q) => IsInjective(Kept(q, S))
  <1> DEFINE n == Len(q)
  <1>1. n \in Nat /\ DOMAIN q = 1..n /\ \A i \in 1..n : q[i] \in X
    OBVIOUS
  <1>2. PICK c : /\ c[0] = <<>> /\ c[n] = Kept(q, S)
                 /\ \A i \in 1..n :
                       c[i] = IF q[i] \in S THEN Append(c[i - 1], q[i]) ELSE c[i - 1]
    BY KeptRun
  <1> DEFINE good(i) == /\ c[i] \in Seq(X)
                        /\ ToSet(c[i]) = {q[j] : j \in 1..i} \cap S
                        /\ IsInjective(q) => IsInjective(c[i])
             G == {i \in 0..n : good(i)}
  <1> HIDE DEF n
  <1>3. 0 \in G
    <2>1. ToSet(<<>>) = {} /\ IsInjective(<<>>) /\ 1..0 = {} /\ <<>> \in Seq(X)
      BY DEF ToSet, IsInjective
    <2>2. 0 \in 0..n
      BY <1>1
    <2> QED BY <1>2, <2>1, <2>2
  <1>4. ASSUME NEW i \in 1..n, i - 1 \in G PROVE i \in G
    <2>1. good(i - 1) /\ i \in 0..n
      BY <1>1, <1>4
    <2>2. 1..i = 1..(i - 1) \cup {i} /\ i \notin 1..(i - 1) /\ 1..(i - 1) \subseteq 1..n
      BY <1>1
    <2>3. {q[j] : j \in 1..i} = {q[j] : j \in 1..(i - 1)} \cup {q[i]}
      BY <2>2
    <2>4. c[i] = IF q[i] \in S THEN Append(c[i - 1], q[i]) ELSE c[i - 1]
      BY <1>2
    <2>5. CASE q[i] \notin S
      BY <2>1, <2>3, <2>4, <2>5
    <2>6. CASE q[i] \in S
      <3>1. c[i - 1] \in Seq(X) /\ q[i] \in X /\ c[i] = Append(c[i - 1], q[i])
        BY <1>1, <2>1, <2>4, <2>6
      <3>2. /\ c[i] \in Seq(X) /\ ToSet(c[i]) = ToSet(c[i - 1]) \cup {q[i]}
            /\ IsInjective(c[i - 1]) /\ q[i] \notin ToSet(c[i - 1]) => IsInjective(c[i])
        BY <3>1, AppendSet
      <3>3. ASSUME IsInjective(q) PROVE q[i] \notin ToSet(c[i - 1])
        <4>1. \A j \in 1..(i - 1) : q[j] # q[i]
          BY <1>1, <2>2, <3>3 DEF IsInjective
        <4> QED BY <2>1, <4>1
      <3>4. ToSet(c[i]) = {q[j] : j \in 1..i} \cap S
        BY <2>1, <2>3, <2>6, <3>2
      <3>5. IsInjective(q) => IsInjective(c[i])
        BY <2>1, <3>2, <3>3
      <3> QED BY <2>1, <3>2, <3>4, <3>5
    <2> QED BY <2>5, <2>6
  <1>5. n \in G
    <2>1. \A i \in 1..n : i - 1 \in G => i \in G
      BY <1>4
    <2>2. n \in 0..n
      BY <1>1
    <2> HIDE DEF G
    <2> QED BY <1>1, <1>3, <2>1, <2>2, UpTo
  <1>6. {q[j] : j \in 1..n} = ToSet(q)
    BY <1>1 DEF ToSet
  <1> QED BY <1>2, <1>5, <1>6

\* When S picks the first n elements of q, Kept is that prefix.
LEMMA KeptPrefix ==
    ASSUME NEW X, NEW q \in Seq(X), NEW S, NEW k \in 0..Len(q),
           \A i \in 1..Len(q) : q[i] \in S <=> i <= k
    PROVE  Len(Kept(q, S)) = k /\ \A i \in 1..k : Kept(q, S)[i] = q[i]
  <1> DEFINE n == Len(q)
  <1>1. n \in Nat /\ DOMAIN q = 1..n /\ \A i \in 1..n : q[i] \in X
    OBVIOUS
  <1>2. PICK c : /\ c[0] = <<>> /\ c[n] = Kept(q, S)
                 /\ \A i \in 1..n :
                       c[i] = IF q[i] \in S THEN Append(c[i - 1], q[i]) ELSE c[i - 1]
    BY KeptRun
  <1> DEFINE m(i) == IF i <= k THEN i ELSE k
             good(i) == /\ c[i] \in Seq(X) /\ Len(c[i]) = m(i)
                        /\ \A j \in 1..m(i) : c[i][j] = q[j]
             G == {i \in 0..n : good(i)}
  <1>0. k \in 0..n /\ \A i \in 1..n : q[i] \in S <=> i <= k
    OBVIOUS
  <1> HIDE DEF n
  <1>3. 0 \in G
    <2>1. m(0) = 0 /\ 1..0 = {} /\ <<>> \in Seq(X) /\ Len(<<>>) = 0 /\ 0 \in 0..n
      BY <1>0, <1>1
    <2> QED BY <1>2, <2>1
  <1>4. ASSUME NEW i \in 1..n, i - 1 \in G PROVE i \in G
    <2>1. good(i - 1) /\ i \in 0..n
      BY <1>1, <1>4
    <2>2. c[i] = IF q[i] \in S THEN Append(c[i - 1], q[i]) ELSE c[i - 1]
      BY <1>2
    <2>3. CASE i > k
      <3>1. m(i) = k /\ m(i - 1) = k /\ q[i] \notin S
        BY <1>0, <1>1, <2>3
      <3> HIDE DEF m
      <3> QED BY <2>1, <2>2, <3>1
    <2>4. CASE i <= k
      <3>1. m(i) = i /\ m(i - 1) = i - 1 /\ q[i] \in S /\ (i - 1) + 1 = i
        BY <1>0, <1>1, <2>4
      <3>2. c[i - 1] \in Seq(X) /\ q[i] \in X /\ c[i] = Append(c[i - 1], q[i])
        BY <1>1, <2>1, <2>2, <3>1
      <3>3. Len(c[i - 1]) = i - 1 /\ \A j \in 1..(i - 1) : c[i - 1][j] = q[j]
        BY <2>1, <3>1
      <3>4. /\ c[i] \in Seq(X) /\ Len(c[i]) = i /\ c[i][i] = q[i]
            /\ \A j \in 1..(i - 1) : c[i][j] = q[j]
        BY <3>1, <3>2, <3>3, AppendSet
      <3>5. 1..i = 1..(i - 1) \cup {i}
        OBVIOUS
      <3> HIDE DEF m
      <3> QED BY <2>1, <3>1, <3>4, <3>5
    <2> QED BY <1>0, <2>3, <2>4
  <1>5. n \in G
    <2>1. \A i \in 1..n : i - 1 \in G => i \in G
      BY <1>4
    <2>2. n \in 0..n
      BY <1>1
    <2> HIDE DEF G
    <2> QED BY <1>1, <1>3, <2>1, <2>2, UpTo
  <1>6. m(n) = k
    BY <1>0, <1>1
  <1> HIDE DEF m
  <1> QED BY <1>2, <1>5, <1>6

\* The places in a sorted list are a permutation of the positions.
LEMMA PlacesPermute ==
    ASSUME NEW n \in Nat, NEW key \in [1..n -> Int]
    PROVE  /\ \A j \in 1..n : Place(key, j) \in 1..n
           /\ \A i, j \in 1..n : Place(key, i) = Place(key, j) => i = j
           /\ \A m \in 1..n : \E j \in 1..n : Place(key, j) = m
  <1> DEFINE before(i, j) == key[i] < key[j] \/ (key[i] = key[j] /\ i <= j)
             B(j) == {i \in 1..n : before(i, j)}
             f == [j \in 1..n |-> Place(key, j)]
  <1>1. IsFiniteSet(1..n) /\ Cardinality(1..n) = n
    <2>1. 1 \in Int /\ n \in Int
      OBVIOUS
    <2>2. Cardinality(1..n) = IF 1 > n THEN 0 ELSE n - 1 + 1
      BY <2>1, FS_Interval
    <2>3. (IF 1 > n THEN 0 ELSE n - 1 + 1) = n
      OBVIOUS
    <2> QED BY <2>1, <2>2, <2>3, FS_Interval
  <1>2. \A j \in 1..n : Place(key, j) = Cardinality(B(j))
    BY DEF Place
  <1>3. \A i, j, k \in 1..n : /\ before(j, j)
                              /\ before(i, j) /\ before(j, k) => before(i, k)
                              /\ before(i, j) \/ before(j, i)
                              /\ before(i, j) /\ before(j, i) => i = j
    <2>1. \A i \in 1..n : key[i] \in Int /\ i \in Int
      OBVIOUS
    <2> QED BY <2>1
  <1>4. \A j \in 1..n : IsFiniteSet(B(j)) /\ Cardinality(B(j)) <= n
    BY <1>1, FS_Subset
  <1> HIDE DEF before
  <1>5. ASSUME NEW j \in 1..n PROVE Place(key, j) \in 1..n
    <2>1. j \in B(j)
      BY <1>3
    <2> HIDE DEF B
    <2>2. Cardinality(B(j)) \in Nat /\ Cardinality(B(j)) # 0
      BY <1>4, <2>1, FS_CardinalityType, FS_EmptySet
    <2> QED BY <1>2, <1>4, <2>2
  <1>6. ASSUME NEW i \in 1..n, NEW j \in 1..n, i # j, before(i, j)
        PROVE  Place(key, i) # Place(key, j)
    <2>1. B(i) \subseteq B(j) /\ j \in B(j) /\ j \notin B(i)
      BY <1>3, <1>6
    <2>2. IsFiniteSet(B(j))
      BY <1>4
    <2>3. B(i) \in SUBSET B(j) /\ B(j) # B(i)
      BY <2>1
    <2> HIDE DEF B
    <2>4. Cardinality(B(j)) # Cardinality(B(i))
      BY <2>2, <2>3, FS_Subset
    <2> QED BY <1>2, <2>4
  <1>7. \A i, j \in 1..n : Place(key, i) = Place(key, j) => i = j
    BY <1>3, <1>6
  <1>8. f \in Injection(1..n, 1..n)
    BY <1>5, <1>7 DEF Injection, IsInjective
  <1>9. f \in Surjection(1..n, 1..n)
    <2> HIDE DEF f
    <2> QED BY <1>1, <1>8, FS_Injection
  <1>10. \A m \in 1..n : \E j \in 1..n : Place(key, j) = m
    BY <1>9 DEF Surjection
  <1> QED BY <1>5, <1>7, <1>10

\* Sorting permutes a list.
LEMMA SortedSet ==
    ASSUME NEW X, NEW q \in Seq(X), NEW key \in [DOMAIN q -> Int]
    PROVE  /\ SortedBy(q, key) \in Seq(X) /\ ToSet(SortedBy(q, key)) = ToSet(q)
           /\ IsInjective(q) => IsInjective(SortedBy(q, key))
  <1> DEFINE n == Len(q)
             from(m) == CHOOSE j \in 1..n : Place(key, j) = m
             r == SortedBy(q, key)
  <1>1. n \in Nat /\ DOMAIN q = 1..n /\ \A i \in 1..n : q[i] \in X
    OBVIOUS
  <1> HIDE DEF n
  <1>2. /\ \A j \in 1..n : Place(key, j) \in 1..n
        /\ \A i, j \in 1..n : Place(key, i) = Place(key, j) => i = j
        /\ \A m \in 1..n : \E j \in 1..n : Place(key, j) = m
    BY <1>1, PlacesPermute
  <1>3. \A m \in 1..n : from(m) \in 1..n /\ Place(key, from(m)) = m
    BY <1>2, Zenon
  <1>4. r = [m \in 1..n |-> q[from(m)]]
    BY <1>1 DEF SortedBy
  <1> HIDE DEF from, r
  <1>5. \A j \in 1..n : from(Place(key, j)) = j
    BY <1>2, <1>3
  <1>6. r \in Seq(X) /\ DOMAIN r = 1..n
    BY <1>1, <1>3, <1>4
  <1>7. ToSet(r) = ToSet(q)
    <2>1. ASSUME NEW m \in 1..n PROVE r[m] \in ToSet(q)
      BY <1>1, <1>3, <1>4 DEF ToSet
    <2>2. ASSUME NEW j \in 1..n PROVE q[j] \in ToSet(r)
      <3>1. Place(key, j) \in 1..n /\ r[Place(key, j)] = q[j]
        BY <1>2, <1>4, <1>5
      <3> QED BY <1>6, <3>1 DEF ToSet
    <2> QED BY <1>1, <1>6, <2>1, <2>2 DEF ToSet
  <1>8. ASSUME IsInjective(q) PROVE IsInjective(r)
    <2> SUFFICES ASSUME NEW i \in 1..n, NEW j \in 1..n, r[i] = r[j] PROVE i = j
      BY <1>6 DEF IsInjective
    <2>1. q[from(i)] = q[from(j)]
      BY <1>4
    <2>2. from(i) = from(j)
      BY <1>1, <1>3, <1>8, <2>1 DEF IsInjective
    <2> QED BY <1>3, <2>2
  <1> QED BY <1>6, <1>7, <1>8 DEF r
=============================================================================
