---------------------------- MODULE PythonLists ----------------------------
(***************************************************************************)
(* What the engine's code takes from Python's lists: a comprehension with  *)
(* a condition, the stable sort and bisect_left.                           *)
(***************************************************************************)
EXTENDS Integers, Sequences, FiniteSets

\* [x for x in q if x in S]
Kept(q, S) ==
    LET kept[i \in 0..Len(q)] ==
            IF i = 0 THEN <<>>
            ELSE IF q[i] \in S THEN Append(kept[i - 1], q[i]) ELSE kept[i - 1]
    IN  kept[Len(q)]

\* Where q[j] comes in q sorted by key: equal keys keep their order.
Place(key, j) ==
    Cardinality({i \in DOMAIN key : key[i] < key[j] \/ (key[i] = key[j] /\ i <= j)})

\* sorted(q, key), where key[i] is the key of q[i].
SortedBy(q, key) ==
    [n \in DOMAIN q |-> q[CHOOSE j \in DOMAIN q : Place(key, j) = n]]

\* bisect_left over the positions 1..n, of which those in hits come before the
\* point that is looked for: how many positions it reports.
BisectLeft(hits, n) ==
    LET bisect[r \in (0..n) \X (0..n)] ==
            LET mid == (r[1] + r[2]) \div 2
            IN  IF r[1] >= r[2] THEN r[1]
                ELSE IF mid + 1 \in hits THEN bisect[<<mid + 1, r[2]>>]
                ELSE bisect[<<r[1], mid>>]
    IN  bisect[<<0, n>>]
=============================================================================
