--------------------------- MODULE RequestRanges ---------------------------
(***************************************************************************)
(* RequestAnalyzer._compute_range_stats: which calls of an agent's trace   *)
(* count for a context range, and how often a node's calls leave it.  The  *)
(* averages of token counts are left out.  Context lengths are in units in *)
(* which a context step is Step.                                           *)
(***************************************************************************)
EXTENDS Integers, FiniteSets, Sequences

CONSTANTS Nodes, Step, MaxIdx, MaxCalls  \* MaxCalls bounds a node's repeats

ASSUME RangesAssumption ==
    {Step, MaxIdx, MaxCalls} \subseteq Nat \ {0} /\ IsFiniteSet(Nodes)

VARIABLES
    trace,    \* per node, the context lengths of its repeats in order
    lo, hi,   \* the range under way, as indexes of context steps
    todo,     \* calls still to look at
    calls,    \* calls counted: total_llm_calls
    outs,     \* total_out, as the calls that produce it
    counted   \* history: for every range already done, its calls
vars == <<trace, lo, hi, todo, calls, outs, counted>>

Contexts == 1..(Step * MaxIdx)
Calls(t) == {c \in Nodes \X (1..MaxCalls) : c[2] <= Len(t[c[1]])}

\* Mutant: both ends are exclusive.
InRangeOpen(x) == lo * Step < x /\ x < hi * Step

InRange(x) == lo * Step <= x /\ x <= hi * Step

Init ==
    /\ trace \in [Nodes -> UNION {[1..k -> Contexts] : k \in 0..MaxCalls}]
    /\ lo = 0 /\ hi = 1
    /\ todo = Calls(trace) /\ calls = {} /\ outs = {} /\ counted = <<>>

\* Mutant: the last repeat of a node is never an output.
LeavesNotLast(c) ==
    c[2] < Len(trace[c[1]]) /\ ~InRange(trace[c[1]][c[2] + 1])

\* A call in range after which the node's context is not in range any more.
Leaves(c) ==
    c[2] < Len(trace[c[1]]) => ~InRange(trace[c[1]][c[2] + 1])

\* One call of the loop; their order does not matter.
Scan ==
    /\ todo # {}
    /\ LET c == CHOOSE c \in todo : TRUE
           in == InRange(trace[c[1]][c[2]])
       IN  /\ todo' = todo \ {c}
           /\ calls' = IF in THEN calls \cup {c} ELSE calls
           /\ outs' = IF in /\ Leaves(c) THEN outs \cup {c} ELSE outs
    /\ UNCHANGED <<trace, lo, hi, counted>>

\* attain_instance_throughput: the next range (prev_idx, curr_idx).
NextRange ==
    /\ todo = {} /\ <<lo, hi>> # <<MaxIdx - 1, MaxIdx>>
    /\ counted' = Append(counted, [lo |-> lo, hi |-> hi, calls |-> calls])
    /\ hi' = IF hi < MaxIdx THEN hi + 1 ELSE lo + 2
    /\ lo' = IF hi < MaxIdx THEN lo ELSE lo + 1
    /\ todo' = Calls(trace) /\ calls' = {} /\ outs' = {}
    /\ UNCHANGED trace

Next == Scan \/ NextRange

Spec == Init /\ [][Next]_vars
-----------------------------------------------------------------------------
\* out_proportion counts visits: a node's consecutive calls in range count one
\* output together, also when the context shrinks below the range and returns.
OutsAreVisits ==
    todo = {} => Cardinality(outs) = Cardinality({c \in calls :
        c[2] = 1 \/ ~InRange(trace[c[1]][c[2] - 1])})

\* Two adjacent ranges leave no request out, and count one twice only if its
\* context length is their common bound.
NoGap ==
    todo = {} => \A i \in DOMAIN counted : counted[i].hi = lo =>
        \A c \in Calls(trace) : LET x == trace[c[1]][c[2]]
            IN  counted[i].lo * Step <= x /\ x <= hi * Step
                => /\ c \in calls \cup counted[i].calls
                   /\ c \in calls \cap counted[i].calls <=> x = lo * Step
=============================================================================
