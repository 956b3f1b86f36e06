------------------------- MODULE ResourceAllocation -------------------------
(***************************************************************************)
(* The allocator: InstanceOrchestrator.solve turns an agent's estimated    *)
(* throughput per context range into a throughput curve over GPU budgets   *)
(* (a dynamic program picks the ranges, a greedy loop the instances), and  *)
(* WorkflowAllocator.allocate hands out instances to the slowest agent.    *)
(*                                                                         *)
(* Throughputs are naturals that divide Scale, so that the inverse the     *)
(* dynamic program adds up is exact (Scale / throughput); 0 stands for a   *)
(* range without an entry.  The estimator's numbers are the input.         *)
(***************************************************************************)
EXTENDS Integers, FiniteSets, Sequences, FiniteSetsExt, Functions

CONSTANTS
    Agents,       \* in the order of their names; without any, allocate returns at once
    Inputs,       \* [tp, inv, budget]: the agents' tables of throughputs and
                  \* average invocations, and total_num_gpus
    MaxIdx,       \* max_context_length // context_step
    MinGroup, MaxGroup,
    GpuStep,      \* gpus_per_instance
    Scale

Ranges == {r \in (0..MaxIdx) \X (0..MaxIdx) : r[1] < r[2]}

ASSUME AllocationAssumption ==
    /\ Agents \subseteq Nat /\ IsFiniteSet(Agents) /\ Agents # {}
    /\ {MaxIdx, MinGroup, MaxGroup, GpuStep, Scale} \subseteq Nat \ {0}
    /\ \A x \in Inputs : /\ x.budget \in Nat /\ x.inv \in [Agents -> Nat]
                         /\ x.tp \in [Agents -> [Ranges -> Nat]]
                         /\ \A a \in Agents, r \in Ranges :
                              x.tp[a][r] > 0 => Scale % x.tp[a][r] = 0

VARIABLES
    input,   \* the member of Inputs of this behaviour
    curves,  \* dp_results: per agent, GPUs -> [throughput, scheme, counts]
    gpus,    \* GPUs given to each agent
    phase
vars == <<input, curves, gpus, phase>>
-----------------------------------------------------------------------------
(***************************************************************************)
(* InstanceOrchestrator.  t is one agent's table.                          *)
(***************************************************************************)
Inf == Scale * (MaxGroup + 1)

\* Mutant: the throughputs are added up instead of their inverses.
CostDirect(t, r) == t[r]

Cost(t, r) == Scale \div t[r]

\* dp[k][c]: the least cost of covering [0, c) with k groups.
Dp(t) ==
    LET dp[k \in 0..MaxGroup] == [c \in 0..MaxIdx |->
            IF k = 0 THEN (IF c = 0 THEN 0 ELSE Inf)
            ELSE Min({Inf} \cup {dp[k - 1][p] + Cost(t, <<p, c>>) :
                    p \in {q \in 0..(c - 1) : t[<<q, c>>] > 0 /\ dp[k - 1][q] # Inf}})]
    IN  dp

\* The first transition that attains dp[k][c] stays its parent.
Parent(t, dp, k, c) ==
    Min({p \in 0..(c - 1) : /\ t[<<p, c>>] > 0 /\ dp[k - 1][p] # Inf
                            /\ dp[k - 1][p] + Cost(t, <<p, c>>) = dp[k][c]})

\* _reconstruct_scheme, from the last group to the first.
Scheme(t, dp, k) ==
    LET cut[j \in 0..k] == IF j = k THEN MaxIdx ELSE Parent(t, dp, j + 1, cut[j + 1])
    IN  [j \in 1..k |-> <<cut[j - 1], cut[j]>>]

\* Mutant: the heap keeps the throughput of one instance.
SlowestSingle(t, scheme, counts) ==
    LET v(j) == t[scheme[j]]
    IN  Min({j \in DOMAIN scheme : \A i \in DOMAIN scheme : v(j) <= v(i)})

\* heappop: the least throughput, then the least index.
Slowest(t, scheme, counts) ==
    LET v(j) == counts[j] * t[scheme[j]]
    IN  Min({j \in DOMAIN scheme : \A i \in DOMAIN scheme : v(j) <= v(i)})

MinThroughput(t, scheme, counts) ==
    Min({counts[j] * t[scheme[j]] : j \in DOMAIN scheme})

\* _allocate_instances_greedily: n instances over the groups of scheme.
Greedy(t, scheme, n) ==
    LET k == Len(scheme)
        counts[i \in 0..(n - k)] ==
            IF i = 0 THEN [j \in 1..k |-> 1]
            ELSE [counts[i - 1] EXCEPT ![Slowest(t, scheme, counts[i - 1])] = @ + 1]
    IN  [throughput |-> MinThroughput(t, scheme, counts[n - k]),
         scheme |-> scheme, counts |-> counts[n - k]]

NoAssignment == [throughput |-> 0, scheme |-> <<>>, counts |-> <<>>]

\* The group counts solve tries for n instances.
Candidates(dp, n) == {k \in MinGroup..MaxGroup : k <= n /\ dp[k][MaxIdx] # Inf}

\* The first of the best candidates.
Best(t, dp, n) ==
    LET of == [k \in Candidates(dp, n) |-> Greedy(t, Scheme(t, dp, k), n)]
        top == {k \in DOMAIN of : \A i \in DOMAIN of :
                    of[i].throughput <= of[k].throughput}
    IN  IF top = {} THEN NoAssignment ELSE of[Min(top)]

Solve(t, total) ==
    LET dp == Dp(t) IN [g \in 0..total |-> Best(t, dp, g \div GpuStep)]
-----------------------------------------------------------------------------
(***************************************************************************)
(* WorkflowAllocator.allocate.                                             *)
(***************************************************************************)
\* _normalized_throughputs: a fraction <<numerator, denominator>>.
Normalized(a, g) ==
    IF input.inv[a] <= 0 THEN <<0, 1>> ELSE <<curves[a][g].throughput, input.inv[a]>>

AtMost(x, y) == x[1] * y[2] <= y[1] * x[2]

\* Mutant: the invocations of the agents are not looked at.
BottleneckRaw ==
    Min({a \in Agents : \A b \in Agents :
            curves[a][gpus[a]].throughput <= curves[b][gpus[b]].throughput})

Bottleneck ==
    Min({a \in Agents : \A b \in Agents :
            AtMost(Normalized(a, gpus[a]), Normalized(b, gpus[b]))})

Allocated == SumFunction(gpus)

Init ==
    /\ input \in Inputs
    /\ curves = [a \in Agents |-> <<>>]
    /\ gpus = [a \in Agents |-> 0]
    /\ phase = "start"

Admissible ==
    input.budget % GpuStep = 0 /\ input.budget >= Cardinality(Agents) * GpuStep

\* The two ValueErrors.
Reject ==
    /\ phase = "start" /\ ~Admissible
    /\ phase' = "rejected" /\ UNCHANGED <<input, curves, gpus>>

\* AgentAllocator.allocate for every agent, then one instance each.
SolveAgents ==
    /\ phase = "start" /\ Admissible
    /\ curves' = [a \in Agents |-> Solve(input.tp[a], input.budget)]
    /\ gpus' = [a \in Agents |-> GpuStep]
    /\ phase' = "give" /\ UNCHANGED input

\* One round of the loop.
Give ==
    /\ phase = "give" /\ Allocated < input.budget
    /\ gpus' = [gpus EXCEPT ![Bottleneck] = @ + GpuStep]
    /\ UNCHANGED <<input, curves, phase>>

Return ==
    /\ phase = "give" /\ Allocated >= input.budget
    /\ phase' = "done" /\ UNCHANGED <<input, curves, gpus>>

Next == Reject \/ SolveAgents \/ Give \/ Return

Spec == Init /\ [][Next]_vars
-----------------------------------------------------------------------------
(***************************************************************************)
(* Reference definitions and properties.                                   *)
(***************************************************************************)
\* Every way to cut [0, MaxIdx) into k groups that all have a throughput.
Schemes(t, k) ==
    {s \in [1..k -> Ranges] :
        /\ s[1][1] = 0 /\ s[k][2] = MaxIdx
        /\ \A j \in 1..k : t[s[j]] > 0 /\ (j < k => s[j][2] = s[j + 1][1])}

Shares(k, n) == {c \in [1..k -> 1..n] : SumFunction(c) = n}
SchemeCost(t, s) == SumFunction([j \in DOMAIN s |-> Scale \div t[s[j]]])

\* The plan for k groups covers the whole context, group after group, and no
\* other plan of k groups has a smaller sum of inverse throughputs; without a
\* plan there is no way to cover it.
PlansMinimal ==
    phase = "start" => \A a \in Agents : \A k \in 1..MaxGroup :
        LET t == input.tp[a]
            dp == Dp(t)
        IN  IF dp[k][MaxIdx] = Inf THEN Schemes(t, k) = {}
            ELSE /\ Scheme(t, dp, k) \in Schemes(t, k)
                 /\ \A s \in Schemes(t, k) :
                       SchemeCost(t, Scheme(t, dp, k)) <= SchemeCost(t, s)

\* For its plan, the greedy loop's instances are the best split there is.
GreedyBest ==
    phase = "give" => \A a \in Agents : \A g \in DOMAIN curves[a] :
        LET c == curves[a][g]
            n == g \div GpuStep
        IN  c # NoAssignment =>
                /\ SumFunction(c.counts) = n
                /\ \A w \in Shares(Len(c.scheme), n) :
                      MinThroughput(input.tp[a], c.scheme, w) <= c.throughput

\* The allocation uses the budget exactly, an instance at least for everyone,
\* and no other one has a faster slowest agent.
MaxMinOptimal ==
    phase = "done" =>
        /\ Allocated = input.budget
        /\ \A a \in Agents : gpus[a] >= GpuStep /\ gpus[a] % GpuStep = 0
        /\ \A w \in [Agents -> {GpuStep * i : i \in 1..(input.budget \div GpuStep)}] :
              SumFunction(w) = input.budget =>
                \E b \in Agents : \A c \in Agents :
                    AtMost(Normalized(b, w[b]), Normalized(c, gpus[c]))
=============================================================================
