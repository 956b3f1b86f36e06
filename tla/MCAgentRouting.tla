--------------------------- MODULE MCAgentRouting ---------------------------
(* Instances of AgentRouting for TLC. *)
EXTENDS AgentRouting

CONSTANTS i1, i2, i3, writer, r1, m1, m2, k1

Short == [lo |-> 0, hi |-> 2]
Long == [lo |-> 2, hi |-> 4]
Ranges == {Short, Long}
Lengths == 0 .. 4

\* Two instances for long contexts, one for short ones: disjoint ranges.
ThreeOffer ==
    {<<i1, writer, Short>>, <<i2, writer, Long>>, <<i3, writer, Long>>}

\* The launcher's ids and the allocator's partitions.
ASSUME LaunchAssumption == IdsDetermine /\ DisjointRanges

OneKey == [x \in RouteCall \cup MigrateCall |-> k1]
\* Two blocks of two tokens.
SameTokens == [x \in RouteCall \cup MigrateCall |-> <<1, 2, 3, 4>>]
RouteLength == [q \in RouteCall |-> 3]
\* m1 ends exactly at the limit of its source, m2 past every range.
Totals == [m \in MigrateCall |-> IF m = m1 THEN 2 ELSE 4]
FromShort == [m \in MigrateCall |-> i1]

State(entries, hashes, active) ==
    [entries |-> entries, hashes |-> hashes, active |-> active, hashed |-> TRUE]
\* Idle, or busy and holding the entry.
LoadStates == {State({}, {}, 0), State({k1}, {}, 1)}

\* Two migrations among three unreliable instances, or a route and a migration
\* between two that keep what they have.
MigrateOrRoute ==
    {[launched |-> {i1, i2, i3}, calls |-> {m1, m2}, failures |-> TRUE,
      evictions |-> TRUE],
     [launched |-> {i1, i2}, calls |-> {r1, m1}, failures |-> FALSE,
      evictions |-> FALSE]}
=============================================================================
