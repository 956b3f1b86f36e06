------------------------ MODULE MCResourceAllocation ------------------------
(***************************************************************************)
(* Inputs for ResourceAllocation: every table of four values, the same for *)
(* both agents, and pairs of coarse tables with uneven invocations, absent *)
(* agents and budgets that are rejected.                                   *)
(***************************************************************************)
EXTENDS ResourceAllocation

SameTables ==
    {[tp |-> [a \in Agents |-> t], inv |-> [a \in Agents |-> 1], budget |-> 10] :
        t \in [Ranges -> {0, 3, 4, 12}]}

\* Only the ranges with these ends have requests.
Coarse ==
    {[r \in Ranges |-> IF r \in {<<0, 1>>, <<1, 3>>, <<0, 3>>} THEN f[r] ELSE 0] :
        f \in [{<<0, 1>>, <<1, 3>>, <<0, 3>>} -> {0, 4, 12}]}
Uneven == {i \in [Agents -> 0..2] : \E a \in Agents : i[a] > 0}
CoarseTables ==
    {[tp |-> f, inv |-> i, budget |-> b] :
        f \in [Agents -> Coarse], i \in Uneven, b \in {2, 9, 10}}

AllInputs == SameTables \cup CoarseTables
=============================================================================
