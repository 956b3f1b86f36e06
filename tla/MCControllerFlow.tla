-------------------------- MODULE MCControllerFlow --------------------------
(* Instances of ControllerFlow for TLC. *)
EXTENDS ControllerFlow

CONSTANTS q1, q2, q3, a, b, c, d

\* A diamond: a, then b and c, then d; a is reused by a later repeat.
DiamondNodes == [s \in Submission |-> {a, b, c, d}]
DiamondWorkflow ==
    [s \in Submission |->
        [n \in {a, b, c, d} |->
            CASE n = a -> {} [] n = b -> {a} [] n = c -> {a} [] n = d -> {b, c}]]
DiamondReused == [s \in Submission |-> {a, b}]

\* A join for q1 (two entry nodes) and a chain for q2.
PairNodes == [s \in Submission |-> IF s = q1 THEN {a, b, c} ELSE {a, b}]
PairWorkflow ==
    [s \in Submission |->
        IF s = q1 THEN [n \in {a, b, c} |-> IF n = c THEN {a, b} ELSE {}]
        ELSE [n \in {a, b} |-> IF n = b THEN {a} ELSE {}]]
PairReused == [s \in Submission |-> {a}]

\* Two chains with the same keys.
ChainNodes == [s \in Submission |-> {a, b}]
ChainWorkflow ==
    [s \in Submission |-> [n \in {a, b} |-> IF n = b THEN {a} ELSE {}]]

\* q1 has a dependency entry for a key that is not in its node_list, q2 lists
\* a node that q1 does not know, and an entry node of q3 is not in its list.
OddNodes ==
    [s \in Submission |-> IF s = q1 THEN {a, b} ELSE IF s = q2 THEN {a, c} ELSE {b}]
OddWorkflow ==
    [s \in Submission |->
        IF s = q1 THEN [n \in {a, b, d} |-> IF n = a THEN {} ELSE {a}]
        ELSE IF s = q2 THEN [n \in {a, c} |-> IF n = c THEN {a} ELSE {}]
        ELSE [n \in {b, d} |-> {}]]

DistinctIds == [s \in Submission |-> IF s = q1 THEN 1 ELSE 2]
NoIds == [s \in Submission |-> 0]
=============================================================================
