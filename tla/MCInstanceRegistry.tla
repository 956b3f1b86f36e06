------------------------- MODULE MCInstanceRegistry -------------------------
(* Instances of InstanceRegistry for TLC. *)
EXTENDS InstanceRegistry

CONSTANTS i1, i2, i3, i4, i5, writer, critic

Short == [lo |-> 0, hi |-> 2]
Long == [lo |-> 2, hi |-> 4]
Wide == [lo |-> 1, hi |-> 4]
Ranges == {Short, Long, Wide}
Lengths == 0 .. 4

\* Ids that determine agent and range: a shared range, an overlapping one, an
\* instance without a range and a second agent.
LaunchedOffer ==
    {<<i1, writer, Short>>, <<i2, writer, Short>>, <<i3, writer, Wide>>,
     <<i4, writer, None>>, <<i5, critic, Long>>}
=============================================================================
