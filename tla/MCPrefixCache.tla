--------------------------- MODULE MCPrefixCache ---------------------------
(***************************************************************************)
(* Instances of PrefixCache: the plain configuration, the retained entries *)
(* of a GPU and the temporary tables of a CPU cache.                       *)
(***************************************************************************)
EXTENDS PrefixCache

AllUses == {{"finish"}, {"finish", "retain"}, {"swap", "match"}}

Symmetry == Permutations(Clients)
=============================================================================
