----------------------------- MODULE MCLauncher -----------------------------
(* Instances of Launcher: two instances on three GPUs, or too few GPUs for *)
(* the second.                                                             *)
EXTENDS Launcher

Two == {<<1, 2>>, <<2, 2>>}
=============================================================================
