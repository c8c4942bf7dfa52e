--------------------------- MODULE MCDisplayDamage ----------------------------
(* DisplayDamage for TLC: no definition tells the windows apart. *)
EXTENDS DisplayDamage, TLC

Symmetry == Permutations(Window)
=============================================================================
