----------------------------- MODULE MCWindows ------------------------------
(* Windows for TLC: tasks and windows are interchangeable. *)
EXTENDS Windows, TLC

Symmetry == Permutations(Task) \union Permutations(Window)
=============================================================================
