------------------------------ MODULE MCTasks -------------------------------
EXTENDS Tasks, TLC

ThreadSymmetry == Permutations(Thread)

(* Applications start processes and threads, threads do so as well. *)
AsksAll == [type \in TaskType |-> TaskType]
=============================================================================
