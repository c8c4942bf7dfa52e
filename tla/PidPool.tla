------------------------------ MODULE PidPool -------------------------------
(***************************************************************************)
(* The pid ring with its two kinds of callers: Zeus takes a pid for a new  *)
(* task, Hades (or Zeus, when the start failed) gives one back.  `held' is *)
(* the set of pids that were handed out and not given back.                *)
(***************************************************************************)
EXTENDS PidTable, FiniteSets

VARIABLE held

pool_vars == <<pid_table, head, tail, held>>

Init == PidTableInit /\ held = {}

(* zeus(): pid_allocate() succeeded, or found the ring empty. *)
Allocate ==
  \E pid \in Pids \union {NoPid} :
    /\ pid_allocate(pid)
    /\ held' = held \union ({pid} \ {NoPid})

(* hades() or zeus()'s error path. *)
Free(pid) ==
  /\ pid \in held
  /\ pid_free(pid)
  /\ held' = held \ {pid}

Next == Allocate \/ \E pid \in held : Free(pid)

Spec == Init /\ [][Next]_pool_vars

-----------------------------------------------------------------------------
TypeOK == PidTableTypeOK /\ held \subseteq Pids

(* A pid that a task holds is not also waiting in the ring, and no pid     *)
(* waits there twice: pid_allocate() never gives one pid to two tasks.     *)
PidsAreExclusive == RingIsInjective /\ FreePids \intersect held = {}

(* Pids that are neither held nor in the ring can never be used again. The *)
(* first pid_free() overwrites a slot that task_init() filled or falls out *)
(* of step with head; after that the ring loses nothing more.              *)
Lost == Pids \ (held \union FreePids)
AtMostOnePidLost == Cardinality(Lost) <= 1

(* pid_allocate() reports exhaustion only when at most one pid more could  *)
(* have been handed out: the ring does not fall further and further out of *)
(* step with its head over a long sequence of allocations and frees.       *)
ExhaustedOnlyWhenFull ==
  pid_table[head] = NoPid => Cardinality(held) >= MaxPid - 1

(* The pool implements the allocator its callers rely on. *)
Allocator == INSTANCE PidAllocator WITH Pid <- Pids, free <- FreePids
ImplementsAllocator == Allocator!Spec
=============================================================================
