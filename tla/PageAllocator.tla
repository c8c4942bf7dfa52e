---------------------------- MODULE PageAllocator ----------------------------
(***************************************************************************)
(* What the users of a page allocator rely on: the pages of an allocation  *)
(* are in the pool, and nobody else's until they are given back.           *)
(***************************************************************************)
EXTENDS Integers

CONSTANT Pages      \* the pages of the pool, 0..Pages - 1
VARIABLE held       \* allocations: first page and number of pages

Range(a) == a.first .. a.first + a.pages - 1

Init == held = {}

Allocate(a) ==
  /\ Range(a) \subseteq 0..Pages - 1
  /\ \A b \in held : Range(a) \intersect Range(b) = {}
  /\ held' = held \union {a}

Deallocate(a) == held' = held \ {a}

Next ==
  \/ \E first \in 0..Pages - 1, n \in 1..Pages :
       Allocate([first |-> first, pages |-> n])
  \/ \E a \in held : Deallocate(a)

Spec == Init /\ [][Next]_held
=============================================================================
