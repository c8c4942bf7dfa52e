--------------------------- MODULE BuddyAllocator ---------------------------
(***************************************************************************)
(* The buddy allocator of BadgeVMS (badgevms/buddy_alloc.c), with one pool *)
(* as both of its users have: the physical pages, and the virtual space    *)
(* for frame buffers.  Blocks are named by the index of their first page.  *)
(* An allocation or deallocation runs under memory_pool_mutex from end to  *)
(* end, so each is one step.                                               *)
(***************************************************************************)
EXTENDS Integers, SequencesExt

CONSTANTS
  TotalPages,   \* pages handed to init_pool()
  MetaPages,    \* those at the start that its own tables take
  MaxRequest    \* the largest request of the pool's users, in pages

(* get_order(): the smallest block that holds n pages has 2^get_order(n). *)
get_order(n) == CHOOSE k \in 0..n : n <= 2^k /\ \A j \in 0..k - 1 : 2^j < n

max_order       == get_order(TotalPages)
pages           == TotalPages - MetaPages
max_order_waste == 2^max_order - pages

ASSUME PoolAssumption ==
  /\ TotalPages \in Nat \ {0} /\ MetaPages \in 1..TotalPages - 1
  /\ max_order_waste < pages
  /\ MaxRequest \in Nat \ {0}

VARIABLES
  free_lists,      \* per order, in the order the blocks were pushed
  waste_list,      \* never searched: its order does not matter
  order,           \* per block: of its last use, when it is in no list
  max_order_free, free_pages,
  requested        \* per block: the pages its user asked for; 0: not allocated

vars == <<free_lists, waste_list, order, max_order_free, free_pages, requested>>

Block  == 0 .. 2^max_order - 1
Orders == 0..max_order

(* init_pool() marks the last max_order_waste pages of the pool and the     *)
(* descriptors up to TotalPages, not the ones that have no page.            *)
FirstWaste == pages - max_order_waste
IsWaste(i) == FirstWaste <= i /\ i < TotalPages

(* The requests of the pool's users are small for the pool.  A block of     *)
(* their order that begins before the waste does not end so far behind it   *)
(* that the last page asked for has no mark; and if they fit in it before   *)
(* the waste, all its pages are in the pool.                                *)
ASSUME RequestAssumption ==
  \A n \in 1..MaxRequest : \A b \in 0..FirstWaste - 1 :
    b % 2^get_order(n) = 0 =>
      /\ b + n <= TotalPages
      /\ b + n <= FirstWaste => b + 2^get_order(n) <= pages

(* The tables have TotalPages descriptors, but more are used: those up to  *)
(* the pool's whole order, and the next one is looked at when the whole    *)
(* pool is free.  They lie in the rest of the tables' last page, which     *)
(* init_pool() has zeroed: 513 of 16 bytes fit in a page of 64 KiB.        *)
OrderOf(i) == IF i \in Block THEN order[i] ELSE 0
InList(i)  == i \in waste_list \union Range(free_lists[OrderOf(i)])
Allocated == {b \in Block : requested[b] # 0}

TypeOK ==
  /\ free_lists \in [Orders -> Seq(Block)]
  /\ waste_list \subseteq Block
  /\ order \in [Block -> Orders]
  /\ max_order_free \in Orders
  /\ free_pages \in 0..pages
  /\ requested \in [Block -> 0..MaxRequest]

Init ==
  /\ free_lists = [o \in Orders |-> IF o = max_order THEN <<0>> ELSE <<>>]
  /\ waste_list = {}
  /\ order = [b \in Block |-> IF b = 0 THEN max_order ELSE 0]
  /\ max_order_free = max_order
  /\ free_pages = pages
  /\ requested = [b \in Block |-> 0]

-----------------------------------------------------------------------------
(* pool_find_block(): the places of a free list with a block in which a     *)
(* request for n pages does not end on a waste page; the last one is taken. *)
Fitting(o, n) == {i \in DOMAIN free_lists[o] : ~IsWaste(free_lists[o][i] + n - 1)}

(* split_block(), repeated: cut down to order o, a block of order a leaves  *)
(* its right halves behind; and a variant that forgets the last of them.    *)
HalvesButLast(b, o, a) == {b + 2^j : j \in o + 1..a - 1}

Halves(b, o, a) == {b + 2^j : j \in o..a - 1}

(* After a removal max_order_free goes down to the next list with a block; *)
(* and a variant that goes down by one order only.                         *)
LoweredOnce(lists) ==
  IF lists[max_order_free] = <<>> /\ max_order_free # 0 THEN max_order_free - 1
                                                        ELSE max_order_free

Lowered(lists) ==
  Max({0} \union {o \in 0..max_order_free : lists[o] # <<>>})

(* buddy_allocate(n pages) that succeeds.  find_pool() looks at the two     *)
(* totals; a request of the pool's own order is always "too large", because *)
(* its size in bytes is compared with a number of pages.                    *)
buddy_allocate(n) ==
  LET o     == get_order(n)
      found == {a \in o..max_order : Fitting(a, n) # {}}
      a     == Min(found)
      last  == Max(Fitting(a, n))
      b     == free_lists[a][last]
      split == Halves(b, o, a)
  IN /\ max_order_free >= o /\ free_pages >= n
     /\ o # max_order
     /\ found # {}
     /\ free_lists' = [j \in Orders |->
          IF j = a THEN RemoveAt(free_lists[a], last)
          ELSE IF b + 2^j \in split /\ ~IsWaste(b + 2^j)
                 THEN Append(free_lists[j], b + 2^j)
          ELSE free_lists[j]]
     /\ waste_list' = waste_list \union {c \in split : IsWaste(c)}
     /\ order' = [c \in Block |-> IF c = b THEN o
                                  ELSE IF c \in split THEN get_order(c - b)
                                  ELSE order[c]]
     /\ max_order_free' = Lowered(free_lists')
     /\ free_pages' = free_pages - 2^o
     /\ requested' = [requested EXCEPT ![b] = n]

(* The block of order j around page b, and its buddy: index ^ (1 << j). *)
Around(b, j) == b - (b % 2^j)
Buddy(b, j)  == IF b % 2^(j + 1) = 0 THEN b + 2^j ELSE b - 2^j

(* try_merge_buddy() of the block of order j around b; a variant that does  *)
(* not compare the orders; and one that merges only with a right buddy.     *)
MergesAnyOrder(b, j) == InList(Buddy(Around(b, j), j))

MergesRight(b, j) ==
  /\ b % 2^(j + 1) < 2^j
  /\ OrderOf(Around(b, j) + 2^j) = j /\ InList(Around(b, j) + 2^j)

Merges(b, j) ==
  LET buddy == Buddy(Around(b, j), j)
  IN buddy <= pages + max_order_waste /\ OrderOf(buddy) = j /\ InList(buddy)

(* The pages that become free: the block's own, not those it merges with    *)
(* (the variant), which already were.                                       *)
FreedMerged(b, k) == 2^k

Freed(b, k) == 2^order[b]

(* buddy_deallocate() and free_block(): merge upwards as far as the buddies *)
(* are free, taking each out of its list, then push the result.             *)
buddy_deallocate(b) ==
  LET o       == order[b]
      k       == Max({j \in o..max_order + 1 : \A i \in o..j - 1 : Merges(b, i)})
      merged  == Around(b, k)
      buddies == {Buddy(Around(b, j), j) : j \in o..k - 1}
      Rest(j) == IF j \in o..k - 1 THEN RemoveFirst(free_lists[j], Buddy(Around(b, j), j))
                                   ELSE free_lists[j]
  IN /\ b \in Allocated
     /\ free_lists' = [j \in Orders |->
          IF j = k /\ ~IsWaste(merged) THEN Append(Rest(j), merged) ELSE Rest(j)]
     /\ waste_list' = (waste_list \ buddies) \union
                        (IF IsWaste(merged) THEN {merged} ELSE {})
     /\ order' = [order EXCEPT ![merged] = k]
     /\ max_order_free' = IF ~IsWaste(merged) /\ k > max_order_free
                            THEN k ELSE max_order_free
     /\ free_pages' = free_pages + Freed(b, k)
     /\ requested' = [requested EXCEPT ![b] = 0]

Next ==
  \/ \E n \in 1..MaxRequest : buddy_allocate(n)
  \/ \E b \in Block : buddy_deallocate(b)

Spec == Init /\ [][Next]_vars

-----------------------------------------------------------------------------
(* The blocks, free, waste or allocated, and the pages each covers. *)
Free      == UNION {Range(free_lists[o]) : o \in Orders}
Blocks    == Free \union waste_list \union Allocated
Covers(b) == b .. b + 2^order[b] - 1

(* Splitting and merging lose no page and give none away twice: the blocks  *)
(* tile the pool, a free block is in the list of its order, once, and in no *)
(* other list.                                                              *)
BlocksTile ==
  /\ \A p \in Block : Cardinality({b \in Blocks : p \in Covers(b)}) = 1
  /\ \A o \in Orders : IsInjective(free_lists[o]) /\ \A b \in Range(free_lists[o]) : order[b] = o
  /\ Free \intersect (waste_list \union Allocated) = {}
  /\ waste_list \intersect Allocated = {}

(* "At any time we have the largest possible allocation available": two     *)
(* buddies are never both free.                                             *)
BuddiesAreMerged ==
  \A b \in Free \union waste_list :
    order[b] < max_order =>
      LET buddy == Buddy(b, order[b])
      IN ~(buddy \in Free \union waste_list /\ order[buddy] = order[b])

(* The two totals find_pool() decides by: a request is not refused, nor let *)
(* through, because of a total that has drifted from the lists.             *)
TotalsAreExact ==
  /\ max_order_free = Max({0} \union {o \in Orders : free_lists[o] # <<>>})
  /\ pages - free_pages = Cardinality(UNION {Covers(b) : b \in Allocated})

(* The pool implements the allocator its users rely on: what they get lies  *)
(* in the pool and overlaps nobody else's pages.                            *)
Allocator == INSTANCE PageAllocator WITH
  Pages <- pages,
  held <- {[first |-> b, pages |-> requested[b]] : b \in Allocated}
ImplementsPageAllocator == Allocator!Spec
=============================================================================
