------------------------ MODULE BuddyAllocatorProofs ------------------------
(***************************************************************************)
(* The buddy allocator, for a pool of any size: blocks tile it, free       *)
(* buddies are merged, the totals are exact, and nobody is given pages     *)
(* that are another's or that the pool has not.                            *)
(***************************************************************************)
EXTENDS BuddyAllocator, SequenceTheorems, FiniteSetTheorems, WellFoundedInduction, TLAPS

-----------------------------------------------------------------------------
(* Numbers.  A set of naturals has a least element, for the intervals 1..n *)
(* are finite sets, which are well founded; induction follows.             *)
LEMMA LeastExists ==
  ASSUME NEW T, T \subseteq Nat, T # {}
  PROVE  \E x \in T : \A y \in T : x <= y
<1> DEFINE Initial == {1..t : t \in T}
<1>1. Initial \subseteq FiniteSubsetsOf(Nat) /\ Initial # {}
  <2>1. \A t \in T : 1..t \subseteq Nat /\ IsFiniteSet(1..t)
    BY FS_Interval
  <2> QED
    BY <2>1 DEF FiniteSubsetsOf
<1>2. PICK set \in Initial : \A smaller \in Initial : <<smaller, set>> \notin StrictSubsetOrdering(Nat)
  <2> HIDE DEF Initial
  <2> QED
    BY <1>1, FS_StrictSubsetOrderingWellFounded, WFMin, Zenon
<1>3. PICK x \in T : set = 1..x
  BY <1>2
<1>4. ASSUME NEW y \in T PROVE x <= y
  <2>1. SUFFICES ASSUME y < x PROVE FALSE
    BY <1>3
  <2>2. 1..y \subseteq 1..x /\ 1..y # 1..x /\ 1..x \subseteq Nat
    BY <2>1, <1>3
  <2>3. <<1..y, 1..x>> \in StrictSubsetOrdering(Nat)
    BY <2>2 DEF StrictSubsetOrdering
  <2> QED
    BY <1>2, <1>3, <2>3
<1> QED
  BY <1>4

LEMMA Induction ==
  ASSUME NEW T, 0 \in T, \A n \in Nat : n \in T => n + 1 \in T
  PROVE  Nat \subseteq T
<1>1. SUFFICES ASSUME Nat \ T # {} PROVE FALSE
  OBVIOUS
<1>2. PICK x \in Nat \ T : \A y \in Nat \ T : x <= y
  BY <1>1, LeastExists
<1>3. x # 0 /\ x - 1 \in Nat /\ x - 1 \in T
  BY <1>2
<1> QED
  BY <1>2, <1>3

LEMMA MinProperties ==
  ASSUME NEW T, T \subseteq Nat, T # {}
  PROVE  Min(T) \in T /\ \A x \in T : Min(T) <= x
BY LeastExists DEF Min

LEMMA MaxProperties ==
  ASSUME NEW n \in Nat, NEW T, T \subseteq 0..n, T # {}
  PROVE  Max(T) \in T /\ \A x \in T : x <= Max(T)
<1> DEFINE Left == {n - t : t \in T}
<1>1. Left \subseteq Nat /\ Left # {}
  <2>1. \A t \in T : n - t \in Nat
    OBVIOUS
  <2> QED
    BY <2>1
<1>2. PICK l \in Left : \A x \in Left : l <= x
  BY <1>1, LeastExists
<1>3. PICK m \in T : l = n - m
  BY <1>2
<1>4. \A x \in T : x <= m
  BY <1>2, <1>3
<1> QED
  BY <1>4 DEF Max

-----------------------------------------------------------------------------
(* Powers of two. *)
LEMMA PowerIsNatural == \A k \in Nat : 2^k \in Nat
<1> SUFFICES ASSUME NEW k \in Nat PROVE 2^k \in Nat
  OBVIOUS
<1>1. IsFiniteSet(1..k) /\ Cardinality(1..k) = k
  BY FS_Interval
<1>2. IsFiniteSet(SUBSET (1..k)) /\ Cardinality(SUBSET (1..k)) = 2^k
  BY <1>1, FS_SUBSET
<1> QED
  BY <1>2, FS_CardinalityType

LEMMA PowerDoubles == \A k \in Nat : 2^(k + 1) = 2 * 2^k
<1> SUFFICES ASSUME NEW k \in Nat PROVE 2^(k + 1) = 2 * 2^k
  OBVIOUS
<1> DEFINE S == SUBSET (1..k)
           With == [set \in S |-> set \union {k + 1}]
           T == {set \union {k + 1} : set \in S}
<1>1. IsFiniteSet(S) /\ Cardinality(S) = 2^k
  <2>1. IsFiniteSet(1..k) /\ Cardinality(1..k) = k
    BY FS_Interval
  <2> QED
    BY <2>1, FS_SUBSET
<1>2. IsFiniteSet(SUBSET (1..k + 1)) /\ Cardinality(SUBSET (1..k + 1)) = 2^(k + 1)
  <2>1. IsFiniteSet(1..k + 1) /\ Cardinality(1..k + 1) = k + 1
    BY FS_Interval
  <2> QED
    BY <2>1, FS_SUBSET
<1>3. IsFiniteSet(T) /\ Cardinality(T) = Cardinality(S)
  <2>1. With \in [S -> T] /\ \A t \in T : \E s \in S : With[s] = t
    OBVIOUS
  <2>2. ASSUME NEW s \in S, NEW t \in S, With[s] = With[t] PROVE s = t
    <3>1. s \union {k + 1} = t \union {k + 1} /\ k + 1 \notin s /\ k + 1 \notin t
      BY <2>2
    <3> QED
      BY <3>1
  <2>3. With \in Surjection(S, T)
    BY <2>1 DEF Surjection
  <2>4. With \in Injection(S, T)
    BY <2>1, <2>2 DEF Injection, IsInjective
  <2> HIDE DEF S, T, With
  <2> QED
    BY <2>3, <2>4, <1>1, FS_Surjection
<1>4. S \intersect T = {}
  <2>1. \A t \in T : k + 1 \in t
    OBVIOUS
  <2>2. \A s \in S : k + 1 \notin s
    OBVIOUS
  <2> QED
    BY <2>1, <2>2
<1>5. SUBSET (1..k + 1) = S \union T
  <2>1. ASSUME NEW set \in SUBSET (1..k + 1) PROVE set \in S \union T
    <3>1. CASE k + 1 \in set
      <4>1. set \ {k + 1} \in S
        OBVIOUS
      <4>2. set = (set \ {k + 1}) \union {k + 1}
        BY <3>1
      <4> QED
        BY <4>1, <4>2
    <3>2. CASE k + 1 \notin set
      BY <3>2
    <3> QED
      BY <3>1, <3>2
  <2>2. S \subseteq SUBSET (1..k + 1)
    OBVIOUS
  <2>3. T \subseteq SUBSET (1..k + 1)
    <3>1. \A set \in S : set \union {k + 1} \subseteq 1..k + 1
      OBVIOUS
    <3> QED
      BY <3>1
  <2> QED
    BY <2>1, <2>2, <2>3
<1>6. Cardinality(S \union T) = Cardinality(S) + Cardinality(T)
  <2> HIDE DEF S, T
  <2>1. Cardinality(S \union T) = Cardinality(S) + Cardinality(T) - Cardinality({})
    BY <1>1, <1>3, <1>4, FS_Union
  <2> QED
    BY <2>1, <1>1, <1>3, FS_EmptySet, PowerIsNatural
<1> HIDE DEF S, T, With
<1>7. 2^(k + 1) = 2^k + 2^k
  BY <1>1, <1>2, <1>3, <1>5, <1>6
<1>8. 2^k \in Nat
  BY PowerIsNatural
<1> QED
  BY <1>7, <1>8

LEMMA PowerIsPositive == \A k \in Nat : 2^k \in Nat \ {0} /\ k < 2^k
<1> DEFINE T == {k \in Nat : k < 2^k}
<1>1. 0 \in T
  OBVIOUS
<1>2. \A k \in Nat : k \in T => k + 1 \in T
  BY PowerDoubles, PowerIsNatural
<1>3. Nat \subseteq T
  BY <1>1, <1>2, Induction, Zenon
<1> QED
  BY <1>3, PowerIsNatural

(* A power of two divides the higher ones. *)
LEMMA PowerDivides ==
  ASSUME NEW j \in Nat, NEW k \in Nat, j <= k
  PROVE  \E q \in Nat \ {0} : 2^k = q * 2^j
<1> DEFINE T == {i \in Nat : \E q \in Nat \ {0} : 2^(j + i) = q * 2^j}
<1>1. 0 \in T
  <2>1. 2^(j + 0) = 1 * 2^j
    BY PowerIsNatural
  <2> QED
    BY <2>1
<1>2. ASSUME NEW i \in Nat, i \in T PROVE i + 1 \in T
  <2>1. PICK q \in Nat \ {0} : 2^(j + i) = q * 2^j
    BY <1>2
  <2>2. 2^((j + i) + 1) = 2 * 2^(j + i)
    BY PowerDoubles
  <2>3. 2^(j + (i + 1)) = (2 * q) * 2^j
    <3>1. j + (i + 1) = (j + i) + 1
      OBVIOUS
    <3>2. 2^j \in Nat
      BY PowerIsNatural
    <3>3. 2 * (q * 2^j) = (2 * q) * 2^j
      BY <3>2
    <3> QED
      BY <2>1, <2>2, <3>1, <3>3
  <2>4. i + 1 \in Nat /\ 2 * q \in Nat \ {0}
    OBVIOUS
  <2> QED
    BY <2>3, <2>4
<1>3. Nat \subseteq T
  BY <1>1, <1>2, Induction, Zenon
<1>4. k - j \in Nat /\ j + (k - j) = k
  OBVIOUS
<1>5. k - j \in T
  BY <1>3, <1>4
<1>6. PICK q \in Nat \ {0} : 2^(j + (k - j)) = q * 2^j
  BY <1>5
<1> QED
  BY <1>4, <1>6

LEMMA PowerMonotone ==
  ASSUME NEW j \in Nat, NEW k \in Nat
  PROVE  /\ j <= k => 2^j <= 2^k
         /\ j < k => 2^(j + 1) <= 2^k /\ 2^j < 2^k
<1>1. ASSUME NEW i \in Nat, NEW l \in Nat, i <= l PROVE 2^i <= 2^l
  <2>1. PICK q \in Nat \ {0} : 2^l = q * 2^i
    BY <1>1, PowerDivides
  <2>2. 2^i \in Nat
    BY PowerIsNatural
  <2> QED
    BY <2>1, <2>2
<1>2. 2^(j + 1) = 2 * 2^j /\ 2^j \in Nat \ {0} /\ 2^k \in Nat
  BY PowerDoubles, PowerIsPositive
<1>3. j < k => 2^(j + 1) <= 2^k
  BY <1>1
<1> QED
  BY <1>1, <1>2, <1>3

(* get_order() is the logarithm, rounded up. *)
LEMMA OrderProperties ==
  ASSUME NEW n \in Nat
  PROVE  /\ get_order(n) \in Nat /\ n <= 2^get_order(n)
         /\ \A j \in Nat : j < get_order(n) => 2^j < n
         /\ \A j \in Nat : n <= 2^j => get_order(n) <= j
<1> DEFINE T == {k \in Nat : n <= 2^k}
<1>1. n \in T
  BY PowerIsPositive
<1>2. PICK k \in T : \A j \in T : k <= j
  BY <1>1, LeastExists
<1>3. k \in 0..n /\ n <= 2^k /\ \A j \in 0..k - 1 : 2^j < n
  BY <1>1, <1>2, PowerIsNatural
<1>4. get_order(n) \in 0..n /\ n <= 2^get_order(n) /\ \A j \in 0..get_order(n) - 1 : 2^j < n
  BY <1>3 DEF get_order
<1>5. ASSUME NEW j \in Nat, n <= 2^j PROVE get_order(n) <= j
  BY <1>4, <1>5, PowerIsNatural
<1> QED
  BY <1>4, <1>5

LEMMA OrderOfPower == \A k \in Nat : get_order(2^k) = k
<1> SUFFICES ASSUME NEW k \in Nat PROVE get_order(2^k) = k
  OBVIOUS
<1>1. 2^k \in Nat
  BY PowerIsNatural
<1>2. get_order(2^k) \in Nat /\ 2^k <= 2^get_order(2^k) /\ get_order(2^k) <= k
  BY <1>1, OrderProperties
<1>3. get_order(2^k) < k => 2^get_order(2^k) < 2^k
  BY <1>2, PowerMonotone
<1> QED
  BY <1>1, <1>2, <1>3, PowerIsNatural

(* Every positive number lies between two powers. *)
LEMMA BetweenPowers ==
  ASSUME NEW x \in Nat \ {0}
  PROVE  \E j \in Nat : 2^j <= x /\ x < 2^(j + 1)
<1> DEFINE T == {k \in Nat : x < 2^k}
<1>1. x \in T
  BY PowerIsPositive
<1>2. PICK k \in T : \A i \in T : k <= i
  BY <1>1, LeastExists
<1>3. 0 \notin T
  OBVIOUS
<1>4. k # 0
  BY <1>2, <1>3
<1>5. k - 1 \in Nat /\ (k - 1) + 1 = k /\ k - 1 \notin T
  BY <1>2, <1>4
<1> QED
  BY <1>2, <1>5, PowerIsNatural

-----------------------------------------------------------------------------
(* Blocks.  A block of order j begins at a multiple of 2^j. *)
Aligned(b, j) == \E q \in Nat : b = q * 2^j
Span(b, j)    == b .. b + 2^j - 1

LEMMA RemainderIsZero ==
  ASSUME NEW b \in Nat, NEW j \in Nat
  PROVE  b % 2^j = 0 <=> Aligned(b, j)
<1>1. PICK d \in Nat \ {0} : d = 2^j
  BY PowerIsPositive
<1>2. b = d * (b \div d) + (b % d) /\ b \div d \in Nat
  OBVIOUS
<1>3. (b % d) = 0 => \E q \in Nat : b = q * d
  <2>1. ASSUME (b % d) = 0 PROVE b = (b \div d) * d
    BY <1>2, <2>1
  <2> QED
    BY <1>2, <2>1
<1>4. ASSUME NEW q \in Nat, b = q * d PROVE (b % d) = 0
  <2>1. (q * d + 0) % d = 0
    OBVIOUS
  <2> QED
    BY <1>4, <2>1
<1> QED
  BY <1>1, <1>3, <1>4 DEF Aligned

(* Two multiples are a multiple apart. *)
LEMMA AlignedApart ==
  ASSUME NEW b \in Nat, NEW c \in Nat, NEW j \in Nat, Aligned(b, j), Aligned(c, j), b < c
  PROVE  b + 2^j <= c
<1>1. PICK d \in Nat \ {0} : d = 2^j
  BY PowerIsPositive
<1>2. PICK p \in Nat, q \in Nat : b = p * d /\ c = q * d
  BY <1>1 DEF Aligned
<1>3. p * d < q * d
  BY <1>2
<1>4. p * d + d <= q * d
  BY <1>3
<1> QED
  BY <1>1, <1>2, <1>4

LEMMA AlignedSum ==
  ASSUME NEW b \in Nat, NEW j \in Nat, Aligned(b, j)
  PROVE  Aligned(b + 2^j, j)
<1>1. PICK d \in Nat \ {0} : d = 2^j
  BY PowerIsPositive
<1>2. PICK q \in Nat : b = q * d
  BY <1>1 DEF Aligned
<1>3. b + d = (q + 1) * d
  BY <1>2
<1> QED
  BY <1>1, <1>3 DEF Aligned

LEMMA AlignedCoarser ==
  ASSUME NEW b \in Nat, NEW j \in Nat, NEW k \in Nat, j <= k, Aligned(b, k)
  PROVE  Aligned(b, j)
<1>1. PICK q \in Nat \ {0} : 2^k = q * 2^j
  BY PowerDivides
<1>2. PICK r \in Nat : b = r * 2^k
  BY DEF Aligned
<1>3. PICK d \in Nat \ {0} : d = 2^j
  BY PowerIsPositive
<1>4. b = r * (q * d)
  BY <1>1, <1>2, <1>3
<1>5. r * (q * d) = (r * q) * d /\ r * q \in Nat
  OBVIOUS
<1>6. b = (r * q) * 2^j
  BY <1>3, <1>4, <1>5
<1> QED
  BY <1>5, <1>6 DEF Aligned

LEMMA ZeroIsAligned == \A j \in Nat : Aligned(0, j)
<1> SUFFICES ASSUME NEW j \in Nat PROVE Aligned(0, j)
  OBVIOUS
<1>1. 0 = 0 * 2^j
  BY PowerIsNatural
<1> QED
  BY <1>1 DEF Aligned

LEMMA PowerIsAligned ==
  ASSUME NEW j \in Nat, NEW k \in Nat, j <= k
  PROVE  Aligned(2^k, j)
BY PowerDivides DEF Aligned

(* A block of a lower order that begins in a block lies in it. *)
LEMMA Nested ==
  ASSUME NEW b \in Nat, NEW c \in Nat, NEW j \in Nat, NEW k \in Nat, j <= k,
         Aligned(b, j), Aligned(c, k), c <= b, b < c + 2^k
  PROVE  b + 2^j <= c + 2^k
<1>1. c + 2^k \in Nat
  BY PowerIsNatural
<1>2. Aligned(c + 2^k, j)
  BY <1>1, AlignedSum, AlignedCoarser
<1> QED
  BY <1>1, <1>2, AlignedApart

LEMMA AroundProperties ==
  ASSUME NEW b \in Nat, NEW j \in Nat
  PROVE  /\ Around(b, j) \in Nat /\ Aligned(Around(b, j), j)
         /\ Around(b, j) <= b /\ b < Around(b, j) + 2^j
         /\ b \in Span(Around(b, j), j)
<1>1. PICK d \in Nat \ {0} : d = 2^j
  BY PowerIsPositive
<1>2. b = d * (b \div d) + (b % d) /\ b \div d \in Nat /\ (b % d) \in 0..d - 1
  OBVIOUS
<1>3. b - (b % d) = (b \div d) * d
  BY <1>2
<1>4. b - (b % d) \in Nat /\ b - (b % d) <= b /\ b < b - (b % d) + d
  BY <1>2, <1>3
<1>5. Around(b, j) = b - (b % d)
  BY <1>1 DEF Around
<1> QED
  BY <1>1, <1>2, <1>3, <1>4, <1>5 DEF Aligned, Span

LEMMA AroundIsUnique ==
  ASSUME NEW b \in Nat, NEW c \in Nat, NEW j \in Nat, Aligned(c, j), c <= b, b < c + 2^j
  PROVE  Around(b, j) = c
<1>1. /\ Around(b, j) \in Nat /\ Aligned(Around(b, j), j)
      /\ Around(b, j) <= b /\ b < Around(b, j) + 2^j
  BY AroundProperties
<1>2. 2^j \in Nat
  BY PowerIsNatural
<1>3. Around(b, j) < c => Around(b, j) + 2^j <= c
  BY <1>1, AlignedApart
<1>4. c < Around(b, j) => c + 2^j <= Around(b, j)
  BY <1>1, AlignedApart
<1> QED
  BY <1>1, <1>2, <1>3, <1>4

(* The buddy of a block is its other half of the block above. *)
LEMMA BuddyProperties ==
  ASSUME NEW b \in Nat, NEW j \in Nat, Aligned(b, j)
  PROVE  /\ Buddy(b, j) \in Nat /\ Aligned(Buddy(b, j), j) /\ Buddy(b, j) # b
         /\ Buddy(Buddy(b, j), j) = b
         /\ Span(Around(b, j + 1), j + 1) = Span(b, j) \union Span(Buddy(b, j), j)
         /\ Span(b, j) \intersect Span(Buddy(b, j), j) = {}
<1>1. PICK d \in Nat \ {0} : d = 2^j
  BY PowerIsPositive
<1>2. 2^(j + 1) = 2 * d
  BY <1>1, PowerDoubles
<1>3. PICK q \in Nat : b = q * d
  BY <1>1 DEF Aligned
<1>4. CASE Aligned(b, j + 1)
  <2>1. b % 2^(j + 1) = 0
    BY <1>4, RemainderIsZero
  <2>2. Buddy(b, j) = b + d
    BY <1>1, <2>1 DEF Buddy
  <2>3. Aligned(b + d, j)
    BY <1>1, AlignedSum
  <2>4. ~Aligned(b + d, j + 1)
    <3>1. SUFFICES ASSUME Aligned(b + d, j + 1) PROVE FALSE
      OBVIOUS
    <3>2. b + 2^(j + 1) <= b + d
      BY <1>4, <3>1, AlignedApart
    <3> QED
      BY <1>2, <3>2
  <2>5. (b + d) % 2^(j + 1) # 0
    BY <2>4, RemainderIsZero
  <2>6. Buddy(b + d, j) = b
    BY <1>1, <2>5 DEF Buddy
  <2>7. Around(b, j + 1) = b
    BY <1>2, <1>4, AroundIsUnique
  <2> QED
    BY <1>1, <1>2, <2>2, <2>3, <2>6, <2>7 DEF Span
<1>5. CASE ~Aligned(b, j + 1)
  <2>1. b % 2^(j + 1) # 0
    BY <1>5, RemainderIsZero
  <2>2. Buddy(b, j) = b - d
    BY <1>1, <2>1 DEF Buddy
  <2>3. PICK r \in Nat : q = 2 * r + 1
    <3>1. ASSUME NEW r \in Nat PROVE q # 2 * r
      <4>1. SUFFICES ASSUME q = 2 * r PROVE FALSE
        OBVIOUS
      <4>2. b = r * (2 * d)
        BY <1>3, <4>1
      <4> QED
        BY <1>2, <1>5, <4>2 DEF Aligned
    <3>2. q = 2 * (q \div 2) + (q % 2) /\ q \div 2 \in Nat /\ (q % 2) \in 0..1
      OBVIOUS
    <3> QED
      BY <3>1, <3>2
  <2>4. b - d = r * (2 * d) /\ b - d = (2 * r) * d /\ b - d \in Nat
    BY <1>3, <2>3
  <2>5. Aligned(b - d, j + 1) /\ Aligned(b - d, j)
    <3>1. 2 * r \in Nat
      OBVIOUS
    <3> QED
      BY <1>1, <1>2, <2>4, <3>1 DEF Aligned
  <2>6. (b - d) % 2^(j + 1) = 0
    BY <2>4, <2>5, RemainderIsZero
  <2>7. Buddy(b - d, j) = b
    BY <1>1, <2>4, <2>6 DEF Buddy
  <2>8. Around(b, j + 1) = b - d
    BY <1>2, <2>4, <2>5, AroundIsUnique
  <2> QED
    BY <1>1, <1>2, <2>2, <2>4, <2>5, <2>7, <2>8 DEF Span
<1> QED
  BY <1>4, <1>5

(* The block of the next order around a page. *)
LEMMA AroundStep ==
  ASSUME NEW b \in Nat, NEW j \in Nat
  PROVE  Span(Around(b, j + 1), j + 1) =
           Span(Around(b, j), j) \union Span(Buddy(Around(b, j), j), j)
<1>1. /\ Around(b, j) \in Nat /\ Aligned(Around(b, j), j)
      /\ Around(b, j) <= b /\ b < Around(b, j) + 2^j
  BY AroundProperties
<1>2. /\ Around(b, j + 1) \in Nat /\ Aligned(Around(b, j + 1), j + 1)
      /\ Around(b, j + 1) <= b /\ b < Around(b, j + 1) + 2^(j + 1)
  BY AroundProperties
<1>3. 2^j \in Nat /\ 2^(j + 1) \in Nat
  BY PowerIsNatural
<1>4. Around(b, j + 1) <= Around(b, j)
  <2>1. SUFFICES ASSUME Around(b, j) < Around(b, j + 1) PROVE FALSE
    BY <1>1, <1>2
  <2>2. Aligned(Around(b, j + 1), j)
    BY <1>2, AlignedCoarser
  <2> QED
    BY <1>1, <1>2, <1>3, <2>1, <2>2, AlignedApart
<1>5. Around(Around(b, j), j + 1) = Around(b, j + 1)
  BY <1>1, <1>2, <1>3, <1>4, AroundIsUnique
<1> QED
  BY <1>1, <1>5, BuddyProperties
(* Merging upwards joins the block with the buddies on its way. *)
LEMMA MergedSpan ==
  ASSUME NEW b \in Nat, NEW o \in Nat, NEW k \in Nat, o <= k, Aligned(b, o)
  PROVE  Span(Around(b, k), k) =
           Span(b, o) \union UNION {Span(Buddy(Around(b, i), i), i) : i \in o..k - 1}
<1> DEFINE Joined(x) == Span(b, o) \union UNION {Span(Buddy(Around(b, i), i), i) : i \in o..x - 1}
           T == {n \in Nat : Span(Around(b, o + n), o + n) = Joined(o + n)}
<1>1. 0 \in T
  <2>1. Around(b, o) = b
    BY AroundIsUnique, PowerIsPositive
  <2>2. o..(o + 0) - 1 = {} /\ o + 0 = o
    OBVIOUS
  <2> QED
    BY <2>1, <2>2
<1>2. ASSUME NEW n \in Nat, n \in T PROVE n + 1 \in T
  <2>1. o + (n + 1) = (o + n) + 1 /\ o + n \in Nat
    OBVIOUS
  <2>2. o..(o + (n + 1)) - 1 = (o..(o + n) - 1) \union {o + n}
    OBVIOUS
  <2>3. Joined(o + (n + 1)) = Joined(o + n) \union Span(Buddy(Around(b, o + n), o + n), o + n)
    BY <2>2, Zenon
  <2>4. Span(Around(b, (o + n) + 1), (o + n) + 1) =
          Span(Around(b, o + n), o + n) \union Span(Buddy(Around(b, o + n), o + n), o + n)
    BY <2>1, AroundStep
  <2> QED
    BY <1>2, <2>1, <2>3, <2>4
<1>3. Nat \subseteq T
  BY <1>1, <1>2, Induction, Zenon
<1>4. k - o \in Nat /\ o + (k - o) = k
  OBVIOUS
<1>5. Span(Around(b, o + (k - o)), o + (k - o)) = Joined(o + (k - o))
  BY <1>3, <1>4
<1> QED
  BY <1>4, <1>5

(* Splitting leaves the block asked for and one right half of each order   *)
(* above it, and these tile the block that is split.                       *)
LEMMA SplitSpan ==
  ASSUME NEW b \in Nat, NEW o \in Nat, NEW a \in Nat, o <= a
  PROVE  /\ Span(b, a) = Span(b, o) \union UNION {Span(b + 2^j, j) : j \in o..a - 1}
         /\ \A j \in o..a - 1 : Span(b, o) \intersect Span(b + 2^j, j) = {}
         /\ \A i, j \in o..a - 1 : i # j => Span(b + 2^i, i) \intersect Span(b + 2^j, j) = {}
<1>1. \A j \in Nat : 2^j \in Nat \ {0} /\ 2^(j + 1) = 2^j + 2^j
  BY PowerIsPositive, PowerDoubles
<1>2. \A j \in o..a - 1 : 2^o <= 2^j /\ 2^(j + 1) <= 2^a
  BY PowerMonotone
<1>3. ASSUME NEW p \in Span(b, a), p \notin Span(b, o)
      PROVE  \E j \in o..a - 1 : p \in Span(b + 2^j, j)
  <2>1. p - b \in Nat \ {0} /\ 2^o <= p - b /\ p - b < 2^a
    BY <1>1, <1>3 DEF Span
  <2>2. PICK j \in Nat : 2^j <= p - b /\ p - b < 2^(j + 1)
    BY <2>1, BetweenPowers
  <2>3. o <= j
    <3>1. SUFFICES ASSUME j < o PROVE FALSE
      OBVIOUS
    <3>2. 2^(j + 1) <= 2^o
      BY <3>1, PowerMonotone
    <3> QED
      BY <1>1, <2>1, <2>2, <3>2
  <2>4. j < a
    <3>1. SUFFICES ASSUME a <= j PROVE FALSE
      OBVIOUS
    <3>2. 2^a <= 2^j
      BY <3>1, PowerMonotone
    <3> QED
      BY <1>1, <2>1, <2>2, <3>2
  <2>5. p \in Span(b + 2^j, j)
    BY <1>1, <2>1, <2>2 DEF Span
  <2> QED
    BY <2>3, <2>4, <2>5
<1>4. Span(b, o) \subseteq Span(b, a)
  <2>1. 2^o <= 2^a
    BY PowerMonotone
  <2> QED
    BY <1>1, <2>1 DEF Span
<1>5. ASSUME NEW j \in o..a - 1
      PROVE  Span(b + 2^j, j) \subseteq Span(b, a) /\ Span(b, o) \intersect Span(b + 2^j, j) = {}
  BY <1>1, <1>2 DEF Span
<1>6. ASSUME NEW i \in o..a - 1, NEW j \in o..a - 1, i < j
      PROVE  Span(b + 2^i, i) \intersect Span(b + 2^j, j) = {}
  <2>1. 2^(i + 1) <= 2^j
    BY <1>6, PowerMonotone
  <2> QED
    BY <1>1, <2>1 DEF Span
<1>7. \A i, j \in o..a - 1 : i # j => Span(b + 2^i, i) \intersect Span(b + 2^j, j) = {}
  <2>1. \A i, j \in o..a - 1 : i # j => i < j \/ j < i
    OBVIOUS
  <2> QED
    BY <1>6, <2>1
<1> QED
  BY <1>3, <1>4, <1>5, <1>7

-----------------------------------------------------------------------------
(* Lists without duplicates. *)
LEMMA RemoveAtProperties ==
  ASSUME NEW S, NEW list \in Seq(S), NEW i \in 1..Len(list), IsInjective(list)
  PROVE  /\ RemoveAt(list, i) \in Seq(S)
         /\ Len(RemoveAt(list, i)) = Len(list) - 1
         /\ Range(RemoveAt(list, i)) = Range(list) \ {list[i]}
         /\ IsInjective(RemoveAt(list, i))
<1> DEFINE front == SubSeq(list, 1, i - 1)
           back  == SubSeq(list, i + 1, Len(list))
           rest  == front \o back
<1>1. Len(list) \in Nat /\ DOMAIN list = 1..Len(list) /\ \A n \in 1..Len(list) : list[n] \in S
  BY LenProperties, ElementOfSeq
<1>2. /\ front \in Seq(S) /\ Len(front) = i - 1
      /\ \A n \in 1..i - 1 : front[n] = list[n]
  <2>1. \A n \in 1..i - 1 : list[n] \in S
    BY <1>1
  <2>2. /\ SubSeq(list, 1, i - 1) \in Seq(S)
        /\ Len(SubSeq(list, 1, i - 1)) = IF 1 <= i - 1 THEN i - 1 - 1 + 1 ELSE 0
        /\ \A n \in 1..i - 1 - 1 + 1 : SubSeq(list, 1, i - 1)[n] = list[1 + n - 1]
    BY <2>1, SubSeqProperties
  <2> QED
    BY <1>1, <2>2
<1>3. /\ back \in Seq(S) /\ Len(back) = Len(list) - i
      /\ \A n \in 1..Len(list) - i : back[n] = list[i + n]
  <2>1. \A n \in i + 1..Len(list) : list[n] \in S
    BY <1>1
  <2>2. /\ SubSeq(list, i + 1, Len(list)) \in Seq(S)
        /\ Len(SubSeq(list, i + 1, Len(list))) =
             IF i + 1 <= Len(list) THEN Len(list) - (i + 1) + 1 ELSE 0
        /\ \A n \in 1..Len(list) - (i + 1) + 1 :
             SubSeq(list, i + 1, Len(list))[n] = list[i + 1 + n - 1]
    BY <1>1, <2>1, SubSeqProperties
  <2>3. (IF i + 1 <= Len(list) THEN Len(list) - (i + 1) + 1 ELSE 0) = Len(list) - i
    <3>1. PICK len \in Nat : len = Len(list)
      BY <1>1
    <3>2. i \in Int /\ i <= len
      BY <3>1
    <3>3. CASE i + 1 <= len
      BY <3>1, <3>2, <3>3
    <3>4. CASE i = len
      BY <3>1, <3>2, <3>4
    <3> QED
      BY <3>1, <3>2, <3>3, <3>4
  <2>4. \A n \in 1..Len(list) - i : n \in 1..Len(list) - (i + 1) + 1 /\ i + 1 + n - 1 = i + n
    BY <1>1
  <2> QED
    BY <2>2, <2>3, <2>4
<1> HIDE DEF front, back
<1>4. /\ rest \in Seq(S) /\ Len(rest) = Len(list) - 1
      /\ \A n \in 1..Len(list) - 1 : rest[n] = IF n <= i - 1 THEN list[n] ELSE list[n + 1]
  <2>1. /\ rest \in Seq(S) /\ Len(rest) = Len(front) + Len(back)
        /\ \A n \in 1..Len(front) + Len(back) :
             rest[n] = IF n <= Len(front) THEN front[n] ELSE back[n - Len(front)]
    BY <1>2, <1>3, ConcatProperties
  <2> QED
    BY <1>1, <1>2, <1>3, <2>1
<1>5. RemoveAt(list, i) = rest
  BY DEF RemoveAt, front, back
<1> HIDE DEF rest
<1>6. DOMAIN rest = 1..Len(list) - 1
  BY <1>4, LenProperties
<1>7. IsInjective(rest)
  <2>1. ASSUME NEW n \in 1..Len(list) - 1
        PROVE  \E p \in 1..Len(list) : rest[n] = list[p] /\ p = IF n <= i - 1 THEN n ELSE n + 1
    BY <1>1, <1>4
  <2>2. ASSUME NEW m \in 1..Len(list) - 1, NEW n \in 1..Len(list) - 1, rest[m] = rest[n]
        PROVE  m = n
    <3>1. PICK p \in 1..Len(list) : rest[m] = list[p] /\ p = IF m <= i - 1 THEN m ELSE m + 1
      BY <2>1
    <3>2. PICK q \in 1..Len(list) : rest[n] = list[q] /\ q = IF n <= i - 1 THEN n ELSE n + 1
      BY <2>1
    <3>3. p = q
      BY <1>1, <2>2, <3>1, <3>2 DEF IsInjective
    <3> QED
      BY <3>1, <3>2, <3>3
  <2> QED
    BY <1>6, <2>2 DEF IsInjective
<1>8. Range(rest) = Range(list) \ {list[i]}
  <2>1. ASSUME NEW n \in 1..Len(list) - 1 PROVE rest[n] \in Range(list) \ {list[i]}
    <3>1. CASE n <= i - 1
      <4>1. n \in 1..Len(list) /\ n # i
        BY <1>1, <3>1
      <4> QED
        BY <1>1, <1>4, <3>1, <4>1 DEF Range, IsInjective
    <3>2. CASE ~(n <= i - 1)
      <4>1. n + 1 \in 1..Len(list) /\ n + 1 # i
        BY <1>1, <3>2
      <4> QED
        BY <1>1, <1>4, <3>2, <4>1 DEF Range, IsInjective
    <3> QED
      BY <3>1, <3>2
  <2>2. ASSUME NEW n \in 1..Len(list), list[n] # list[i] PROVE list[n] \in Range(rest)
    <3>1. CASE n < i
      <4>1. n \in 1..Len(list) - 1 /\ rest[n] = list[n]
        BY <1>1, <1>4, <3>1
      <4> QED
        BY <1>6, <4>1 DEF Range
    <3>2. CASE i < n
      <4>1. n - 1 \in 1..Len(list) - 1 /\ rest[n - 1] = list[n]
        BY <1>1, <1>4, <3>2
      <4> QED
        BY <1>6, <4>1 DEF Range
    <3> QED
      BY <2>2, <3>1, <3>2
  <2> QED
    BY <1>1, <1>6, <2>1, <2>2 DEF Range
<1> QED
  BY <1>4, <1>5, <1>7, <1>8

LEMMA RemoveFirstProperties ==
  ASSUME NEW S, NEW list \in Seq(S), NEW x, IsInjective(list)
  PROVE  /\ RemoveFirst(list, x) \in Seq(S)
         /\ Range(RemoveFirst(list, x)) = Range(list) \ {x}
         /\ IsInjective(RemoveFirst(list, x))
<1>1. Len(list) \in Nat /\ DOMAIN list = 1..Len(list)
  BY LenProperties
<1>2. CASE \E i \in 1..Len(list) : list[i] = x
  <2> DEFINE found == {i \in 1..Len(list) : list[i] = x}
  <2>1. found \subseteq Nat /\ found # {}
    BY <1>2
  <2>2. Min(found) \in found
    BY <2>1, MinProperties
  <2>3. RemoveFirst(list, x) = RemoveAt(list, Min(found))
    BY <1>2 DEF RemoveFirst, SelectInSeq
  <2>4. PICK i \in 1..Len(list) : i = Min(found) /\ list[i] = x
    BY <2>2
  <2>5. RemoveFirst(list, x) = RemoveAt(list, i)
    BY <2>3, <2>4
  <2> HIDE DEF found
  <2> QED
    BY <2>4, <2>5, RemoveAtProperties
<1>3. CASE ~\E i \in 1..Len(list) : list[i] = x
  BY <1>1, <1>3 DEF RemoveFirst, Range
<1> QED
  BY <1>2, <1>3

LEMMA PushProperties ==
  ASSUME NEW S, NEW list \in Seq(S), NEW x \in S, IsInjective(list), x \notin Range(list)
  PROVE  /\ Append(list, x) \in Seq(S)
         /\ Append(list, x) # <<>>
         /\ Range(Append(list, x)) = Range(list) \union {x}
         /\ IsInjective(Append(list, x))
<1>1. Len(list) \in Nat /\ DOMAIN list = 1..Len(list)
  BY LenProperties
<1>2. /\ Append(list, x) \in Seq(S) /\ Append(list, x) # <<>>
      /\ Len(Append(list, x)) = Len(list) + 1
      /\ \A i \in 1..Len(list) : Append(list, x)[i] = list[i]
      /\ Append(list, x)[Len(list) + 1] = x
  BY AppendProperties
<1>3. DOMAIN Append(list, x) = 1..Len(list) + 1
  BY <1>1, <1>2, LenProperties
<1>4. \A i \in 1..Len(list) : list[i] # x
  BY <1>1 DEF Range
<1>5. 1..Len(list) + 1 = (1..Len(list)) \union {Len(list) + 1}
  BY <1>1
<1>6. Range(Append(list, x)) = Range(list) \union {x}
  <2> DEFINE longer == Append(list, x)
  <2>1. DOMAIN longer = (DOMAIN list) \union {Len(list) + 1} /\ longer[Len(list) + 1] = x
        /\ \A i \in DOMAIN list : longer[i] = list[i]
    BY <1>1, <1>2, <1>3, <1>5
  <2> HIDE DEF longer
  <2>2. {longer[i] : i \in DOMAIN longer} = {list[i] : i \in DOMAIN list} \union {x}
    BY <2>1
  <2> QED
    BY <2>2 DEF Range, longer
<1>7. IsInjective(Append(list, x))
  BY <1>1, <1>2, <1>3, <1>4 DEF IsInjective
<1> QED
  BY <1>2, <1>6, <1>7

LEMMA RangeProperties ==
  ASSUME NEW S, NEW list \in Seq(S)
  PROVE  Range(list) \subseteq S /\ (list = <<>> <=> Range(list) = {})
<1>1. Len(list) \in Nat /\ DOMAIN list = 1..Len(list) /\ \A n \in 1..Len(list) : list[n] \in S
  BY LenProperties, ElementOfSeq
<1>2. list # <<>> => Len(list) # 0
  BY EmptySeq
<1>3. list # <<>> => 1 \in DOMAIN list
  BY <1>1, <1>2
<1>4. list = <<>> => Len(list) = 0
  BY EmptySeq
<1>5. Range(list) \subseteq S
  BY <1>1, Zenon DEF Range
<1>6. list # <<>> => Range(list) # {}
  BY <1>3, Zenon DEF Range
<1>7. list = <<>> => Range(list) = {}
  BY <1>1, <1>4 DEF Range
<1> QED
  BY <1>5, <1>6, <1>7
-----------------------------------------------------------------------------
(* The pool. *)
LEMMA PoolFacts ==
  /\ max_order \in Nat \ {0} /\ 2^max_order \in Nat \ {0}
  /\ TotalPages \in Nat /\ MetaPages \in Nat \ {0} /\ pages \in Nat /\ FirstWaste \in Nat \ {0}
  /\ pages = TotalPages - MetaPages /\ FirstWaste = 2 * pages - 2^max_order
  /\ TotalPages <= 2^max_order /\ FirstWaste < pages /\ pages < TotalPages
<1>1. TotalPages \in Nat /\ MetaPages \in Nat \ {0} /\ MetaPages < TotalPages
  BY PoolAssumption
<1>2. max_order \in Nat /\ TotalPages <= 2^max_order
  BY <1>1, OrderProperties DEF max_order
<1>3. max_order # 0
  <2>1. max_order = 0 => TotalPages <= 2^0
    BY <1>2
  <2>2. ~(TotalPages <= 2^0)
    BY <1>1
  <2> QED
    BY <2>1, <2>2
<1>4. 2^max_order \in Nat \ {0}
  BY <1>2, PowerIsPositive
<1>5. max_order_waste < pages
  BY PoolAssumption
<1> QED
  BY <1>1, <1>2, <1>3, <1>4, <1>5 DEF pages, FirstWaste, max_order_waste

LEMMA SpanInPool ==
  ASSUME NEW b \in Block, NEW j \in Orders, Aligned(b, j)
  PROVE  b + 2^j <= 2^max_order /\ Span(b, j) \subseteq Block /\ b \in Span(b, j)
<1>1. max_order \in Nat /\ 2^max_order \in Nat /\ j \in Nat /\ j <= max_order /\ b \in Nat
  BY PoolFacts DEF Orders, Block
<1>2. b + 2^j <= 0 + 2^max_order
  BY <1>1, Nested, ZeroIsAligned DEF Block
<1>3. 2^j \in Nat \ {0}
  BY <1>1, PowerIsPositive
<1> QED
  BY <1>1, <1>2, <1>3 DEF Span, Block

LEMMA AroundInPool ==
  ASSUME NEW b \in Block, NEW j \in Orders
  PROVE  /\ Around(b, j) \in Block
         /\ j < max_order => Buddy(Around(b, j), j) \in Block
<1>1. max_order \in Nat /\ 2^max_order \in Nat /\ j \in Nat /\ j <= max_order /\ b \in Nat
  BY PoolFacts DEF Orders, Block
<1>2. ASSUME NEW i \in Nat PROVE Around(b, i) \in Block /\ Aligned(Around(b, i), i)
  <2>1. Around(b, i) \in Nat /\ Around(b, i) <= b /\ Aligned(Around(b, i), i)
    BY <1>1, AroundProperties
  <2> QED
    BY <1>1, <2>1 DEF Block
<1>3. ASSUME j < max_order PROVE Buddy(Around(b, j), j) \in Block
  <2>1. j + 1 \in Orders
    BY <1>1, <1>3 DEF Orders
  <2>2. Span(Around(b, j + 1), j + 1) \subseteq Block
    <3>1. Around(b, j + 1) \in Block /\ Aligned(Around(b, j + 1), j + 1)
      BY <1>1, <1>2
    <3> QED
      BY <2>1, <3>1, SpanInPool
  <2>3. Span(Buddy(Around(b, j), j), j) \subseteq Block
    BY <1>1, <2>2, AroundStep
  <2>4. Around(b, j) \in Nat
    BY <1>1, <1>2 DEF Block
  <2>5. Buddy(Around(b, j), j) \in Nat
    BY <1>1, <1>2, <2>4, BuddyProperties
  <2>6. Buddy(Around(b, j), j) \in Span(Buddy(Around(b, j), j), j)
    BY <1>1, <2>5, PowerIsPositive DEF Span
  <2> QED
    BY <2>3, <2>6
<1> QED
  BY <1>1, <1>2, <1>3

(* The inductive invariant.  Every block begins at a multiple of its size,  *)
(* which is what splitting and merging rest on.                             *)
ListsAreClean ==
  \A o \in Orders : IsInjective(free_lists[o]) /\ \A b \in Range(free_lists[o]) : order[b] = o

KindsAreApart ==
  /\ Free \intersect (waste_list \union Allocated) = {}
  /\ waste_list \intersect Allocated = {}

BlocksAreAligned == \A b \in Blocks : Aligned(b, order[b])

PagesAreCovered == \A p \in Block : \E b \in Blocks : p \in Span(b, order[b])

BlocksAreDisjoint ==
  \A b, c \in Blocks : b # c => Span(b, order[b]) \intersect Span(c, order[c]) = {}

(* No block is handed out that begins in the waste, or that ends behind    *)
(* the pool: the pages in use are pages of the pool.                       *)
FreeIsUsable == \A b \in Free : b < FirstWaste

AllocatedFits ==
  \A b \in Allocated :
    /\ order[b] = get_order(requested[b])
    /\ b + requested[b] <= FirstWaste /\ b + 2^order[b] <= pages

BuddyInv ==
  /\ TypeOK /\ ListsAreClean /\ KindsAreApart
  /\ BlocksAreAligned /\ PagesAreCovered /\ BlocksAreDisjoint
  /\ FreeIsUsable /\ AllocatedFits
  /\ BuddiesAreMerged /\ TotalsAreExact

LEMMA BlocksInPool ==
  ASSUME TypeOK
  PROVE  /\ Free \subseteq Block /\ Blocks \subseteq Block /\ Allocated \subseteq Block
         /\ \A b \in Blocks : order[b] \in Orders /\ order[b] \in Nat /\ b \in Nat
<1>1. \A o \in Orders : Range(free_lists[o]) \subseteq Block
  BY RangeProperties DEF TypeOK
<1>2. Orders \subseteq Nat /\ Block \subseteq Nat
  BY PoolFacts DEF Orders, Block
<1> QED
  BY <1>1, <1>2 DEF TypeOK, Free, Blocks, Allocated

LEMMA InitBuddy == Init => BuddyInv
<1> SUFFICES ASSUME Init PROVE BuddyInv
  OBVIOUS
<1>1. max_order \in Orders /\ 0 \in Orders /\ 0 \in Block /\ Orders \subseteq Nat /\ Block \subseteq Nat
  BY PoolFacts DEF Orders, Block
<1>2. /\ \A o \in Orders : free_lists[o] = IF o = max_order THEN <<0>> ELSE <<>>
      /\ \A o \in Orders : Range(free_lists[o]) = IF o = max_order THEN {0} ELSE {}
  BY DEF Init, Range
<1>3. Free = {0} /\ Allocated = {} /\ Blocks = {0} /\ order[0] = max_order
  BY <1>1, <1>2 DEF Init, Free, Allocated, Blocks
<1>4. TypeOK
  <2>1. free_lists \in [Orders -> Seq(Block)]
    BY <1>1 DEF Init
  <2>2. max_order_free \in Orders /\ free_pages \in 0..pages
    BY <1>1, PoolFacts DEF Init
  <2>3. order \in [Block -> Orders] /\ requested \in [Block -> 0..MaxRequest]
    BY <1>1, PoolAssumption DEF Init
  <2> QED
    BY <2>1, <2>2, <2>3 DEF TypeOK, Init
<1>5. ListsAreClean
  BY <1>2, <1>3 DEF ListsAreClean, IsInjective
<1>6. KindsAreApart
  BY <1>3 DEF KindsAreApart, Init
<1>7. BlocksAreAligned /\ BlocksAreDisjoint
  BY <1>1, <1>3, ZeroIsAligned DEF BlocksAreAligned, BlocksAreDisjoint
<1>8. PagesAreCovered
  <2>1. Span(0, order[0]) = Block
    BY <1>3, PoolFacts DEF Span, Block
  <2> QED
    BY <1>3, <2>1 DEF PagesAreCovered
<1>9. FreeIsUsable /\ AllocatedFits
  BY <1>3, PoolFacts DEF FreeIsUsable, AllocatedFits
<1>10. BuddiesAreMerged
  BY <1>3, PoolFacts DEF BuddiesAreMerged, Init
<1>11. TotalsAreExact
  <2>1. {o \in Orders : free_lists[o] # <<>>} = {max_order}
    BY <1>1, <1>2
  <2>2. {0} \union {max_order} \subseteq 0..max_order
    BY PoolFacts
  <2>3. Max({0} \union {max_order}) = max_order
    <3>1. /\ Max({0} \union {max_order}) \in {0} \union {max_order}
          /\ max_order <= Max({0} \union {max_order})
      BY <2>2, PoolFacts, MaxProperties
    <3> QED
      BY <3>1, PoolFacts
  <2>4. UNION {Covers(b) : b \in Allocated} = {}
    BY <1>3
  <2>5. free_pages = pages /\ max_order_free = max_order
    BY DEF Init
  <2>6. pages - pages = 0
    BY PoolFacts
  <2> QED
    BY <2>1, <2>3, <2>4, <2>5, <2>6, FS_EmptySet DEF TotalsAreExact
<1> QED
  BY <1>4, <1>5, <1>6, <1>7, <1>8, <1>9, <1>10, <1>11 DEF BuddyInv
-----------------------------------------------------------------------------
(* Splitting and merging replace some blocks by others that cover the same *)
(* pages.                                                                   *)
LEMMA Replaced ==
  ASSUME PagesAreCovered, BlocksAreDisjoint, BlocksAreAligned,
         NEW Old, NEW New, Old \subseteq Blocks,
         Blocks' = (Blocks \ Old) \union New,
         \A c \in Blocks \ Old : order'[c] = order[c],
         UNION {Span(c, order'[c]) : c \in New} = UNION {Span(c, order[c]) : c \in Old},
         \A b, c \in New : b # c => Span(b, order'[b]) \intersect Span(c, order'[c]) = {},
         \A c \in New : Aligned(c, order'[c])
  PROVE  PagesAreCovered' /\ BlocksAreDisjoint' /\ BlocksAreAligned'
<1>1. \A p : (\E c \in New : p \in Span(c, order'[c])) <=> (\E c \in Old : p \in Span(c, order[c]))
  <2> SUFFICES ASSUME NEW p
      PROVE (\E c \in New : p \in Span(c, order'[c])) <=> (\E c \in Old : p \in Span(c, order[c]))
    OBVIOUS
  <2>1. p \in UNION {Span(c, order'[c]) : c \in New} <=> \E c \in New : p \in Span(c, order'[c])
    OBVIOUS
  <2>2. p \in UNION {Span(c, order[c]) : c \in Old} <=> \E c \in Old : p \in Span(c, order[c])
    OBVIOUS
  <2> QED
    BY <2>1, <2>2
<1>2. PagesAreCovered'
  <2> SUFFICES ASSUME NEW p \in Block PROVE \E b \in Blocks' : p \in Span(b, order'[b])
    BY DEF PagesAreCovered
  <2>1. PICK b \in Blocks : p \in Span(b, order[b])
    BY DEF PagesAreCovered
  <2>2. CASE b \in Old
    BY <1>1, <2>1, <2>2
  <2>3. CASE b \notin Old
    BY <2>1, <2>3
  <2> QED
    BY <2>2, <2>3
<1>3. BlocksAreDisjoint'
  <2> SUFFICES ASSUME NEW b \in Blocks', NEW c \in Blocks', b # c,
                      NEW p, p \in Span(b, order'[b]), p \in Span(c, order'[c])
               PROVE  FALSE
    BY DEF BlocksAreDisjoint
  <2>1. CASE b \in New /\ c \in New
    BY <2>1
  <2>2. ASSUME NEW x \in Blocks \ Old, NEW y \in New, p \in Span(x, order'[x]), p \in Span(y, order'[y])
        PROVE  FALSE
    <3>1. PICK z \in Old : p \in Span(z, order[z])
      BY <1>1, <2>2
    <3> QED
      BY <2>2, <3>1 DEF BlocksAreDisjoint
  <2>3. CASE b \in Blocks \ Old /\ c \in Blocks \ Old
    BY <2>3 DEF BlocksAreDisjoint
  <2> QED
    BY <2>1, <2>2, <2>3
<1>4. BlocksAreAligned'
  BY DEF BlocksAreAligned
<1> QED
  BY <1>2, <1>3, <1>4

(* A page that is in a block of the invariant is in no other. *)
LEMMA CoverIsUnique ==
  ASSUME BlocksAreDisjoint, NEW b \in Blocks, NEW c \in Blocks, NEW p,
         p \in Span(b, order[b]), p \in Span(c, order[c])
  PROVE  b = c
BY DEF BlocksAreDisjoint

LEMMA BlockCoversItself ==
  ASSUME TypeOK, NEW b \in Blocks
  PROVE  b \in Span(b, order[b])
<1>1. order[b] \in Nat /\ b \in Nat
  BY BlocksInPool
<1>2. 2^order[b] \in Nat \ {0}
  BY <1>1, PowerIsPositive
<1> QED
  BY <1>1, <1>2 DEF Span

(* A right half that no waste mark lies on begins before the waste: the    *)
(* descriptors without a page are never reached by splitting.              *)
LEMMA RightHalfIsMarked ==
  ASSUME NEW b \in Block, NEW a \in Orders, NEW j \in Nat, j < a, Aligned(b, a), b < FirstWaste
  PROVE  /\ b + 2^j \in Block /\ b + 2^j < TotalPages
         /\ ~IsWaste(b + 2^j) <=> b + 2^j < FirstWaste
<1>1. b + 2^a <= 2^max_order
  BY SpanInPool
<1>2. 2^(j + 1) <= 2^a /\ 2^(j + 1) = 2 * 2^j /\ 2^j \in Nat \ {0} /\ 2^a \in Nat
  BY PowerMonotone, PowerDoubles, PowerIsPositive, PoolFacts DEF Orders
<1>3. b \in Nat
  BY PoolFacts DEF Block
<1>4. b + 2^j < TotalPages
  BY <1>1, <1>2, <1>3, PoolFacts
<1>5. b + 2^j \in Block
  BY <1>1, <1>2, <1>3, PoolFacts DEF Block
<1> QED
  BY <1>2, <1>3, <1>4, <1>5, PoolFacts DEF IsWaste
(* What an allocation does, with the choices it makes named: the block b of *)
(* order a is cut down to order o.                                          *)
Takes(n, o, a, b) ==
  /\ o = get_order(n) /\ o <= a /\ a <= max_order_free
  /\ b \in Free /\ order[b] = a
  /\ b + n <= FirstWaste /\ b + 2^o <= pages
  /\ free_lists' \in [Orders -> Seq(Block)]
  /\ \A j \in Orders :
       /\ IsInjective(free_lists'[j])
       /\ Range(free_lists'[j]) = (Range(free_lists[j]) \ {b}) \union
            (IF j \in o..a - 1 /\ b + 2^j < FirstWaste THEN {b + 2^j} ELSE {})
  /\ waste_list' = waste_list \union {c \in Halves(b, o, a) : IsWaste(c)}
  /\ order' = [c \in Block |-> IF c = b THEN o
                               ELSE IF c \in Halves(b, o, a) THEN get_order(c - b)
                               ELSE order[c]]
  /\ max_order_free' = Lowered(free_lists')
  /\ free_pages' = free_pages - 2^o
  /\ requested' = [requested EXCEPT ![b] = n]

(* The list that holds a block is that of its order. *)
LEMMA ListOfBlock ==
  ASSUME BuddyInv
  PROVE  /\ \A o \in Orders : Range(free_lists[o]) = {b \in Free : order[b] = o}
         /\ \A b \in Free : order[b] \in Orders /\ b \in Range(free_lists[order[b]])
BY DEF BuddyInv, ListsAreClean, Free

LEMMA ListIsShort ==
  ASSUME BuddyInv
  PROVE  /\ \A o \in Orders : free_lists[o] # <<>> => o <= max_order_free
         /\ max_order_free = 0 \/ free_lists[max_order_free] # <<>>
         /\ max_order_free \in Orders
<1>1. max_order_free = Max({0} \union {o \in Orders : free_lists[o] # <<>>})
  BY DEF BuddyInv, TotalsAreExact
<1>2. {0} \union {o \in Orders : free_lists[o] # <<>>} \subseteq 0..max_order
  BY PoolFacts DEF Orders
<1>3. /\ max_order_free \in {0} \union {o \in Orders : free_lists[o] # <<>>}
      /\ \A o \in {0} \union {o \in Orders : free_lists[o] # <<>>} : o <= max_order_free
  BY <1>1, <1>2, MaxProperties, PoolFacts
<1> QED
  BY <1>2, <1>3 DEF Orders

LEMMA AllocateTakes ==
  ASSUME BuddyInv, NEW n \in 1..MaxRequest, buddy_allocate(n)
  PROVE  \E o \in Nat, a \in Orders, b \in Block : Takes(n, o, a, b)
<1> DEFINE o     == get_order(n)
           found == {a \in o..max_order : Fitting(a, n) # {}}
           a     == Min(found)
           last  == Max(Fitting(a, n))
           b     == free_lists[a][last]
           split == Halves(b, o, a)
<1>1. /\ found # {} /\ o # max_order
      /\ free_lists' = [j \in Orders |->
           IF j = a THEN RemoveAt(free_lists[a], last)
           ELSE IF b + 2^j \in split /\ ~IsWaste(b + 2^j)
                  THEN Append(free_lists[j], b + 2^j)
           ELSE free_lists[j]]
      /\ waste_list' = waste_list \union {c \in split : IsWaste(c)}
      /\ order' = [c \in Block |-> IF c = b THEN o
                                   ELSE IF c \in split THEN get_order(c - b)
                                   ELSE order[c]]
      /\ max_order_free' = Lowered(free_lists')
      /\ free_pages' = free_pages - 2^o
      /\ requested' = [requested EXCEPT ![b] = n]
  BY DEF buddy_allocate
<1>2. n \in Nat \ {0} /\ n <= MaxRequest
  BY PoolAssumption
<1>3. o \in Nat /\ n <= 2^o /\ 2^o \in Nat \ {0}
  BY <1>2, OrderProperties, PowerIsPositive
<1>4. a \in o..max_order /\ Fitting(a, n) # {} /\ a \in Orders /\ a \in Nat /\ o <= a
  <2>1. found \subseteq Nat
    BY <1>3, PoolFacts
  <2>2. a \in found
    <3> HIDE DEF found
    <3> QED
      BY <1>1, <2>1, MinProperties
  <2> QED
    BY <1>3, <2>2, PoolFacts DEF Orders
<1> HIDE DEF o, found, a
<1>5. /\ free_lists[a] \in Seq(Block) /\ IsInjective(free_lists[a])
      /\ \A c \in Range(free_lists[a]) : order[c] = a
  BY <1>4 DEF BuddyInv, TypeOK, ListsAreClean
<1>6. last \in 1..Len(free_lists[a]) /\ ~IsWaste(b + n - 1)
  <2>1. Len(free_lists[a]) \in Nat /\ DOMAIN free_lists[a] = 1..Len(free_lists[a])
    BY <1>5, LenProperties
  <2>2. Fitting(a, n) \subseteq 0..Len(free_lists[a])
    BY <2>1 DEF Fitting
  <2>3. last \in Fitting(a, n)
    BY <1>4, <2>1, <2>2, MaxProperties
  <2> QED
    BY <2>1, <2>3 DEF Fitting
<1> HIDE DEF last
<1>7. b \in Range(free_lists[a]) /\ b \in Block
  <2>1. DOMAIN free_lists[a] = 1..Len(free_lists[a])
    BY <1>5, LenProperties
  <2>2. b \in Range(free_lists[a])
    BY <1>6, <2>1 DEF Range
  <2> QED
    BY <1>5, <2>2, RangeProperties
<1>8. b \in Free /\ b \in Blocks /\ order[b] = a /\ Aligned(b, a) /\ b < FirstWaste /\ b \in Nat
  <2>1. b \in Free
    BY <1>4, <1>7 DEF Free
  <2>2. order[b] = a
    BY <1>5, <1>7
  <2> QED
    BY <1>7, <2>1, <2>2, PoolFacts DEF BuddyInv, BlocksAreAligned, FreeIsUsable, Blocks, Block
<1> HIDE DEF b, split
<1>9. b + n <= FirstWaste /\ b + 2^o <= pages
  <2>1. Aligned(b, o)
    BY <1>3, <1>4, <1>8, AlignedCoarser
  <2>2. b % 2^o = 0
    BY <1>3, <1>8, <2>1, RemainderIsZero
  <2>3. b \in 0..FirstWaste - 1
    BY <1>8, PoolFacts
  <2>4. b + n <= TotalPages /\ (b + n <= FirstWaste => b + 2^o <= pages)
    BY <2>2, <2>3, RequestAssumption DEF o
  <2>5. b + n <= FirstWaste
    BY <1>2, <1>6, <1>8, <2>4, PoolFacts DEF IsWaste
  <2> QED
    BY <2>4, <2>5
<1>10. ASSUME NEW j \in Orders
       PROVE  b + 2^j \in split <=> j \in o..a - 1
  <2>1. j \in Nat /\ 2^j \in Nat /\ \A i \in o..a - 1 : i \in Nat /\ 2^i \in Nat
    BY <1>3, <1>4, PoolFacts, PowerIsNatural DEF Orders
  <2>2. \A i \in o..a - 1 : b + 2^j = b + 2^i => 2^j = 2^i
    BY <1>8, <2>1
  <2>3. \A i \in o..a - 1 : 2^j = 2^i => j = i
    <3> SUFFICES ASSUME NEW i \in o..a - 1, 2^j = 2^i, j # i PROVE FALSE
      OBVIOUS
    <3>1. i \in Nat /\ (j < i \/ i < j)
      BY <2>1
    <3>2. (j < i => 2^j < 2^i) /\ (i < j => 2^i < 2^j)
      BY <2>1, PowerMonotone
    <3> QED
      BY <2>1, <3>1, <3>2
  <2>4. split = {b + 2^i : i \in o..a - 1}
    BY DEF split, Halves
  <2> QED
    BY <2>2, <2>3, <2>4
<1>11. ASSUME NEW j \in Orders, j \in o..a - 1
       PROVE  /\ b + 2^j \in Block /\ b + 2^j \notin Range(free_lists[j])
              /\ ~IsWaste(b + 2^j) <=> b + 2^j < FirstWaste
  <2>1. j \in Nat /\ j < a
    BY <1>3, <1>4, <1>11
  <2>2. /\ b + 2^j \in Block
        /\ ~IsWaste(b + 2^j) <=> b + 2^j < FirstWaste
    BY <1>4, <1>7, <1>8, <2>1, RightHalfIsMarked
  <2>3. 2^j \in Nat \ {0} /\ 2^j < 2^a /\ 2^a \in Nat
    BY <1>4, <2>1, PowerIsPositive, PowerMonotone
  <2>4. b + 2^j \in Span(b, order[b]) /\ b + 2^j # b
    BY <1>8, <2>3 DEF Span
  <2>5. ASSUME b + 2^j \in Range(free_lists[j]) PROVE FALSE
    <3>1. b + 2^j \in Blocks
      BY <2>5 DEF Free, Blocks
    <3>2. b + 2^j \in Span(b + 2^j, order[b + 2^j])
      BY <3>1, BlockCoversItself DEF BuddyInv
    <3> QED
      BY <1>8, <2>4, <3>1, <3>2, CoverIsUnique DEF BuddyInv
  <2> QED
    BY <2>2, <2>5
<1>12. ASSUME NEW j \in Orders
       PROVE  /\ free_lists'[j] \in Seq(Block) /\ IsInjective(free_lists'[j])
              /\ Range(free_lists'[j]) = (Range(free_lists[j]) \ {b}) \union
                   (IF j \in o..a - 1 /\ b + 2^j < FirstWaste THEN {b + 2^j} ELSE {})
  <2>1. /\ free_lists[j] \in Seq(Block) /\ IsInjective(free_lists[j])
        /\ \A c \in Range(free_lists[j]) : order[c] = j
    BY DEF BuddyInv, TypeOK, ListsAreClean
  <2>2. CASE j = a
    <3>1. free_lists'[j] = RemoveAt(free_lists[a], last)
      BY <1>1, <2>2
    <3>2. j \notin o..a - 1
      BY <1>4, <2>2
    <3>3. free_lists[a][last] = b
      BY DEF b
    <3> QED
      BY <1>5, <1>6, <2>2, <3>1, <3>2, <3>3, RemoveAtProperties
  <2>3. CASE j # a /\ b + 2^j \in split /\ ~IsWaste(b + 2^j)
    <3>1. free_lists'[j] = Append(free_lists[j], b + 2^j)
      BY <1>1, <2>3
    <3>2. j \in o..a - 1 /\ b + 2^j < FirstWaste
      BY <1>10, <1>11, <2>3
    <3>3. b \notin Range(free_lists[j])
      BY <1>8, <2>1, <2>3
    <3>4. b + 2^j \in Block /\ b + 2^j \notin Range(free_lists[j])
      BY <1>11, <3>2
    <3> QED
      BY <2>1, <3>1, <3>2, <3>3, <3>4, PushProperties
  <2>4. CASE j # a /\ ~(b + 2^j \in split /\ ~IsWaste(b + 2^j))
    <3>1. free_lists'[j] = free_lists[j]
      BY <1>1, <2>4
    <3>2. ~(j \in o..a - 1 /\ b + 2^j < FirstWaste)
      BY <1>10, <1>11, <2>4
    <3>3. b \notin Range(free_lists[j])
      BY <1>8, <2>1, <2>4
    <3> QED
      BY <2>1, <3>1, <3>2, <3>3
  <2> QED
    BY <2>2, <2>3, <2>4
<1>13. free_lists' \in [Orders -> Seq(Block)]
  <2>1. \A j \in Orders : free_lists'[j] \in Seq(Block)
    BY <1>12
  <2>2. free_lists' = [j \in Orders |-> free_lists'[j]]
    BY <1>1
  <2> QED
    BY <2>1, <2>2
<1>14. a <= max_order_free
  <2>1. free_lists[a] # <<>>
    BY <1>5, <1>7, RangeProperties
  <2> QED
    BY <1>4, <2>1, ListIsShort
<1>15. Takes(n, o, a, b)
  <2>1. \A j \in Orders :
          /\ IsInjective(free_lists'[j])
          /\ Range(free_lists'[j]) = (Range(free_lists[j]) \ {b}) \union
               (IF j \in o..a - 1 /\ b + 2^j < FirstWaste THEN {b + 2^j} ELSE {})
    BY <1>12
  <2>2. o = get_order(n)
    BY DEF o
  <2>3. split = Halves(b, o, a)
    BY DEF split
  <2> QED
    BY <1>1, <1>4, <1>8, <1>9, <1>13, <1>14, <2>1, <2>2, <2>3, Zenon DEF Takes
<1> QED
  BY <1>3, <1>4, <1>7, <1>15
(* The blocks after an allocation: the block that is taken, its right       *)
(* halves, free or waste, and the others as they were.                      *)
LEMMA TakesBlocks ==
  ASSUME BuddyInv, NEW n \in 1..MaxRequest, NEW o \in Nat, NEW a \in Orders, NEW b \in Block,
         Takes(n, o, a, b)
  PROVE  /\ b \in Blocks /\ b \notin Allocated /\ b \notin waste_list /\ Aligned(b, a)
         /\ \A j \in o..a - 1 :
              /\ b + 2^j \in Block /\ b + 2^j \notin Blocks /\ Aligned(b + 2^j, j)
              /\ order'[b + 2^j] = j
              /\ ~IsWaste(b + 2^j) <=> b + 2^j < FirstWaste
         /\ order'[b] = o /\ \A c \in Blocks \ {b} : order'[c] = order[c]
         /\ Free' = (Free \ {b}) \union {c \in Halves(b, o, a) : ~IsWaste(c)}
         /\ Allocated' = Allocated \union {b}
         /\ Blocks' = (Blocks \ {b}) \union ({b} \union Halves(b, o, a))
<1>1. /\ b \in Free /\ b \in Blocks /\ b \notin Allocated /\ b \notin waste_list
      /\ order[b] = a /\ Aligned(b, a) /\ b < FirstWaste /\ b \in Nat
  BY PoolFacts
  DEF BuddyInv, Takes, KindsAreApart, BlocksAreAligned, FreeIsUsable, Blocks, Block
<1>2. a \in Nat /\ o <= a /\ \A j \in o..a - 1 : j \in Nat /\ j < a /\ j \in Orders
  BY PoolFacts DEF Orders, Takes
<1>3. ASSUME NEW j \in o..a - 1
      PROVE  /\ b + 2^j \in Block /\ Aligned(b + 2^j, j) /\ b + 2^j # b
             /\ b + 2^j \in Span(b, a) /\ get_order((b + 2^j) - b) = j
             /\ ~IsWaste(b + 2^j) <=> b + 2^j < FirstWaste
  <2>1. Aligned(b + 2^j, j)
    <3>1. Aligned(b, j)
      BY <1>1, <1>2, AlignedCoarser
    <3> QED
      BY <1>1, <1>2, <3>1, AlignedSum
  <2>2. 2^j \in Nat \ {0} /\ 2^j < 2^a /\ 2^a \in Nat
    BY <1>2, PowerIsPositive, PowerMonotone
  <2>3. (b + 2^j) - b = 2^j /\ b + 2^j # b /\ b + 2^j \in Span(b, a)
    BY <1>1, <2>2 DEF Span
  <2>4. get_order(2^j) = j
    BY <1>2, OrderOfPower
  <2>5. /\ b + 2^j \in Block
        /\ ~IsWaste(b + 2^j) <=> b + 2^j < FirstWaste
    BY <1>1, <1>2, RightHalfIsMarked
  <2> QED
    BY <2>1, <2>3, <2>4, <2>5
<1>4. ASSUME NEW j \in o..a - 1 PROVE b + 2^j \notin Blocks
  <2>1. SUFFICES ASSUME b + 2^j \in Blocks PROVE FALSE
    OBVIOUS
  <2>2. b + 2^j \in Span(b + 2^j, order[b + 2^j])
    BY <2>1, BlockCoversItself DEF BuddyInv
  <2> QED
    BY <1>1, <1>3, <2>1, <2>2, CoverIsUnique DEF BuddyInv
<1>5. Halves(b, o, a) \subseteq Block \ Blocks
  BY <1>3, <1>4 DEF Halves
<1>6. /\ order'[b] = o
      /\ \A j \in o..a - 1 : order'[b + 2^j] = j
      /\ \A c \in Blocks \ {b} : order'[c] = order[c]
  <2>1. \A c \in Block : order'[c] = IF c = b THEN o
                                     ELSE IF c \in Halves(b, o, a) THEN get_order(c - b)
                                     ELSE order[c]
    BY DEF Takes
  <2>2. \A j \in o..a - 1 : b + 2^j \in Halves(b, o, a)
    BY DEF Halves
  <2>3. Blocks \subseteq Block
    BY BlocksInPool DEF BuddyInv
  <2> QED
    BY <1>3, <1>5, <2>1, <2>2, <2>3
<1>7. Free' = (Free \ {b}) \union {c \in Halves(b, o, a) : ~IsWaste(c)}
  <2>1. \A j \in Orders :
          Range(free_lists'[j]) = (Range(free_lists[j]) \ {b}) \union
            (IF j \in o..a - 1 /\ b + 2^j < FirstWaste THEN {b + 2^j} ELSE {})
    BY DEF Takes
  <2>2. Free' = UNION {Range(free_lists'[j]) : j \in Orders}
    BY DEF Free
  <2>3. ASSUME NEW c \in Free' PROVE c \in (Free \ {b}) \union {d \in Halves(b, o, a) : ~IsWaste(d)}
    <3>1. PICK j \in Orders : c \in Range(free_lists'[j])
      BY <2>2
    <3>2. CASE c \in Range(free_lists[j]) \ {b}
      BY <3>2 DEF Free
    <3>3. CASE j \in o..a - 1 /\ b + 2^j < FirstWaste /\ c = b + 2^j
      BY <1>3, <3>3 DEF Halves
    <3> QED
      BY <2>1, <3>1, <3>2, <3>3
  <2>4. ASSUME NEW c \in Free \ {b} PROVE c \in Free'
    <3>1. PICK j \in Orders : c \in Range(free_lists[j])
      BY DEF Free
    <3>2. c \in Range(free_lists'[j])
      BY <2>1, <3>1
    <3> QED
      BY <2>2, <3>2
  <2>5. ASSUME NEW c \in Halves(b, o, a), ~IsWaste(c) PROVE c \in Free'
    <3>1. PICK j \in o..a - 1 : c = b + 2^j
      BY DEF Halves
    <3>2. j \in Orders /\ b + 2^j < FirstWaste
      BY <1>2, <1>3, <2>5, <3>1
    <3>3. c \in Range(free_lists'[j])
      BY <2>1, <3>1, <3>2
    <3> QED
      BY <2>2, <3>2, <3>3
  <2> QED
    BY <2>3, <2>4, <2>5
<1>8. Allocated' = Allocated \union {b}
  <2>1. requested \in [Block -> 0..MaxRequest] /\ requested' = [requested EXCEPT ![b] = n] /\ n # 0
    BY DEF BuddyInv, TypeOK, Takes
  <2> QED
    BY <2>1 DEF Allocated
<1>9. waste_list' = waste_list \union {c \in Halves(b, o, a) : IsWaste(c)}
  BY DEF Takes
<1>10. Blocks' = (Blocks \ {b}) \union ({b} \union Halves(b, o, a))
  <2>1. Blocks' = Free' \union waste_list' \union Allocated'
    BY DEF Blocks
  <2>2. Blocks = Free \union waste_list \union Allocated
    BY DEF Blocks
  <2> QED
    BY <1>1, <1>7, <1>8, <1>9, <2>1, <2>2
<1> QED
  BY <1>1, <1>3, <1>4, <1>6, <1>7, <1>8, <1>10

LEMMA TakesTiles ==
  ASSUME BuddyInv, NEW n \in 1..MaxRequest, NEW o \in Nat, NEW a \in Orders, NEW b \in Block,
         Takes(n, o, a, b)
  PROVE  PagesAreCovered' /\ BlocksAreDisjoint' /\ BlocksAreAligned'
<1> DEFINE Old == {b}
           New == {b} \union Halves(b, o, a)
<1>1. /\ b \in Blocks /\ Aligned(b, a) /\ order[b] = a
      /\ \A j \in o..a - 1 : /\ b + 2^j \in Block /\ b + 2^j \notin Blocks
                             /\ Aligned(b + 2^j, j) /\ order'[b + 2^j] = j
      /\ order'[b] = o /\ \A c \in Blocks \ {b} : order'[c] = order[c]
      /\ Blocks' = (Blocks \ {b}) \union ({b} \union Halves(b, o, a))
  <2>1. order[b] = a
    BY DEF Takes
  <2> QED
    BY <2>1, TakesBlocks
<1>2. a \in Nat /\ o <= a /\ b \in Nat
  BY PoolFacts DEF Orders, Takes, Block
<1>3. /\ Span(b, a) = Span(b, o) \union UNION {Span(b + 2^j, j) : j \in o..a - 1}
      /\ \A j \in o..a - 1 : Span(b, o) \intersect Span(b + 2^j, j) = {}
      /\ \A i, j \in o..a - 1 : i # j => Span(b + 2^i, i) \intersect Span(b + 2^j, j) = {}
  BY <1>2, SplitSpan
<1>4. ASSUME NEW c \in New
      PROVE  c = b \/ \E j \in o..a - 1 : c = b + 2^j
  BY DEF Halves
<1>5. UNION {Span(c, order'[c]) : c \in New} = UNION {Span(c, order[c]) : c \in Old}
  <2>1. UNION {Span(c, order[c]) : c \in Old} = Span(b, a)
    BY <1>1
  <2>2. \A c \in New : Span(c, order'[c]) \subseteq Span(b, a)
    BY <1>1, <1>3, <1>4
  <2>3. ASSUME NEW p \in Span(b, a) PROVE \E c \in New : p \in Span(c, order'[c])
    <3>1. CASE p \in Span(b, o)
      BY <1>1, <3>1
    <3>2. CASE \E j \in o..a - 1 : p \in Span(b + 2^j, j)
      <4>1. PICK j \in o..a - 1 : p \in Span(b + 2^j, j)
        BY <3>2
      <4>2. b + 2^j \in New
        BY DEF Halves
      <4> QED
        BY <1>1, <4>1, <4>2
    <3> QED
      BY <1>3, <3>1, <3>2
  <2> HIDE DEF New, Old
  <2> QED
    BY <2>1, <2>2, <2>3
<1>6. ASSUME NEW c \in New, NEW d \in New, c # d
      PROVE  Span(c, order'[c]) \intersect Span(d, order'[d]) = {}
  <2>1. CASE c = b
    <3>1. PICK j \in o..a - 1 : d = b + 2^j
      BY <1>4, <1>6, <2>1
    <3> QED
      BY <1>1, <1>3, <2>1, <3>1
  <2>2. CASE d = b
    <3>1. PICK j \in o..a - 1 : c = b + 2^j
      BY <1>4, <1>6, <2>2
    <3> QED
      BY <1>1, <1>3, <2>2, <3>1
  <2>3. CASE c # b /\ d # b
    <3>1. PICK i \in o..a - 1, j \in o..a - 1 : c = b + 2^i /\ d = b + 2^j
      BY <1>4, <2>3
    <3>2. i # j
      BY <1>6, <3>1
    <3> QED
      BY <1>1, <1>3, <3>1, <3>2
  <2> QED
    BY <2>1, <2>2, <2>3
<1>7. \A c \in New : Aligned(c, order'[c])
  <2>1. Aligned(b, o)
    BY <1>1, <1>2, AlignedCoarser
  <2> QED
    BY <1>1, <1>4, <2>1
<1>8. Old \subseteq Blocks
  BY <1>1
<1>9. Blocks' = (Blocks \ Old) \union New /\ \A c \in Blocks \ Old : order'[c] = order[c]
  BY <1>1
<1>10. PagesAreCovered /\ BlocksAreDisjoint /\ BlocksAreAligned
  BY DEF BuddyInv
<1> HIDE DEF Old, New
<1> QED
  BY <1>5, <1>6, <1>7, <1>8, <1>9, <1>10, Replaced

(* The half that is kept and the half that is left are buddies. *)
LEMMA HalvesAreBuddies ==
  ASSUME NEW b \in Nat, NEW a \in Nat, NEW j \in Nat, j < a, Aligned(b, a)
  PROVE  Buddy(b, j) = b + 2^j /\ Buddy(b + 2^j, j) = b
<1>1. Aligned(b, j + 1) /\ Aligned(b, j)
  BY AlignedCoarser
<1>2. b % 2^(j + 1) = 0
  BY <1>1, RemainderIsZero
<1>3. Buddy(b, j) = b + 2^j
  BY <1>2 DEF Buddy
<1> QED
  BY <1>1, <1>3, BuddyProperties

LEMMA TakesLists ==
  ASSUME BuddyInv, NEW n \in 1..MaxRequest, NEW o \in Nat, NEW a \in Orders, NEW b \in Block,
         Takes(n, o, a, b)
  PROVE  ListsAreClean' /\ KindsAreApart' /\ FreeIsUsable' /\ BuddiesAreMerged'
<1>1. /\ b \in Blocks /\ b \notin Allocated /\ b \notin waste_list /\ Aligned(b, a)
      /\ \A j \in o..a - 1 : /\ b + 2^j \notin Blocks /\ order'[b + 2^j] = j
                             /\ ~IsWaste(b + 2^j) <=> b + 2^j < FirstWaste
      /\ \A c \in Blocks \ {b} : order'[c] = order[c]
      /\ Free' = (Free \ {b}) \union {c \in Halves(b, o, a) : ~IsWaste(c)}
      /\ Allocated' = Allocated \union {b}
  BY TakesBlocks
<1>2. a \in Nat /\ o <= a /\ b \in Nat /\ a <= max_order
  BY PoolFacts DEF Orders, Takes, Block
<1>3. waste_list' = waste_list \union {c \in Halves(b, o, a) : IsWaste(c)}
  BY DEF Takes
<1>4. Blocks = Free \union waste_list \union Allocated
  BY DEF Blocks
<1>5. \A c \in Halves(b, o, a) : \E j \in o..a - 1 : c = b + 2^j /\ c # b
  BY PowerIsPositive, <1>2 DEF Halves
<1>6. KindsAreApart
  BY DEF BuddyInv
<1>7. \A c \in Halves(b, o, a) : c \notin Blocks
  BY <1>1, <1>5
<1>8. KindsAreApart'
  BY <1>1, <1>3, <1>4, <1>5, <1>6, <1>7 DEF KindsAreApart
<1>9. ListsAreClean'
  <2>1. ASSUME NEW i \in Orders PROVE IsInjective(free_lists'[i])
    BY DEF Takes
  <2>2. ASSUME NEW i \in Orders, NEW c \in Range(free_lists'[i]) PROVE order'[c] = i
    <3>1. Range(free_lists'[i]) = (Range(free_lists[i]) \ {b}) \union
            (IF i \in o..a - 1 /\ b + 2^i < FirstWaste THEN {b + 2^i} ELSE {})
      BY DEF Takes
    <3>2. CASE c \in Range(free_lists[i]) \ {b}
      <4>1. order[c] = i /\ c \in Free
        BY <3>2, ListOfBlock
      <4> QED
        BY <1>1, <1>4, <3>2, <4>1
    <3>3. CASE i \in o..a - 1 /\ c = b + 2^i
      BY <1>1, <3>3
    <3> QED
      BY <2>2, <3>1, <3>2, <3>3
  <2> QED
    BY <2>1, <2>2 DEF ListsAreClean
<1>10. FreeIsUsable'
  BY <1>1, <1>5 DEF FreeIsUsable, BuddyInv
<1>11. BuddiesAreMerged'
  <2> DEFINE F == Free \union waste_list
  <2>1. Free' \union waste_list' = (F \ {b}) \union Halves(b, o, a)
    BY <1>1, <1>3
  <2>2. \A c \in F \ {b} : order'[c] = order[c] /\ c # b /\ order[c] \in Nat /\ c \in Nat
                            /\ Aligned(c, order[c])
    <3>1. TypeOK /\ BlocksAreAligned
      BY DEF BuddyInv
    <3> QED
      BY <1>1, <1>4, <3>1, BlocksInPool DEF BlocksAreAligned
  <2>3. \A j \in o..a - 1 : Buddy(b + 2^j, j) = b /\ j \in Nat
    BY <1>1, <1>2, HalvesAreBuddies
  <2>4. b \notin (F \ {b}) \union Halves(b, o, a)
    BY <1>5
  <2>5. ASSUME NEW c \in (F \ {b}) \union Halves(b, o, a), order'[c] < max_order,
               Buddy(c, order'[c]) \in (F \ {b}) \union Halves(b, o, a),
               order'[Buddy(c, order'[c])] = order'[c]
        PROVE  FALSE
    <3> DEFINE d == Buddy(c, order'[c])
    <3>1. CASE c \in Halves(b, o, a)
      <4>1. PICK j \in o..a - 1 : c = b + 2^j
        BY <3>1 DEF Halves
      <4>2. d = b
        BY <1>1, <2>3, <4>1
      <4> QED
        BY <2>4, <2>5, <4>2
    <3>2. CASE c \in F \ {b} /\ d \in Halves(b, o, a)
      <4>1. PICK j \in o..a - 1 : d = b + 2^j
        BY <3>2 DEF Halves
      <4>2. order'[d] = j /\ Buddy(d, j) = b
        BY <1>1, <2>3, <4>1
      <4>3. Buddy(d, j) = c
        <5>1. order'[c] = j /\ j \in Nat /\ c \in Nat /\ Aligned(c, j) /\ d = Buddy(c, j)
          BY <2>2, <2>5, <3>2, <4>2
        <5> HIDE DEF d
        <5> QED
          BY <5>1, BuddyProperties
      <4> QED
        BY <2>2, <3>2, <4>2, <4>3
    <3>3. CASE c \in F \ {b} /\ d \in F \ {b}
      <4>1. BuddiesAreMerged
        BY DEF BuddyInv
      <4>2. order'[c] = order[c] /\ order'[d] = order[d]
        BY <2>2, <3>3
      <4>3. order[c] < max_order /\ d = Buddy(c, order[c]) /\ order[d] = order[c]
        BY <2>5, <4>2
      <4> QED
        BY <3>3, <4>1, <4>3 DEF BuddiesAreMerged
    <3> QED
      BY <2>5, <3>1, <3>2, <3>3
  <2> HIDE DEF F
  <2>6. ASSUME NEW c \in Free' \union waste_list', order'[c] < max_order,
               Buddy(c, order'[c]) \in Free' \union waste_list',
               order'[Buddy(c, order'[c])] = order'[c]
        PROVE  FALSE
    BY <2>1, <2>5, <2>6
  <2> QED
    BY <2>6 DEF BuddiesAreMerged
<1> QED
  BY <1>8, <1>9, <1>10, <1>11

(* The pages that a set of blocks covers: of blocks that end in the pool    *)
(* there are no more than it has.                                           *)
Used(A, f) == UNION {Span(c, f[c]) : c \in A}

LEMMA UsedIsTotal ==
  /\ TotalsAreExact => pages - free_pages = Cardinality(Used(Allocated, order))
  /\ TotalsAreExact' <=>
       /\ max_order_free' = Max({0} \union {i \in Orders : free_lists'[i] # <<>>})
       /\ pages - free_pages' = Cardinality(Used(Allocated', order'))
  BY DEF TotalsAreExact, Used, Covers, Span

LEMMA UsedPages ==
  ASSUME NEW A, A \subseteq Nat, NEW f, \A c \in A : f[c] \in Nat /\ c + 2^f[c] <= pages
  PROVE  IsFiniteSet(Used(A, f)) /\ Cardinality(Used(A, f)) \in 0..pages
<1>1. ASSUME NEW c \in A, NEW p \in Span(c, f[c]) PROVE p \in 0..pages - 1
  <2>1. c \in Nat /\ 2^f[c] \in Nat /\ c + 2^f[c] <= pages
    BY PowerIsNatural
  <2> QED
    BY <1>1, <2>1, PoolFacts DEF Span
<1>2. Used(A, f) \subseteq 0..pages - 1
  BY <1>1 DEF Used
<1>3. IsFiniteSet(0..pages - 1) /\ Cardinality(0..pages - 1) = pages
  BY PoolFacts, FS_Interval
<1>4. IsFiniteSet(Used(A, f)) /\ Cardinality(Used(A, f)) <= pages
  BY <1>2, <1>3, FS_Subset
<1>5. Cardinality(Used(A, f)) \in Nat
  BY <1>4, FS_CardinalityType
<1> QED
  BY <1>4, <1>5, PoolFacts

(* A block covers 2^order pages. *)
LEMMA SpanSize ==
  ASSUME NEW b \in Nat, NEW j \in Nat
  PROVE  IsFiniteSet(Span(b, j)) /\ Cardinality(Span(b, j)) = 2^j
<1>1. 2^j \in Nat \ {0}
  BY PowerIsPositive
<1>2. b \in Int /\ b + 2^j - 1 \in Int /\ ~(b > b + 2^j - 1) /\ b + 2^j - 1 - b + 1 = 2^j
  BY <1>1
<1> QED
  BY <1>2, FS_Interval DEF Span

LEMMA TakesTotals ==
  ASSUME BuddyInv, NEW n \in 1..MaxRequest, NEW o \in Nat, NEW a \in Orders, NEW b \in Block,
         Takes(n, o, a, b)
  PROVE  TypeOK' /\ AllocatedFits' /\ TotalsAreExact'
<1>1. /\ b \in Blocks /\ b \notin Allocated
      /\ order'[b] = o /\ \A c \in Blocks \ {b} : order'[c] = order[c]
      /\ Allocated' = Allocated \union {b}
      /\ \A j \in o..a - 1 : b + 2^j \in Block
  BY TakesBlocks
<1>2. /\ a \in Nat /\ o <= a /\ b \in Nat /\ a <= max_order /\ a <= max_order_free
      /\ max_order_free \in Nat /\ max_order \in Nat /\ max_order_free <= max_order
  BY PoolFacts DEF Orders, Takes, Block, BuddyInv, TypeOK
<1>3. TypeOK /\ AllocatedFits /\ TotalsAreExact
  BY DEF BuddyInv
<1>4. AllocatedFits'
  <2>1. /\ requested' = [requested EXCEPT ![b] = n] /\ o = get_order(n)
        /\ b + n <= FirstWaste /\ b + 2^o <= pages
    BY DEF Takes
  <2>2. ASSUME NEW c \in Allocated'
        PROVE  /\ order'[c] = get_order(requested'[c])
               /\ c + requested'[c] <= FirstWaste /\ c + 2^order'[c] <= pages
    <3>1. CASE c = b
      <4>1. requested'[c] = n
        BY <1>3, <2>1, <3>1 DEF TypeOK
      <4> QED
        BY <1>1, <2>1, <3>1, <4>1
    <3>2. CASE c # b
      <4>1. c \in Allocated /\ c \in Blocks /\ c \in Block
        BY <1>1, <3>2 DEF Blocks, Allocated
      <4>2. requested'[c] = requested[c] /\ order'[c] = order[c]
        BY <1>1, <1>3, <2>1, <3>2, <4>1 DEF TypeOK
      <4> QED
        BY <1>3, <4>1, <4>2 DEF AllocatedFits
    <3> QED
      BY <3>1, <3>2
  <2> QED
    BY <2>2 DEF AllocatedFits
<1>5. max_order_free' = Max({0} \union {i \in Orders : free_lists'[i] # <<>>})
      /\ max_order_free' \in Orders
  <2> DEFINE R == {0} \union {i \in 0..max_order_free : free_lists'[i] # <<>>}
             S == {0} \union {i \in Orders : free_lists'[i] # <<>>}
  <2>1. max_order_free' = Max(R)
    BY DEF Takes, Lowered
  <2>2. ASSUME NEW i \in Orders, free_lists'[i] # <<>> PROVE i <= max_order_free
    <3>1. free_lists'[i] \in Seq(Block) /\ free_lists[i] \in Seq(Block)
      BY <1>3 DEF Takes, TypeOK
    <3>2. Range(free_lists'[i]) # {}
      BY <2>2, <3>1, RangeProperties
    <3>3. CASE Range(free_lists[i]) # {}
      <4>1. free_lists[i] # <<>>
        BY <3>1, <3>3, RangeProperties
      <4> QED
        BY <4>1, ListIsShort
    <3>4. CASE i \in o..a - 1
      BY <1>2, <3>4
    <3> QED
      BY <3>2, <3>3, <3>4 DEF Takes
  <2>3. R = S
    BY <1>2, <2>2 DEF Orders
  <2>4. R \subseteq 0..max_order /\ R # {}
    BY <1>2
  <2> HIDE DEF R
  <2>5. Max(R) \in R
    BY <1>2, <2>4, MaxProperties
  <2> QED
    BY <2>1, <2>3, <2>4, <2>5 DEF Orders
<1>6. order' \in [Block -> Orders]
  <2>1. ASSUME NEW c \in Halves(b, o, a) PROVE get_order(c - b) \in Orders
    <3>1. PICK j \in o..a - 1 : c = b + 2^j
      BY DEF Halves
    <3>2. j \in Nat /\ 2^j \in Nat /\ b + 2^j - b = 2^j
      BY <1>2, PowerIsNatural
    <3> QED
      BY <1>2, <3>1, <3>2, OrderOfPower DEF Orders
  <2>2. o \in Orders
    BY <1>2 DEF Orders
  <2> QED
    BY <1>3, <2>1, <2>2 DEF Takes, TypeOK
<1>7. pages - free_pages' = Cardinality(Used(Allocated', order')) /\ free_pages' \in 0..pages
  <2> DEFINE U == Used(Allocated, order)
             V == Used(Allocated', order')
  <2>1. V = U \union Span(b, o)
    <3>1. \A c \in Allocated : order'[c] = order[c]
      BY <1>1 DEF Blocks
    <3> QED
      BY <1>1, <3>1 DEF Used
  <2>2. U \intersect Span(b, o) = {}
    <3>1. \A c \in Allocated : c \in Blocks /\ c # b
      BY <1>1 DEF Blocks
    <3>2. \A c \in Allocated : Span(c, order[c]) \intersect Span(b, a) = {}
      BY <1>1, <3>1 DEF BuddyInv, BlocksAreDisjoint, Takes
    <3>3. Span(b, o) \subseteq Span(b, a)
      BY <1>2, SplitSpan
    <3> QED
      BY <3>2, <3>3 DEF Used
  <2>3. IsFiniteSet(U) /\ Cardinality(U) \in 0..pages /\ pages - free_pages = Cardinality(U)
    <3>1. \A c \in Allocated : c \in Nat /\ order[c] \in Nat /\ c + 2^order[c] <= pages
      BY <1>3, BlocksInPool DEF AllocatedFits, Blocks
    <3>2. IsFiniteSet(U) /\ Cardinality(U) \in 0..pages
      BY <3>1, UsedPages
    <3> QED
      BY <1>3, <3>2, UsedIsTotal
  <2>4. IsFiniteSet(Span(b, o)) /\ Cardinality(Span(b, o)) = 2^o /\ 2^o \in Nat
    BY <1>2, SpanSize, PowerIsNatural
  <2>5. IsFiniteSet(V) /\ Cardinality(V) \in 0..pages
    <3>1. \A c \in Allocated' : c \in Nat /\ order'[c] \in Nat
      BY <1>6, PoolFacts DEF Allocated, Block, Orders
    <3>2. \A c \in Allocated' : c + 2^order'[c] <= pages
      BY <1>4 DEF AllocatedFits
    <3> QED
      BY <3>1, <3>2, UsedPages
  <2> HIDE DEF U, V
  <2>6. Cardinality(V) = Cardinality(U) + 2^o
    <3>1. Cardinality(V) = Cardinality(U) + Cardinality(Span(b, o)) - Cardinality(U \intersect Span(b, o))
      BY <2>1, <2>3, <2>4, FS_Union
    <3> QED
      BY <2>2, <2>3, <2>4, <3>1, FS_EmptySet
  <2>7. free_pages' = free_pages - 2^o /\ free_pages \in Int
    BY <1>3 DEF Takes, TypeOK
  <2>8. pages - free_pages' = Cardinality(V) /\ free_pages' \in 0..pages
    BY <2>3, <2>4, <2>5, <2>6, <2>7, PoolFacts
  <2> QED
    BY <2>8 DEF V
<1>8. TotalsAreExact'
  BY <1>5, <1>7, UsedIsTotal
<1>9. TypeOK'
  <2>1. waste_list' \subseteq Block
    BY <1>1, <1>3 DEF Takes, TypeOK, Halves
  <2>2. requested' \in [Block -> 0..MaxRequest]
    BY <1>3 DEF Takes, TypeOK
  <2>3. free_lists' \in [Orders -> Seq(Block)]
    BY DEF Takes
  <2> QED
    BY <1>5, <1>6, <1>7, <2>1, <2>2, <2>3 DEF TypeOK
<1> QED
  BY <1>4, <1>8, <1>9

LEMMA AllocateKeeps ==
  ASSUME BuddyInv, NEW n \in 1..MaxRequest, buddy_allocate(n)
  PROVE  BuddyInv'
<1>1. PICK o \in Nat, a \in Orders, b \in Block : Takes(n, o, a, b)
  BY AllocateTakes
<1> QED
  BY <1>1, TakesTiles, TakesLists, TakesTotals DEF BuddyInv

-----------------------------------------------------------------------------
(* What a deallocation does: the block b is merged with its buddies up to   *)
(* order k, which the next buddy, if there is one, does not join.           *)
Joined(b, o, k) == {Buddy(Around(b, j), j) : j \in o..k - 1}

Gives(b, o, k, m) ==
  /\ b \in Allocated /\ o = order[b] /\ o <= k /\ m = Around(b, k)
  /\ \A j \in o..k - 1 : Merges(b, j)
  /\ k < max_order => ~Merges(b, k)
  /\ free_lists' \in [Orders -> Seq(Block)]
  /\ \A j \in Orders :
       /\ IsInjective(free_lists'[j])
       /\ Range(free_lists'[j]) = (Range(free_lists[j]) \ Joined(b, o, k)) \union
            (IF j = k THEN {m} ELSE {})
  /\ waste_list' = waste_list \ Joined(b, o, k)
  /\ order' = [order EXCEPT ![m] = k]
  /\ max_order_free' = IF k > max_order_free THEN k ELSE max_order_free
  /\ free_pages' = free_pages + 2^o
  /\ requested' = [requested EXCEPT ![b] = 0]

(* The buddies it merges with are free or waste, and of the order that they *)
(* are merged at.                                                           *)
LEMMA JoinedBlocks ==
  ASSUME BuddyInv, NEW b \in Block, NEW o \in Nat, NEW k \in Orders,
         \A j \in o..k - 1 : Merges(b, j)
  PROVE  \A j \in o..k - 1 : /\ Buddy(Around(b, j), j) \in Free \union waste_list
                            /\ order[Buddy(Around(b, j), j)] = j
<1>1. ASSUME NEW j \in o..k - 1
      PROVE  /\ Buddy(Around(b, j), j) \in Free \union waste_list
             /\ order[Buddy(Around(b, j), j)] = j
  <2>1. j \in Orders
    BY PoolFacts DEF Orders
  <2>2. Merges(b, j)
    OBVIOUS
  <2>3. j < max_order /\ j \in Nat
    BY PoolFacts DEF Orders
  <2>4. Buddy(Around(b, j), j) \in Block
    BY <2>1, <2>3, AroundInPool
  <2>5. OrderOf(Buddy(Around(b, j), j)) = order[Buddy(Around(b, j), j)]
    BY <2>4 DEF OrderOf
  <2> QED
    BY <2>1, <2>2, <2>5 DEF Merges, InList, Free
<1> QED
  BY <1>1

(* Merging ends with the whole pool: the descriptor after the last one is   *)
(* zero.                                                                    *)
LEMMA MergingEnds ==
  ASSUME NEW b \in Block
  PROVE  ~Merges(b, max_order)
<1>1. max_order \in Nat \ {0} /\ 2^max_order \in Nat \ {0} /\ b \in 0..2^max_order - 1
  BY PoolFacts DEF Block
<1>2. Around(b, max_order) = 0
  BY <1>1 DEF Around
<1>3. Buddy(0, max_order) = 2^max_order
  <2>1. 2^(max_order + 1) \in Nat \ {0}
    BY <1>1, PowerIsPositive
  <2>2. 0 % 2^(max_order + 1) = 0
    BY <2>1
  <2> QED
    BY <1>1, <2>2 DEF Buddy
<1>4. OrderOf(2^max_order) = 0
  BY <1>1 DEF OrderOf, Block
<1> QED
  BY <1>1, <1>2, <1>3, <1>4 DEF Merges

LEMMA DeallocateGives ==
  ASSUME BuddyInv, NEW b \in Block, buddy_deallocate(b)
  PROVE  \E o \in Nat, k \in Orders, m \in Block : Gives(b, o, k, m)
<1> DEFINE o         == order[b]
           Levels    == {j \in o..max_order + 1 : \A i \in o..j - 1 : Merges(b, i)}
           k         == Max(Levels)
           m         == Around(b, k)
           buddies   == Joined(b, o, k)
           Rest(j)   == IF j \in o..k - 1 THEN RemoveFirst(free_lists[j], Buddy(Around(b, j), j))
                                          ELSE free_lists[j]
<1>1. /\ b \in Allocated
      /\ free_lists' = [j \in Orders |->
            IF j = k /\ ~IsWaste(m) THEN Append(Rest(j), m) ELSE Rest(j)]
      /\ waste_list' = (waste_list \ buddies) \union (IF IsWaste(m) THEN {m} ELSE {})
      /\ order' = [order EXCEPT ![m] = k]
      /\ max_order_free' = IF ~IsWaste(m) /\ k > max_order_free THEN k ELSE max_order_free
      /\ free_pages' = free_pages + 2^o
      /\ requested' = [requested EXCEPT ![b] = 0]
  BY DEF buddy_deallocate, Freed, Joined
<1>2. TypeOK /\ ListsAreClean /\ AllocatedFits /\ BlocksAreDisjoint /\ KindsAreApart
  BY DEF BuddyInv
<1>3. o \in Nat /\ o <= max_order /\ max_order \in Nat /\ b \in Nat /\ b \in Blocks
  BY <1>1, <1>2, PoolFacts DEF TypeOK, Orders, Block, Blocks
<1> HIDE DEF o
<1>4. /\ k \in o..max_order /\ \A i \in o..k - 1 : Merges(b, i)
      /\ k < max_order => ~Merges(b, k)
  <2>1. o \in Levels
    BY <1>3
  <2>2. Levels \subseteq 0..max_order + 1 /\ max_order + 1 \in Nat /\ Levels # {}
    BY <1>3, <2>1
  <2>5. k \in Levels /\ \A j \in Levels : j <= k
    <3> HIDE DEF Levels
    <3> QED
      BY <1>3, <2>2, MaxProperties
  <2>6. max_order + 1 \notin Levels
    BY <1>3, MergingEnds
  <2>3. k \in Levels /\ k <= max_order /\ \A j \in Levels : j <= k
    BY <1>3, <2>2, <2>5, <2>6
  <2> HIDE DEF k
  <2>4. ASSUME k < max_order, Merges(b, k) PROVE FALSE
    <3>1. k + 1 \in o..max_order + 1
      BY <1>3, <2>3, <2>4
    <3>2. \A i \in o..k + 1 - 1 : i \in o..k - 1 \/ i = k
      BY <1>3, <2>3
    <3>3. k + 1 \in Levels
      BY <2>3, <2>4, <3>1, <3>2
    <3> QED
      BY <1>3, <2>3, <3>1, <3>3
  <2> QED
    BY <2>3, <2>4
<1> HIDE DEF k, Levels
<1>5. k \in Orders /\ k \in Nat
  BY <1>3, <1>4 DEF Orders
<1>6. m \in Block /\ m \in Nat /\ m <= b /\ b \in Span(m, k)
  BY <1>3, <1>5, AroundProperties, AroundInPool
<1>7. ~IsWaste(m)
  <2>1. requested[b] \in Nat /\ requested[b] # 0 /\ b + requested[b] <= FirstWaste
    BY <1>1, <1>2, PoolAssumption DEF Allocated, AllocatedFits, TypeOK
  <2> HIDE DEF m
  <2> QED
    BY <1>3, <1>6, <2>1, PoolFacts DEF IsWaste
<1> HIDE DEF m
<1>8. \A j \in o..k - 1 : Buddy(Around(b, j), j) \in Free \union waste_list
                         /\ order[Buddy(Around(b, j), j)] = j
  BY <1>3, <1>4, <1>5, JoinedBlocks
<1>9. ASSUME NEW j \in Orders
      PROVE  /\ Rest(j) \in Seq(Block) /\ IsInjective(Rest(j))
             /\ Range(Rest(j)) = Range(free_lists[j]) \ buddies
  <2>1. free_lists[j] \in Seq(Block) /\ IsInjective(free_lists[j])
        /\ \A c \in Range(free_lists[j]) : order[c] = j
    BY <1>2 DEF TypeOK, ListsAreClean
  <2>2. CASE j \in o..k - 1
    <3> DEFINE d == Buddy(Around(b, j), j)
    <3>1. Rest(j) = RemoveFirst(free_lists[j], d)
      BY <2>2
    <3>2. \A c \in buddies : order[c] = j => c = d
      BY <1>8 DEF Joined
    <3>3. d \in buddies
      BY <2>2 DEF Joined
    <3> HIDE DEF d, Rest, buddies
    <3>4. /\ Rest(j) \in Seq(Block) /\ IsInjective(Rest(j))
          /\ Range(Rest(j)) = Range(free_lists[j]) \ {d}
      BY <2>1, <3>1, RemoveFirstProperties
    <3> QED
      BY <2>1, <3>2, <3>3, <3>4
  <2>3. CASE j \notin o..k - 1
    <3>1. Rest(j) = free_lists[j]
      BY <2>3
    <3>2. \A c \in buddies : order[c] # j
      BY <1>8, <2>3 DEF Joined
    <3> HIDE DEF Rest, buddies
    <3> QED
      BY <2>1, <3>1, <3>2
  <2> QED
    BY <2>2, <2>3
<1>10. m \notin Range(Rest(k))
  <2>1. ASSUME m \in Range(Rest(k)) PROVE FALSE
    <3>1. m \in Range(free_lists[k])
      BY <1>5, <1>9, <2>1
    <3>2. m \in Free /\ order[m] = k
      BY <1>2, <1>5, <3>1 DEF Free, ListsAreClean
    <3>3. m \in Blocks
      BY <3>2 DEF Blocks
    <3>4. m = b
      BY <1>2, <1>3, <1>6, <3>2, <3>3, BlockCoversItself, CoverIsUnique
    <3> QED
      BY <1>1, <1>2, <3>2, <3>4 DEF KindsAreApart
  <2> QED
    BY <2>1
<1> HIDE DEF Rest, buddies
<1>11. /\ \A j \in Orders : free_lists'[j] = IF j = k THEN Append(Rest(j), m) ELSE Rest(j)
       /\ free_lists' = [j \in Orders |-> free_lists'[j]]
  BY <1>1, <1>7
<1>12. ASSUME NEW j \in Orders
       PROVE  /\ free_lists'[j] \in Seq(Block) /\ IsInjective(free_lists'[j])
              /\ Range(free_lists'[j]) = (Range(free_lists[j]) \ buddies) \union
                   (IF j = k THEN {m} ELSE {})
  <2>1. CASE j = k
    <3>1. free_lists'[j] = Append(Rest(j), m)
      BY <1>11, <2>1
    <3>2. /\ Append(Rest(j), m) \in Seq(Block) /\ IsInjective(Append(Rest(j), m))
          /\ Range(Append(Rest(j), m)) = Range(Rest(j)) \union {m}
      BY <1>6, <1>9, <1>10, <2>1, PushProperties
    <3> QED
      BY <1>9, <2>1, <3>1, <3>2
  <2>2. CASE j # k
    BY <1>9, <1>11, <2>2
  <2> QED
    BY <2>1, <2>2
<1>13. Gives(b, o, k, m)
  <2>1. free_lists' \in [Orders -> Seq(Block)]
    BY <1>11, <1>12
  <2>2. waste_list' = waste_list \ buddies
    BY <1>1, <1>7
  <2>3. max_order_free' = IF k > max_order_free THEN k ELSE max_order_free
    BY <1>1, <1>7
  <2>4. o = order[b] /\ m = Around(b, k)
    BY DEF o, m
  <2>5. o <= k
    BY <1>3, <1>4
  <2> QED
    BY <1>1, <1>4, <1>12, <2>1, <2>2, <2>3, <2>4, <2>5 DEF Gives, buddies
<1> QED
  BY <1>3, <1>5, <1>6, <1>13

(* The blocks after a deallocation: the merged one, and those that did not  *)
(* join it.                                                                 *)
LEMMA GivesBlocks ==
  ASSUME BuddyInv, NEW b \in Block, NEW o \in Nat, NEW k \in Orders, NEW m \in Block,
         Gives(b, o, k, m)
  PROVE  /\ b \in Blocks /\ order[b] = o /\ b \notin Free /\ b \notin waste_list
         /\ Joined(b, o, k) \subseteq Free \union waste_list
         /\ \A c \in Joined(b, o, k) : order[c] \in o..k - 1
         /\ Aligned(m, k) /\ m <= b
         /\ Span(m, k) = UNION {Span(c, order[c]) : c \in {b} \union Joined(b, o, k)}
         /\ m \in Blocks => m \in {b} \union Joined(b, o, k)
         /\ order'[m] = k
         /\ \A c \in Blocks \ ({b} \union Joined(b, o, k)) : order'[c] = order[c]
         /\ Free' = (Free \ Joined(b, o, k)) \union {m}
         /\ Allocated' = Allocated \ {b}
         /\ Blocks' = (Blocks \ ({b} \union Joined(b, o, k))) \union {m}
<1> DEFINE J == Joined(b, o, k)
<1>1. TypeOK /\ KindsAreApart /\ BlocksAreAligned /\ BlocksAreDisjoint
  BY DEF BuddyInv
<1>2. /\ b \in Allocated /\ o = order[b] /\ o <= k /\ m = Around(b, k)
      /\ \A j \in o..k - 1 : Merges(b, j)
      /\ waste_list' = waste_list \ J
      /\ order' = [order EXCEPT ![m] = k]
      /\ requested' = [requested EXCEPT ![b] = 0]
  BY DEF Gives
<1>3. /\ b \in Blocks /\ b \notin Free /\ b \notin waste_list /\ b \in Nat /\ k \in Nat
      /\ k <= max_order /\ Aligned(b, o) /\ m \in Nat
  BY <1>1, <1>2, PoolFacts DEF Blocks, KindsAreApart, BlocksAreAligned, Block, Orders
<1>4. \A j \in o..k - 1 : /\ Buddy(Around(b, j), j) \in Free \union waste_list
                         /\ order[Buddy(Around(b, j), j)] = j
  BY <1>2, JoinedBlocks
<1>5. J \subseteq Free \union waste_list /\ \A c \in J : order[c] \in o..k - 1
  BY <1>4 DEF Joined
<1>6. Aligned(m, k) /\ m <= b
  BY <1>2, <1>3, AroundProperties
<1>7. Span(m, k) = UNION {Span(c, order[c]) : c \in {b} \union J}
  <2>1. Span(m, k) = Span(b, o) \union UNION {Span(Buddy(Around(b, i), i), i) : i \in o..k - 1}
    BY <1>2, <1>3, MergedSpan
  <2>2. UNION {Span(c, order[c]) : c \in {b} \union J} = Span(b, o) \union UNION {Span(c, order[c]) : c \in J}
    BY <1>2
  <2>3. UNION {Span(c, order[c]) : c \in J} = UNION {Span(Buddy(Around(b, i), i), i) : i \in o..k - 1}
    BY <1>4 DEF Joined
  <2> QED
    BY <2>1, <2>2, <2>3
<1>8. {b} \union J \subseteq Blocks
  BY <1>3, <1>5 DEF Blocks
<1>9. ASSUME m \in Blocks PROVE m \in {b} \union J
  <2>1. m \in Span(m, k)
    BY <1>6, SpanInPool
  <2>2. PICK c \in {b} \union J : m \in Span(c, order[c])
    BY <1>7, <2>1
  <2>3. m \in Span(m, order[m])
    BY <1>1, <1>9, BlockCoversItself
  <2>4. c \in Blocks
    BY <1>8
  <2>5. m = c
    BY <1>1, <1>9, <2>2, <2>3, <2>4, CoverIsUnique
  <2> QED
    BY <2>5
<1>10. order'[m] = k /\ \A c \in Blocks \ ({b} \union J) : order'[c] = order[c]
  <2>1. order \in [Block -> Orders] /\ Blocks \subseteq Block
    BY <1>1, BlocksInPool DEF TypeOK
  <2> HIDE DEF J
  <2> QED
    BY <1>2, <1>9, <2>1
<1>11. Free' = (Free \ J) \union {m}
  <2>1. \A j \in Orders : Range(free_lists'[j]) = (Range(free_lists[j]) \ J) \union
                            (IF j = k THEN {m} ELSE {})
    BY DEF Gives
  <2>2. Free = UNION {Range(free_lists[j]) : j \in Orders} /\ Free' = UNION {Range(free_lists'[j]) : j \in Orders}
    BY DEF Free
  <2> HIDE DEF J
  <2>3. ASSUME NEW c \in Free' PROVE c \in (Free \ J) \union {m}
    <3>1. PICK j \in Orders : c \in Range(free_lists'[j])
      BY <2>2
    <3> QED
      BY <2>1, <2>2, <3>1
  <2>4. ASSUME NEW c \in Free \ J PROVE c \in Free'
    <3>1. PICK j \in Orders : c \in Range(free_lists[j])
      BY <2>2
    <3> QED
      BY <2>1, <2>2, <3>1
  <2>5. m \in Free'
    <3>1. m \in Range(free_lists'[k])
      BY <2>1
    <3> QED
      BY <2>2, <3>1
  <2> QED
    BY <2>3, <2>4, <2>5
<1>12. Allocated' = Allocated \ {b}
  BY <1>1, <1>2 DEF TypeOK, Allocated
<1>13. Blocks' = (Blocks \ ({b} \union J)) \union {m}
  <2>1. Blocks' = Free' \union waste_list' \union Allocated' /\ Blocks = Free \union waste_list \union Allocated
    BY DEF Blocks
  <2>2. Allocated \intersect J = {}
    BY <1>1, <1>5 DEF KindsAreApart
  <2> HIDE DEF J
  <2> QED
    BY <1>2, <1>3, <1>11, <1>12, <2>1, <2>2
<1> QED
  BY <1>2, <1>3, <1>5, <1>6, <1>7, <1>9, <1>10, <1>11, <1>12, <1>13

LEMMA GivesTiles ==
  ASSUME BuddyInv, NEW b \in Block, NEW o \in Nat, NEW k \in Orders, NEW m \in Block,
         Gives(b, o, k, m)
  PROVE  PagesAreCovered' /\ BlocksAreDisjoint' /\ BlocksAreAligned'
<1> DEFINE Old == {b} \union Joined(b, o, k)
           New == {m}
<1>1. /\ b \in Blocks /\ Joined(b, o, k) \subseteq Free \union waste_list /\ Aligned(m, k)
      /\ Span(m, k) = UNION {Span(c, order[c]) : c \in Old}
      /\ order'[m] = k /\ \A c \in Blocks \ Old : order'[c] = order[c]
      /\ Blocks' = (Blocks \ Old) \union New
  BY GivesBlocks
<1>2. Old \subseteq Blocks
  BY <1>1 DEF Blocks
<1>3. /\ UNION {Span(c, order'[c]) : c \in New} = Span(m, k)
      /\ \A c, d \in New : c # d => Span(c, order'[c]) \intersect Span(d, order'[d]) = {}
      /\ \A c \in New : Aligned(c, order'[c])
  BY <1>1
<1>4. PagesAreCovered /\ BlocksAreDisjoint /\ BlocksAreAligned
  BY DEF BuddyInv
<1> HIDE DEF Old, New
<1> QED
  BY <1>1, <1>2, <1>3, <1>4, Replaced

LEMMA GivesLists ==
  ASSUME BuddyInv, NEW b \in Block, NEW o \in Nat, NEW k \in Orders, NEW m \in Block,
         Gives(b, o, k, m)
  PROVE  ListsAreClean' /\ KindsAreApart' /\ FreeIsUsable' /\ BuddiesAreMerged'
<1> DEFINE J == Joined(b, o, k)
<1>1. /\ b \in Blocks /\ b \notin Free /\ b \notin waste_list
      /\ J \subseteq Free \union waste_list
      /\ Aligned(m, k) /\ m <= b
      /\ m \in Blocks => m \in {b} \union J
      /\ order'[m] = k /\ \A c \in Blocks \ ({b} \union J) : order'[c] = order[c]
      /\ Free' = (Free \ J) \union {m}
      /\ Allocated' = Allocated \ {b}
  BY GivesBlocks
<1>2. /\ waste_list' = waste_list \ J /\ b \in Allocated /\ m = Around(b, k)
      /\ k < max_order => ~Merges(b, k)
      /\ \A j \in Orders :
           /\ IsInjective(free_lists'[j])
           /\ Range(free_lists'[j]) = (Range(free_lists[j]) \ J) \union (IF j = k THEN {m} ELSE {})
  BY DEF Gives
<1>3. TypeOK /\ KindsAreApart /\ FreeIsUsable /\ AllocatedFits /\ BuddiesAreMerged /\ BlocksAreAligned
  BY DEF BuddyInv
<1>4. Blocks = Free \union waste_list \union Allocated
  BY DEF Blocks
<1> HIDE DEF J
<1>5. KindsAreApart'
  BY <1>1, <1>2, <1>3, <1>4 DEF KindsAreApart
<1>6. \A c \in (Free \union waste_list) \ J : order'[c] = order[c] /\ c # m
  BY <1>1, <1>4
<1>7. ListsAreClean'
  <2>1. ASSUME NEW i \in Orders, NEW c \in Range(free_lists'[i]) PROVE order'[c] = i
    <3>1. CASE i = k /\ c = m
      BY <1>1, <3>1
    <3>2. CASE c \in Range(free_lists[i]) \ J
      <4>1. order[c] = i /\ c \in Free
        BY <3>2, ListOfBlock
      <4> QED
        BY <1>6, <3>2, <4>1
    <3> QED
      BY <1>2, <2>1, <3>1, <3>2
  <2> QED
    BY <1>2, <2>1 DEF ListsAreClean
<1>8. FreeIsUsable'
  <2>1. requested[b] \in Nat /\ b + requested[b] <= FirstWaste /\ requested[b] # 0
    BY <1>2, <1>3, PoolAssumption DEF TypeOK, AllocatedFits, Allocated
  <2>2. m < FirstWaste
    BY <1>1, <2>1, PoolFacts DEF Block
  <2> QED
    BY <1>1, <1>3, <2>2 DEF FreeIsUsable
<1>9. BuddiesAreMerged'
  <2> DEFINE F == (Free \union waste_list) \ J
  <2>1. Free' \union waste_list' = F \union {m}
    BY <1>1, <1>2
  <2>2. \A c \in F : /\ order'[c] = order[c] /\ c # m /\ c \in Nat /\ Aligned(c, order[c])
                     /\ order[c] \in Nat /\ c \in Free \union waste_list
    BY <1>3, <1>4, <1>6, BlocksInPool DEF BlocksAreAligned
  <2>3. ASSUME NEW d \in F, d = Buddy(m, k), order[d] = k, k < max_order PROVE FALSE
    <3>1. d \in waste_list \union Range(free_lists[order[d]])
      BY <2>2, ListOfBlock
    <3>3. d \in Block
      BY <1>3, <2>2, <2>3, BlocksInPool DEF Blocks
    <3>4. OrderOf(d) = order[d] /\ d <= pages + max_order_waste
      BY <3>3, PoolFacts DEF OrderOf, Block, max_order_waste
    <3>2. Merges(b, k)
      BY <1>2, <2>3, <3>1, <3>4 DEF Merges, InList
    <3> QED
      BY <1>2, <2>3, <3>2
  <2>4. ASSUME NEW c \in F \union {m}, NEW d \in F \union {m}, order'[c] < max_order,
               d = Buddy(c, order'[c]), order'[d] = order'[c]
        PROVE  FALSE
    <3>1. CASE c = m
      <4>1. order'[c] = k /\ k \in Nat /\ m \in Nat
        BY <1>1, <3>1, PoolFacts DEF Orders, Block
      <4>2. d # m
        BY <1>1, <2>4, <3>1, <4>1, BuddyProperties
      <4> QED
        BY <2>2, <2>3, <2>4, <3>1, <4>1, <4>2
    <3>2. CASE c # m /\ d = m
      <4>1. order'[c] = k /\ order[c] = k
        BY <1>1, <2>2, <2>4, <3>2
      <4>2. Buddy(m, k) = c
        <5>1. m = Buddy(c, k) /\ c \in Nat /\ k \in Nat /\ Aligned(c, k)
          BY <2>2, <2>4, <3>2, <4>1
        <5> QED
          BY <5>1, BuddyProperties
      <4> QED
        BY <2>3, <2>4, <3>2, <4>1, <4>2
    <3>3. CASE c # m /\ d # m
      <4>1. c \in Free \union waste_list /\ d \in Free \union waste_list
        BY <2>2, <3>3
      <4>2. order[c] < max_order /\ d = Buddy(c, order[c]) /\ order[d] = order[c]
        BY <2>2, <2>4, <3>3
      <4> QED
        BY <1>3, <4>1, <4>2 DEF BuddiesAreMerged
    <3> QED
      BY <3>1, <3>2, <3>3
  <2> HIDE DEF F
  <2>5. ASSUME NEW c \in Free' \union waste_list', order'[c] < max_order,
               Buddy(c, order'[c]) \in Free' \union waste_list',
               order'[Buddy(c, order'[c])] = order'[c]
        PROVE  FALSE
    BY <2>1, <2>4, <2>5
  <2> QED
    BY <2>5 DEF BuddiesAreMerged
<1> QED
  BY <1>5, <1>7, <1>8, <1>9

LEMMA GivesTotals ==
  ASSUME BuddyInv, NEW b \in Block, NEW o \in Nat, NEW k \in Orders, NEW m \in Block,
         Gives(b, o, k, m)
  PROVE  TypeOK' /\ AllocatedFits' /\ TotalsAreExact'
<1> DEFINE J == Joined(b, o, k)
<1>1. /\ b \in Blocks /\ order[b] = o
      /\ J \subseteq Free \union waste_list /\ \A c \in J : order[c] \in o..k - 1
      /\ \A c \in Blocks \ ({b} \union J) : order'[c] = order[c]
      /\ Allocated' = Allocated \ {b}
  BY GivesBlocks
<1>2. /\ b \in Allocated /\ waste_list' = waste_list \ J /\ order' = [order EXCEPT ![m] = k]
      /\ free_lists' \in [Orders -> Seq(Block)]
      /\ \A j \in Orders : Range(free_lists'[j]) = (Range(free_lists[j]) \ J) \union
                            (IF j = k THEN {m} ELSE {})
      /\ max_order_free' = IF k > max_order_free THEN k ELSE max_order_free
      /\ free_pages' = free_pages + 2^o /\ requested' = [requested EXCEPT ![b] = 0]
  BY DEF Gives
<1>3. TypeOK /\ KindsAreApart /\ AllocatedFits /\ TotalsAreExact /\ BlocksAreDisjoint
  BY DEF BuddyInv
<1>4. Blocks = Free \union waste_list \union Allocated
  BY DEF Blocks
<1> HIDE DEF J
<1>5. \A c \in Allocated \ {b} : order'[c] = order[c]
  BY <1>1, <1>3, <1>4 DEF KindsAreApart
<1>6. AllocatedFits'
  <2>1. \A c \in Allocated \ {b} : requested'[c] = requested[c]
    BY <1>2, <1>3 DEF TypeOK, Allocated
  <2> QED
    BY <1>1, <1>3, <1>5, <2>1 DEF AllocatedFits
<1>7. order' \in [Block -> Orders]
  BY <1>2, <1>3 DEF TypeOK
<1>8. max_order_free' \in Orders
      /\ max_order_free' = Max({0} \union {i \in Orders : free_lists'[i] # <<>>})
  <2> DEFINE S == {0} \union {i \in Orders : free_lists'[i] # <<>>}
  <2>1. /\ k \in Nat /\ max_order \in Nat /\ max_order_free \in Nat /\ k <= max_order
        /\ max_order_free \in Orders
    BY <1>3, PoolFacts DEF Orders, TypeOK
  <2>2. ASSUME NEW i \in Orders
        PROVE  /\ free_lists'[i] = <<>> <=> Range(free_lists'[i]) = {}
               /\ free_lists[i] = <<>> <=> Range(free_lists[i]) = {}
    <3>1. free_lists'[i] \in Seq(Block) /\ free_lists[i] \in Seq(Block)
      BY <1>2, <1>3 DEF TypeOK
    <3> QED
      BY <3>1, RangeProperties
  <2>3. k \in S
    <3>1. m \in Range(free_lists'[k])
      BY <1>2
    <3> QED
      BY <2>2, <3>1
  <2>4. max_order_free' \in S
    <3>1. CASE k >= max_order_free
      BY <1>2, <2>1, <2>3, <3>1
    <3>2. CASE k < max_order_free
      <4>1. max_order_free # 0 /\ max_order_free' = max_order_free
        BY <1>2, <2>1, <3>2
      <4>2. free_lists[max_order_free] # <<>>
        BY <4>1, ListIsShort
      <4>3. PICK c \in Range(free_lists[max_order_free]) : TRUE
        BY <2>1, <2>2, <4>2
      <4>4. order[c] = max_order_free
        BY <2>1, ListOfBlock
      <4>5. c \notin J
        BY <1>1, <2>1, <3>2, <4>4
      <4>6. c \in Range(free_lists'[max_order_free])
        BY <1>2, <2>1, <4>5
      <4> QED
        BY <2>1, <2>2, <4>1, <4>6
    <3> QED
      BY <2>1, <3>1, <3>2
  <2>5. \A i \in S : i <= max_order_free'
    <3>1. ASSUME NEW i \in Orders, free_lists'[i] # <<>> PROVE i <= max_order_free'
      <4>1. i = k \/ free_lists[i] # <<>>
        BY <1>2, <2>2, <3>1
      <4>2. i = k \/ i <= max_order_free
        BY <4>1, ListIsShort
      <4>3. i \in Nat
        BY <2>1 DEF Orders
      <4> QED
        BY <1>2, <2>1, <4>2, <4>3
    <3>2. 0 <= max_order_free'
      BY <1>2, <2>1
    <3> QED
      BY <3>1, <3>2
  <2>6. S \subseteq 0..max_order /\ S # {}
    BY <2>1 DEF Orders
  <2> HIDE DEF S
  <2>7. Max(S) \in S /\ \A i \in S : i <= Max(S)
    BY <2>1, <2>6, MaxProperties
  <2>8. max_order_free' \in Nat /\ Max(S) \in Nat
        /\ max_order_free' <= Max(S) /\ Max(S) <= max_order_free'
    <3>1. max_order_free' \in 0..max_order /\ Max(S) \in 0..max_order
      BY <2>4, <2>6, <2>7
    <3>2. max_order_free' <= Max(S)
      BY <2>4, <2>7
    <3>3. Max(S) <= max_order_free'
      BY <2>5, <2>7
    <3> QED
      BY <2>1, <3>1, <3>2, <3>3
  <2>9. max_order_free' = Max(S)
    BY <2>8
  <2> QED
    BY <2>1, <2>4, <2>6, <2>9 DEF S, Orders
<1>9. pages - free_pages' = Cardinality(Used(Allocated', order')) /\ free_pages' \in 0..pages
  <2> DEFINE U == Used(Allocated, order)
             V == Used(Allocated', order')
  <2>1. \A c \in Allocated : c \in Nat /\ order[c] \in Nat /\ c + 2^order[c] <= pages /\ c \in Blocks
    BY <1>3, <1>4, BlocksInPool DEF AllocatedFits
  <2>2. U = V \union Span(b, o)
    <3>1. V = UNION {Span(c, order[c]) : c \in Allocated \ {b}}
      BY <1>1, <1>5 DEF Used
    <3>2. U = UNION {Span(c, order[c]) : c \in Allocated}
      BY DEF Used
    <3>3. Allocated = (Allocated \ {b}) \union {b}
      BY <1>2
    <3>4. UNION {Span(c, order[c]) : c \in (Allocated \ {b}) \union {b}} =
            (UNION {Span(c, order[c]) : c \in Allocated \ {b}}) \union Span(b, order[b])
      OBVIOUS
    <3> QED
      BY <1>1, <3>1, <3>2, <3>3, <3>4
  <2>3. V \intersect Span(b, o) = {}
    <3>1. \A c \in Allocated \ {b} : Span(c, order'[c]) \intersect Span(b, o) = {}
      BY <1>1, <1>3, <1>5, <2>1 DEF BlocksAreDisjoint
    <3> QED
      BY <1>1, <3>1 DEF Used
  <2>4. IsFiniteSet(U) /\ Cardinality(U) \in 0..pages /\ pages - free_pages = Cardinality(U)
    <3>1. IsFiniteSet(U) /\ Cardinality(U) \in 0..pages
      BY <2>1, UsedPages
    <3> QED
      BY <1>3, <3>1, UsedIsTotal
  <2>5. IsFiniteSet(V) /\ Cardinality(V) \in 0..pages
    <3>1. \A c \in Allocated' : c \in Nat /\ order'[c] \in Nat /\ c + 2^order'[c] <= pages
      BY <1>1, <1>5, <2>1
    <3>2. Allocated' \subseteq Nat
      BY <3>1
    <3> QED
      BY <3>1, <3>2, UsedPages
  <2>6. IsFiniteSet(Span(b, o)) /\ Cardinality(Span(b, o)) = 2^o /\ 2^o \in Nat
    BY <1>1, <1>2, <2>1, SpanSize, PowerIsNatural
  <2> HIDE DEF U, V
  <2>7. Cardinality(U) = Cardinality(V) + 2^o
    <3>1. Cardinality(U) = Cardinality(V) + Cardinality(Span(b, o)) - Cardinality(V \intersect Span(b, o))
      BY <2>2, <2>5, <2>6, FS_Union
    <3> QED
      <4>1. Cardinality(V \intersect Span(b, o)) = 0
        BY <2>3, FS_EmptySet
      <4>2. Cardinality(V) \in Nat
        BY <2>5
      <4> QED
        BY <2>6, <3>1, <4>1, <4>2
  <2>8. free_pages \in Int
    BY <1>3 DEF TypeOK
  <2>9. pages - free_pages' = Cardinality(V) /\ free_pages' \in 0..pages
    BY <1>2, <2>4, <2>5, <2>6, <2>7, <2>8, PoolFacts
  <2> QED
    BY <2>9 DEF V
<1>10. TotalsAreExact'
  BY <1>8, <1>9, UsedIsTotal
<1>11. TypeOK'
  <2>1. waste_list' \subseteq Block
    BY <1>2, <1>3 DEF TypeOK
  <2>2. requested' \in [Block -> 0..MaxRequest]
    BY <1>2, <1>3, PoolAssumption DEF TypeOK
  <2> QED
    BY <1>2, <1>7, <1>8, <1>9, <2>1, <2>2 DEF TypeOK
<1> QED
  BY <1>6, <1>10, <1>11

LEMMA DeallocateKeeps ==
  ASSUME BuddyInv, NEW b \in Block, buddy_deallocate(b)
  PROVE  BuddyInv'
<1>1. PICK o \in Nat, k \in Orders, m \in Block : Gives(b, o, k, m)
  BY DeallocateGives
<1> QED
  BY <1>1, GivesTiles, GivesLists, GivesTotals DEF BuddyInv

LEMMA NextBuddy == BuddyInv /\ [Next]_vars => BuddyInv'
<1> SUFFICES ASSUME BuddyInv, [Next]_vars PROVE BuddyInv'
  OBVIOUS
<1>1. CASE \E n \in 1..MaxRequest : buddy_allocate(n)
  BY <1>1, AllocateKeeps
<1>2. CASE \E b \in Block : buddy_deallocate(b)
  BY <1>2, DeallocateKeeps
<1>3. CASE UNCHANGED vars
  <2>1. /\ free_lists' = free_lists /\ waste_list' = waste_list /\ order' = order
        /\ max_order_free' = max_order_free /\ free_pages' = free_pages /\ requested' = requested
    BY <1>3 DEF vars
  <2>2. Free' = Free /\ Allocated' = Allocated /\ Blocks' = Blocks
    BY <2>1 DEF Free, Allocated, Blocks
  <2>3. (UNION {Covers(b) : b \in Allocated})' = UNION {Covers(b) : b \in Allocated}
    BY <2>1, <2>2 DEF Covers
  <2>4. TypeOK' /\ ListsAreClean' /\ KindsAreApart'
    BY <2>1, <2>2 DEF BuddyInv, TypeOK, ListsAreClean, KindsAreApart
  <2>5. BlocksAreAligned' /\ PagesAreCovered' /\ BlocksAreDisjoint'
    BY <2>1, <2>2 DEF BuddyInv, BlocksAreAligned, PagesAreCovered, BlocksAreDisjoint
  <2>6. FreeIsUsable' /\ AllocatedFits' /\ BuddiesAreMerged'
    BY <2>1, <2>2 DEF BuddyInv, FreeIsUsable, AllocatedFits, BuddiesAreMerged
  <2>7. TotalsAreExact'
    BY <2>1, <2>2, <2>3 DEF BuddyInv, TotalsAreExact
  <2> QED
    BY <2>4, <2>5, <2>6, <2>7 DEF BuddyInv
<1> QED
  BY <1>1, <1>2, <1>3 DEF Next

LEMMA BuddyInvariant == Spec => []BuddyInv
  BY InitBuddy, NextBuddy, PTL DEF Spec

-----------------------------------------------------------------------------
(* No step leaves a descriptor, a list or a total outside its range: what   *)
(* is free never exceeds the pool, nor goes below zero.                     *)
THEOREM TypeCorrect == Spec => []TypeOK
<1>1. BuddyInv => TypeOK
  BY DEF BuddyInv
<1> QED
  BY <1>1, BuddyInvariant, PTL

(* Splitting and merging lose no page and give none away twice.             *)
THEOREM PoolIsTiled == Spec => []BlocksTile
<1>1. ASSUME BuddyInv PROVE BlocksTile
  <2>1. /\ TypeOK /\ ListsAreClean /\ KindsAreApart /\ PagesAreCovered /\ BlocksAreDisjoint
    BY <1>1 DEF BuddyInv
  <2>2. ASSUME NEW p \in Block PROVE Cardinality({b \in Blocks : p \in Covers(b)}) = 1
    <3>1. PICK b \in Blocks : p \in Span(b, order[b])
      BY <2>1 DEF PagesAreCovered
    <3>2. \A c \in Blocks : p \in Covers(c) => c = b
      BY <2>1, <3>1, CoverIsUnique DEF Covers, Span
    <3>3. {c \in Blocks : p \in Covers(c)} = {b}
      BY <3>1, <3>2 DEF Covers, Span
    <3> QED
      BY <3>3, FS_Singleton
  <2> QED
    BY <2>1, <2>2 DEF BlocksTile, ListsAreClean, KindsAreApart
<1> QED
  BY <1>1, BuddyInvariant, PTL

(* Two buddies are never both free: the largest allocation that the pool    *)
(* could give is available.                                                 *)
THEOREM FreeBuddiesAreMerged == Spec => []BuddiesAreMerged
<1>1. BuddyInv => BuddiesAreMerged
  BY DEF BuddyInv
<1> QED
  BY <1>1, BuddyInvariant, PTL

(* The totals that find_pool() decides by do not drift from the lists.      *)
THEOREM PoolTotalsAreExact == Spec => []TotalsAreExact
<1>1. BuddyInv => TotalsAreExact
  BY DEF BuddyInv
<1> QED
  BY <1>1, BuddyInvariant, PTL

-----------------------------------------------------------------------------
(* The allocations, as the users of the pool see them. *)
held == {[first |-> b, pages |-> requested[b]] : b \in Allocated}

(* What is asked for lies in the block that is given.                       *)
LEMMA RequestInBlock ==
  ASSUME TypeOK, AllocatedFits, NEW b \in Allocated
  PROVE  /\ Allocator!Range([first |-> b, pages |-> requested[b]]) \subseteq Span(b, order[b])
         /\ requested[b] \in Nat \ {0} /\ b \in Nat /\ b + requested[b] <= FirstWaste
<1>1. /\ requested[b] \in Nat \ {0} /\ b \in Nat /\ b + requested[b] <= FirstWaste
      /\ order[b] = get_order(requested[b]) /\ order[b] \in Nat
  BY PoolAssumption, PoolFacts DEF TypeOK, Allocated, AllocatedFits, Block, Orders
<1>2. requested[b] <= 2^order[b] /\ 2^order[b] \in Nat
  BY <1>1, OrderProperties, PowerIsNatural
<1>3. Allocator!Range([first |-> b, pages |-> requested[b]]) = b .. b + requested[b] - 1
  BY DEF Allocator!Range
<1> QED
  BY <1>1, <1>2, <1>3 DEF Span

LEMMA AllocateRefines ==
  ASSUME BuddyInv, NEW n \in 1..MaxRequest, buddy_allocate(n)
  PROVE  Allocator!Next
<1>1. PICK o \in Nat, a \in Orders, b \in Block : Takes(n, o, a, b)
  BY AllocateTakes
<1> DEFINE r == [first |-> b, pages |-> n]
<1>2. BuddyInv'
  BY AllocateKeeps
<1>3. /\ TypeOK' /\ AllocatedFits' /\ BlocksAreDisjoint'
      /\ TypeOK /\ AllocatedFits
  BY <1>2 DEF BuddyInv
<1>4. /\ b \notin Allocated /\ Allocated' = Allocated \union {b} /\ b \in Blocks
      /\ \A c \in Blocks \ {b} : order'[c] = order[c]
  BY <1>1, TakesBlocks
<1>5. requested' = [requested EXCEPT ![b] = n]
  BY <1>1 DEF Takes
<1>6. requested'[b] = n /\ \A c \in Allocated : requested'[c] = requested[c]
  BY <1>3, <1>4, <1>5 DEF TypeOK, Allocated
<1>7. /\ b \in Nat /\ n \in Nat \ {0} /\ b + n <= FirstWaste
      /\ order'[b] \in Nat /\ n <= 2^order'[b] /\ 2^order'[b] \in Nat
  <2>1. b \in Allocated' /\ b \in Nat /\ n \in Nat \ {0} /\ order'[b] \in Nat
    BY <1>3, <1>4, PoolAssumption, PoolFacts DEF Block, TypeOK, Orders
  <2>2. order'[b] = get_order(n) /\ b + n <= FirstWaste
    BY <1>3, <1>6, <2>1 DEF AllocatedFits
  <2> QED
    BY <2>1, <2>2, OrderProperties, PowerIsNatural
<1>8. Allocator!Range(r) = b .. b + n - 1
  BY DEF Allocator!Range
<1>9. Allocator!Range(r) \subseteq 0..pages - 1
  BY <1>7, <1>8, PoolFacts
<1>10. \A s \in held : Allocator!Range(r) \intersect Allocator!Range(s) = {}
  <2>1. ASSUME NEW c \in Allocated
        PROVE  Allocator!Range(r) \intersect Allocator!Range([first |-> c, pages |-> requested[c]]) = {}
    <3>1. Allocator!Range(r) \subseteq Span(b, order'[b])
      BY <1>7, <1>8 DEF Span
    <3>2. Allocator!Range([first |-> c, pages |-> requested[c]]) \subseteq Span(c, order[c])
      BY <1>3, RequestInBlock
    <3>3. order'[c] = order[c] /\ c # b
      BY <1>4 DEF Blocks
    <3>4. b \in Blocks' /\ c \in Blocks'
      BY <1>4 DEF Blocks
    <3>5. Span(b, order'[b]) \intersect Span(c, order'[c]) = {}
      BY <1>3, <3>3, <3>4 DEF BlocksAreDisjoint
    <3> QED
      BY <3>1, <3>2, <3>3, <3>5
  <2> QED
    BY <2>1 DEF held
<1>11. held' = held \union {r}
  BY <1>4, <1>6 DEF held
<1>12. Allocator!Allocate(r)
  BY <1>9, <1>10, <1>11 DEF Allocator!Allocate, held
<1>13. b \in 0..pages - 1 /\ n \in 1..pages
  BY <1>7, PoolFacts
<1> QED
  BY <1>12, <1>13 DEF Allocator!Next

LEMMA DeallocateRefines ==
  ASSUME BuddyInv, NEW b \in Block, buddy_deallocate(b)
  PROVE  Allocator!Next
<1>1. PICK o \in Nat, k \in Orders, m \in Block : Gives(b, o, k, m)
  BY DeallocateGives
<1> DEFINE r == [first |-> b, pages |-> requested[b]]
<1>2. TypeOK /\ b \in Allocated /\ requested' = [requested EXCEPT ![b] = 0]
  BY <1>1 DEF BuddyInv, Gives
<1>3. Allocated' = Allocated \ {b}
  BY <1>1, GivesBlocks
<1>4. \A c \in Allocated' : requested'[c] = requested[c]
  BY <1>2, <1>3 DEF TypeOK, Allocated
<1>5. \A c \in Allocated : [first |-> c, pages |-> requested[c]] = r => c = b
  OBVIOUS
<1>6. held' = held \ {r} /\ r \in held
  BY <1>2, <1>3, <1>4, <1>5 DEF held
<1> HIDE DEF r
<1> QED
  BY <1>6 DEF Allocator!Next, Allocator!Deallocate, held

(* The pool gives its users pages that are in the pool and that are nobody  *)
(* else's until they are given back: it implements PageAllocator.           *)
THEOREM Refinement == Spec => ImplementsPageAllocator
<1>1. Init => Allocator!Init
  BY DEF Init, Allocator!Init, Allocated
<1>2. ASSUME BuddyInv, [Next]_vars PROVE [Allocator!Next]_held
  <2>1. CASE \E n \in 1..MaxRequest : buddy_allocate(n)
    BY <1>2, <2>1, AllocateRefines
  <2>2. CASE \E b \in Block : buddy_deallocate(b)
    BY <1>2, <2>2, DeallocateRefines
  <2>3. CASE UNCHANGED vars
    BY <2>3 DEF vars, held, Allocated
  <2> QED
    BY <1>2, <2>1, <2>2, <2>3 DEF Next
<1> QED
  BY <1>1, <1>2, BuddyInvariant, PTL DEF Spec, ImplementsPageAllocator, Allocator!Spec, held
=============================================================================
