---------------------------- MODULE PidPoolProofs ----------------------------
(***************************************************************************)
(* The pid ring never gives one pid to two tasks, whatever its size and    *)
(* however long the machine runs.  The lemmas about its operations serve   *)
(* the process manager around it as well (TasksProofs).                    *)
(***************************************************************************)
EXTENDS PidPool, FiniteSetTheorems, TLAPS

(* task_init() leaves a well formed ring in which no pid occurs twice. *)
LEMMA PidTableInitLemma ==
  ASSUME PidTableInit
  PROVE  PidTableTypeOK /\ RingIsInjective /\ FreePids = Pids
<1>1. MaxPid \in Nat /\ MaxPid >= 1
  BY MaxPidAssumption
<1>2. PidTableTypeOK
  BY <1>1 DEF PidTableInit, PidTableTypeOK, Slots, Pids, NoPid
<1>3. RingIsInjective
  BY <1>1 DEF PidTableInit, RingIsInjective, Slots, NoPid
<1>4. FreePids \subseteq Pids
  BY <1>1 DEF PidTableInit, FreePids, Slots, Pids, NoPid
<1>5. ASSUME NEW p \in Pids PROVE p \in FreePids
  <2>1. p \in Slots /\ p # 0 /\ p # NoPid
    BY <1>1 DEF Slots, Pids, NoPid
  <2>2. pid_table[p] = p
    BY <2>1 DEF PidTableInit
  <2> QED
    BY <2>1, <2>2 DEF FreePids
<1> QED
  BY <1>2, <1>3, <1>4, <1>5

(* The next slot is a slot again. *)
LEMMA NextSlot ==
  ASSUME NEW s \in Slots
  PROVE  (s + 1) % NumPids \in Slots
BY MaxPidAssumption DEF Slots, NumPids

(* Both operations keep the ring well formed. *)
LEMMA AllocateTypeOK ==
  ASSUME PidTableTypeOK, NEW pid, pid_allocate(pid)
  PROVE  PidTableTypeOK' /\ pid \in Pids \union {NoPid}
<1>1. head \in Slots /\ tail \in Slots /\ pid = pid_table[head]
  BY DEF PidTableTypeOK, pid_allocate
<1>2. pid_table' = [pid_table EXCEPT ![head] = NoPid] /\ tail' = tail
  BY DEF pid_allocate
<1>3. head' \in Slots
  BY <1>1, NextSlot DEF pid_allocate
<1> QED
  BY <1>1, <1>2, <1>3 DEF PidTableTypeOK

LEMMA FreeTypeOK ==
  ASSUME PidTableTypeOK, NEW pid \in Pids, pid_free(pid)
  PROVE  PidTableTypeOK'
<1>1. tail \in Slots /\ tail' \in Slots
  BY NextSlot DEF PidTableTypeOK, pid_free
<1> QED
  BY <1>1 DEF PidTableTypeOK, pid_free

(* pid_allocate() removes what it returns from the ring, and nothing else. *)
LEMMA AllocateLemma ==
  ASSUME PidTableTypeOK, RingIsInjective, NEW pid, pid_allocate(pid)
  PROVE  /\ PidTableTypeOK'
         /\ RingIsInjective'
         /\ pid \in FreePids \union {NoPid}
         /\ FreePids' = FreePids \ {pid}
<1>1. head \in Slots /\ tail \in Slots /\ pid = pid_table[head]
  BY DEF PidTableTypeOK, pid_allocate
<1>2. pid_table' = [pid_table EXCEPT ![head] = NoPid] /\ tail' = tail
  BY DEF pid_allocate
<1>3. \A s \in Slots : pid_table'[s] = IF s = head THEN NoPid ELSE pid_table[s]
  BY <1>2 DEF PidTableTypeOK
<1>4. PidTableTypeOK'
  BY AllocateTypeOK
<1>5. RingIsInjective'
  BY <1>3 DEF RingIsInjective
<1>6. pid \in FreePids \union {NoPid}
  BY <1>1 DEF FreePids
<1>7. FreePids' = FreePids \ {pid}
  <2>1. ASSUME NEW q \in FreePids' PROVE q \in FreePids /\ q # pid
    <3>1. PICK s \in Slots : q = pid_table'[s] /\ q # NoPid
      BY <2>1 DEF FreePids
    <3>2. s # head /\ q = pid_table[s]
      BY <3>1, <1>3
    <3> QED
      BY <3>1, <3>2, <1>1 DEF FreePids, RingIsInjective
  <2>2. ASSUME NEW q \in FreePids, q # pid PROVE q \in FreePids'
    <3>1. PICK s \in Slots : q = pid_table[s] /\ q # NoPid
      BY <2>2 DEF FreePids
    <3>2. s # head
      BY <3>1, <2>2, <1>1
    <3>3. q = pid_table'[s]
      BY <3>1, <3>2, <1>3
    <3> QED
      BY <3>1, <3>3 DEF FreePids
  <2> QED
    BY <2>1, <2>2
<1> QED
  BY <1>4, <1>5, <1>6, <1>7

(* pid_free() adds a pid that was not in the ring; the pid that the slot at *)
(* tail still holds is lost.                                                *)
LEMMA FreeLemma ==
  ASSUME PidTableTypeOK, RingIsInjective, NEW pid \in Pids \ FreePids, pid_free(pid)
  PROVE  /\ PidTableTypeOK'
         /\ RingIsInjective'
         /\ FreePids' = (FreePids \ {pid_table[tail]}) \union {pid}
<1>1. tail \in Slots /\ pid # NoPid
  BY MaxPidAssumption DEF PidTableTypeOK, Pids, NoPid
<1>2. pid_table' = [pid_table EXCEPT ![tail] = pid] /\ head' = head
  BY DEF pid_free
<1>3. \A s \in Slots : pid_table'[s] = IF s = tail THEN pid ELSE pid_table[s]
  BY <1>2 DEF PidTableTypeOK
<1>4. \A s \in Slots : pid_table[s] # pid
  BY <1>1 DEF FreePids
<1>5. PidTableTypeOK'
  BY FreeTypeOK
<1>6. RingIsInjective'
  BY <1>3, <1>4 DEF RingIsInjective
<1>7. FreePids' = (FreePids \ {pid_table[tail]}) \union {pid}
  <2>1. ASSUME NEW q \in FreePids', q # pid PROVE q \in FreePids /\ q # pid_table[tail]
    <3>1. PICK s \in Slots : q = pid_table'[s] /\ q # NoPid
      BY <2>1 DEF FreePids
    <3>2. s # tail /\ q = pid_table[s]
      BY <3>1, <2>1, <1>3
    <3> QED
      BY <3>1, <3>2, <1>1 DEF FreePids, RingIsInjective
  <2>2. ASSUME NEW q \in FreePids, q # pid_table[tail] PROVE q \in FreePids'
    <3>1. PICK s \in Slots : q = pid_table[s] /\ q # NoPid
      BY <2>2 DEF FreePids
    <3>2. s # tail
      BY <3>1, <2>2
    <3>3. q = pid_table'[s]
      BY <3>1, <3>2, <1>3
    <3> QED
      BY <3>1, <3>3 DEF FreePids
  <2>3. pid \in FreePids'
    BY <1>1, <1>3 DEF FreePids
  <2> QED
    BY <2>1, <2>2, <2>3
<1> QED
  BY <1>5, <1>6, <1>7

-----------------------------------------------------------------------------
(* The shape of the ring.  task_init() leaves tail at the last slot, which  *)
(* is full.  The ring is whole until pid_free() overwrites that slot, and   *)
(* is shrunk from then on: the full slots are those from head up to tail.   *)
Occupied(s) == pid_table[s] # NoPid

Whole ==
  \/ /\ head <= tail
     /\ \A s \in Slots : Occupied(s) <=> (head <= s /\ s < tail) \/ s = MaxPid
  \/ /\ head = 0 /\ tail = MaxPid
     /\ \A s \in Slots : ~Occupied(s)

Shrunk ==
  \A s \in Slots :
    Occupied(s) <=> IF head <= tail THEN head <= s /\ s < tail ELSE head <= s \/ s < tail

LEMMA InitWhole == PidTableInit => Whole
BY MaxPidAssumption DEF PidTableInit, Whole, Occupied, Slots, NoPid

(* There is one slot more than there are pids. *)
LEMMA RingHasAHole ==
  ASSUME PidTableTypeOK, RingIsInjective
  PROVE  \E s \in Slots : ~Occupied(s)
<1> SUFFICES ASSUME \A s \in Slots : Occupied(s) PROVE FALSE
  OBVIOUS
<1>1. MaxPid \in Nat
  BY MaxPidAssumption
<1>2. pid_table \in [Slots -> Pids]
  BY DEF PidTableTypeOK, Occupied
<1>3. /\ IsFiniteSet(Slots) /\ Cardinality(Slots) = MaxPid + 1
      /\ IsFiniteSet(Pids) /\ Cardinality(Pids) = MaxPid
  BY <1>1, FS_Interval, MaxPidAssumption DEF Slots, Pids
<1>4. \E s, t \in Slots : s # t /\ pid_table[s] = pid_table[t]
  BY <1>1, <1>2, <1>3, FS_PigeonHole
<1> QED
  BY <1>4 DEF RingIsInjective, Occupied

LEMMA NextSlotIs ==
  ASSUME NEW s \in Slots
  PROVE  (s + 1) % NumPids = IF s = MaxPid THEN 0 ELSE s + 1
<1>1. MaxPid \in Nat /\ s \in 0..MaxPid
  BY MaxPidAssumption DEF Slots
<1>2. CASE s = MaxPid
  BY <1>1, <1>2 DEF NumPids
<1>3. CASE s # MaxPid
  BY <1>1, <1>3 DEF NumPids
<1> QED
  BY <1>2, <1>3

(* Taking a pid keeps the shape. *)
LEMMA AllocateShape ==
  ASSUME PidTableTypeOK, NEW pid, pid_allocate(pid)
  PROVE  (Whole => Whole') /\ (Shrunk => Shrunk')
<1>1. MaxPid \in Nat \ {0} /\ head \in 0..MaxPid /\ tail \in 0..MaxPid
  BY MaxPidAssumption DEF PidTableTypeOK, Slots
<1>2. tail' = tail /\ \A s \in Slots : Occupied(s)' <=> Occupied(s) /\ s # head
  BY DEF pid_allocate, Occupied, PidTableTypeOK
<1>3. CASE pid = NoPid
  <2>1. head' = head /\ ~Occupied(head)
    BY <1>3 DEF pid_allocate, Occupied
  <2>2. \A s \in Slots : Occupied(s)' <=> Occupied(s)
    BY <1>2, <2>1
  <2> QED
    BY <1>2, <2>1, <2>2 DEF Whole, Shrunk
<1>4. CASE pid # NoPid
  <2>1. /\ Occupied(head) /\ head \in Slots
        /\ head' = IF head = MaxPid THEN 0 ELSE head + 1
    BY <1>1, <1>4, NextSlotIs DEF pid_allocate, Occupied, Slots
  <2>2. ASSUME Whole PROVE Whole'
    <3>1. head <= tail /\ \A s \in Slots : Occupied(s) <=> (head <= s /\ s < tail) \/ s = MaxPid
      BY <2>1, <2>2 DEF Whole
    <3>2. CASE head = MaxPid
      BY <1>1, <1>2, <2>1, <3>1, <3>2 DEF Whole, Slots
    <3>3. CASE head # MaxPid
      BY <1>1, <1>2, <2>1, <3>1, <3>3 DEF Whole, Slots
    <3> QED
      BY <3>2, <3>3
  <2>3. ASSUME Shrunk PROVE Shrunk'
    BY <1>1, <1>2, <2>1, <2>3 DEF Shrunk, Slots
  <2> QED
    BY <2>2, <2>3
<1> QED
  BY <1>3, <1>4

(* Giving a pid back overwrites another one at most once: in a whole ring, *)
(* which is shrunk from then on.                                            *)
LEMMA FreeShape ==
  ASSUME PidTableTypeOK, RingIsInjective, NEW pid \in Pids \ FreePids, pid_free(pid)
  PROVE  /\ Whole  => Shrunk' \/ (Whole' /\ ~Occupied(tail))
         /\ Shrunk => Shrunk' /\ ~Occupied(tail)
<1>1. /\ MaxPid \in Nat \ {0} /\ head \in 0..MaxPid /\ tail \in 0..MaxPid
      /\ pid # NoPid /\ tail \in Slots
  BY MaxPidAssumption DEF PidTableTypeOK, Slots, Pids, NoPid
<1>2. head' = head /\ tail' = IF tail = MaxPid THEN 0 ELSE tail + 1
  BY <1>1, NextSlotIs DEF pid_free
<1>3. \A s \in Slots : Occupied(s)' <=> Occupied(s) \/ s = tail
  BY <1>1 DEF pid_free, Occupied, PidTableTypeOK
<1>4. \E s \in Slots : ~Occupied(s)'
  <2>1. PidTableTypeOK' /\ RingIsInjective'
    BY FreeLemma
  <2>2. PidTableTypeOK' /\ RingIsInjective' => (\E s \in Slots : ~Occupied(s))'
    BY RingHasAHole, PTL
  <2> QED
    BY <2>1, <2>2
<1>5. ASSUME Whole PROVE Shrunk' \/ (Whole' /\ ~Occupied(tail))
  <2>1. CASE head = 0 /\ tail = MaxPid /\ \A s \in Slots : ~Occupied(s)
    BY <1>1, <1>2, <1>3, <2>1 DEF Whole, Slots
  <2>2. CASE head <= tail /\ \A s \in Slots : Occupied(s) <=> (head <= s /\ s < tail) \/ s = MaxPid
    <3>1. CASE tail # MaxPid
      BY <1>1, <1>2, <1>3, <2>2, <3>1 DEF Whole, Slots
    <3>2. CASE tail = MaxPid
      <4>1. head # 0
        BY <1>1, <1>3, <1>4, <2>2, <3>2 DEF Slots
      <4> QED
        BY <1>1, <1>2, <1>3, <2>2, <3>2, <4>1 DEF Shrunk, Slots
    <3> QED
      BY <3>1, <3>2
  <2> QED
    BY <1>5, <2>1, <2>2 DEF Whole
<1>6. ASSUME Shrunk PROVE Shrunk' /\ ~Occupied(tail)
  <2>1. ~Occupied(tail)
    BY <1>1, <1>6 DEF Shrunk, Slots
  <2>2. head # tail'
    BY <1>1, <1>2, <1>3, <1>4, <1>6 DEF Shrunk, Slots
  <2>3. Shrunk'
    BY <1>1, <1>2, <1>3, <1>6, <2>2 DEF Shrunk, Slots
  <2> QED
    BY <2>1, <2>3
<1> QED
  BY <1>5, <1>6

-----------------------------------------------------------------------------
IInv == TypeOK /\ PidsAreExclusive

LEMMA InitExclusive == Init => IInv
<1> SUFFICES ASSUME Init PROVE IInv
  OBVIOUS
<1>1. PidTableTypeOK /\ RingIsInjective
  BY PidTableInitLemma DEF Init
<1> QED
  BY <1>1 DEF Init, IInv, TypeOK, PidsAreExclusive

LEMMA NextExclusive == IInv /\ [Next]_pool_vars => IInv'
<1> SUFFICES ASSUME IInv, [Next]_pool_vars PROVE IInv'
  OBVIOUS
<1> USE DEF IInv, TypeOK, PidsAreExclusive
<1>1. CASE Allocate
  <2>1. PICK pid \in Pids \union {NoPid} :
          pid_allocate(pid) /\ held' = held \union ({pid} \ {NoPid})
    BY <1>1 DEF Allocate
  <2>2. /\ PidTableTypeOK' /\ RingIsInjective'
        /\ FreePids' = FreePids \ {pid}
    BY <2>1, AllocateLemma
  <2> QED
    BY <2>1, <2>2
<1>2. ASSUME NEW pid \in held, Free(pid) PROVE IInv'
  <2>1. pid \in Pids \ FreePids
    BY <1>2
  <2>2. /\ PidTableTypeOK' /\ RingIsInjective'
        /\ FreePids' = (FreePids \ {pid_table[tail]}) \union {pid}
    BY <1>2, <2>1, FreeLemma DEF Free
  <2> QED
    BY <1>2, <2>2 DEF Free
<1>3. CASE UNCHANGED pool_vars
  BY <1>3 DEF pool_vars, PidTableTypeOK, RingIsInjective, FreePids
<1> QED
  BY <1>1, <1>2, <1>3 DEF Next

(* The ring is well formed, and a pid that a task holds is neither in the  *)
(* ring nor twice in it: pid_allocate() never returns a pid in use.        *)
THEOREM PoolExclusive == Spec => [](TypeOK /\ PidsAreExclusive)
<1>1. IInv => TypeOK /\ PidsAreExclusive
  BY DEF IInv
<1> QED
  BY InitExclusive, NextExclusive, <1>1, PTL DEF Spec

(* head and tail stay inside the table and every slot holds a pid or the   *)
(* empty mark, whatever tail overwrites.                                   *)
THEOREM TypeCorrect == Spec => []TypeOK
<1> QED
  BY PoolExclusive, PTL

-----------------------------------------------------------------------------
(* No pid is lost as long as the ring is whole. *)
LossInv ==
  \/ Whole /\ Lost = {}
  \/ Shrunk /\ \A p, q \in Lost : p = q

PoolInv == IInv /\ LossInv

LEMMA InitLoss == Init => LossInv
BY PidTableInitLemma, InitWhole DEF Init, LossInv, Lost

(* A step takes a pid, finds the ring empty, or gives a pid back, and a pid *)
(* is lost by that only while all others are in use or in the ring.         *)
LEMMA PoolStep ==
  ASSUME PoolInv, [Next]_pool_vars
  PROVE  /\ LossInv'
         /\ \/ UNCHANGED <<held, FreePids>>
            \/ \E pid \in Pids : \/ Allocator!Take(pid)
                                 \/ Allocator!Give(pid)
                                 \/ Allocator!GiveAndLose(pid)
<1> USE DEF PoolInv, IInv, TypeOK, PidsAreExclusive
<1>0. FreePids \subseteq Pids
  BY DEF PidTableTypeOK, FreePids
<1>1. CASE Allocate
  <2>1. PICK pid \in Pids \union {NoPid} :
          pid_allocate(pid) /\ held' = held \union ({pid} \ {NoPid})
    BY <1>1 DEF Allocate
  <2>2. /\ pid \in FreePids \union {NoPid} /\ FreePids' = FreePids \ {pid}
        /\ NoPid \notin FreePids
    BY <2>1, AllocateLemma DEF FreePids
  <2>3. Lost' = Lost
    BY <2>1, <2>2 DEF Lost
  <2>4. LossInv'
    BY <2>1, <2>3, AllocateShape DEF LossInv
  <2>5. CASE pid = NoPid
    BY <2>1, <2>2, <2>4, <2>5
  <2>6. CASE pid # NoPid
    <3>1. pid \in Pids /\ Allocator!Take(pid)
      BY <2>1, <2>2, <2>6 DEF Allocator!Take
    <3> QED
      BY <2>4, <3>1
  <2> QED
    BY <2>5, <2>6
<1>2. ASSUME NEW pid \in held, Free(pid)
      PROVE  LossInv' /\ (Allocator!Give(pid) \/ Allocator!GiveAndLose(pid))
  <2>1. pid \in Pids \ FreePids /\ pid_free(pid) /\ held' = held \ {pid}
    BY <1>2 DEF Free
  <2>2. FreePids' = (FreePids \ {pid_table[tail]}) \union {pid}
    BY <2>1, FreeLemma
  <2>3. CASE ~Occupied(tail)
    <3>1. FreePids' = FreePids \union {pid}
      BY <2>2, <2>3 DEF Occupied, FreePids
    <3>2. Lost' = Lost
      BY <2>1, <3>1 DEF Lost
    <3>3. LossInv'
      BY <2>1, <3>2, FreeShape DEF LossInv
    <3> QED
      BY <1>2, <2>1, <3>1, <3>3 DEF Allocator!Give
  <2>4. CASE Occupied(tail)
    <3>1. pid_table[tail] \in FreePids
      BY <2>4 DEF Occupied, FreePids, PidTableTypeOK
    <3>2. Whole /\ Lost = {} /\ Shrunk'
      BY <2>1, <2>4, FreeShape DEF LossInv
    <3>3. held \union FreePids = Pids
      BY <1>0, <3>2 DEF Lost
    <3>4. Lost' = {pid_table[tail]}
      BY <1>0, <2>1, <2>2, <3>1, <3>3 DEF Lost
    <3> QED
      BY <1>2, <2>1, <2>2, <3>1, <3>2, <3>3, <3>4 DEF LossInv, Allocator!GiveAndLose
  <2> QED
    BY <2>3, <2>4
<1>3. CASE UNCHANGED pool_vars
  <2>1. UNCHANGED <<held, FreePids, Lost>> /\ Whole' = Whole /\ Shrunk' = Shrunk
    BY <1>3 DEF pool_vars, FreePids, Lost, Whole, Shrunk, Occupied
  <2> QED
    BY <2>1 DEF LossInv
<1> QED
  BY <1>1, <1>2, <1>3 DEF Next

LEMMA PoolInvariant == Spec => []PoolInv
<1>1. Init => PoolInv
  BY InitExclusive, InitLoss DEF PoolInv
<1>2. PoolInv /\ [Next]_pool_vars => PoolInv'
  BY NextExclusive, PoolStep DEF PoolInv
<1> QED
  BY <1>1, <1>2, PTL DEF Spec

(* Of all the pids at most one ever drops out of circulation, however long *)
(* the machine runs.                                                       *)
THEOREM OneLost == Spec => []AtMostOnePidLost
<1>1. PoolInv => AtMostOnePidLost
  <2> SUFFICES ASSUME PoolInv PROVE Cardinality(Lost) <= 1
    BY DEF AtMostOnePidLost
  <2>1. CASE Lost = {}
    BY <2>1, FS_EmptySet
  <2>2. CASE Lost # {}
    <3>1. PICK p : Lost = {p}
      BY <2>2 DEF PoolInv, LossInv
    <3> QED
      BY <3>1, FS_Singleton
  <2> QED
    BY <2>1, <2>2
<1> QED
  BY PoolInvariant, <1>1, PTL

(* pid_allocate() fails only when all pids, or all but the lost one, are in *)
(* use.                                                                     *)
THEOREM ExhaustedWhenFull == Spec => []ExhaustedOnlyWhenFull
<1>1. PoolInv => ExhaustedOnlyWhenFull
  <2> SUFFICES ASSUME PoolInv, pid_table[head] = NoPid
               PROVE  Cardinality(held) >= MaxPid - 1
    BY DEF ExhaustedOnlyWhenFull
  <2> USE DEF PoolInv, IInv, TypeOK, PidTableTypeOK
  <2>1. MaxPid \in Nat \ {0} /\ head \in 0..MaxPid /\ tail \in 0..MaxPid /\ ~Occupied(head)
    BY MaxPidAssumption DEF Slots, Occupied
  <2>2. /\ IsFiniteSet(Pids) /\ Cardinality(Pids) = MaxPid
        /\ IsFiniteSet(held) /\ Cardinality(held) \in Nat
    <3>1. IsFiniteSet(Pids) /\ Cardinality(Pids) = MaxPid
      BY <2>1, FS_Interval DEF Pids
    <3>2. IsFiniteSet(held)
      BY <3>1, FS_Subset
    <3> QED
      BY <3>1, <3>2, FS_CardinalityType
  <2>3. PICK p : Pids \ {p} \subseteq held
    <3>1. CASE Shrunk /\ \A p, q \in Lost : p = q
      <4>1. \A s \in Slots : ~Occupied(s)
        BY <2>1, <3>1 DEF Shrunk, Slots
      <4>2. Pids \ held = Lost
        BY <4>1 DEF Lost, FreePids, Occupied
      <4> QED
        BY <3>1, <4>2
    <3>2. CASE Whole /\ Lost = {}
      <4>1. \A s \in Slots : Occupied(s) => s = MaxPid
        BY <2>1, <3>2 DEF Whole, Slots
      <4>2. Pids \ held \subseteq {pid_table[MaxPid]}
        BY <3>2, <4>1 DEF Lost, FreePids, Occupied
      <4> QED
        BY <4>2
    <3> QED
      BY <3>1, <3>2 DEF LossInv
  <2>4. Cardinality(Pids \ {p}) >= MaxPid - 1 /\ IsFiniteSet(Pids \ {p})
    <3>1. /\ IsFiniteSet(Pids \ {p})
          /\ Cardinality(Pids \ {p}) = IF p \in Pids THEN MaxPid - 1 ELSE MaxPid
      BY <2>2, FS_RemoveElement
    <3> QED
      BY <2>1, <3>1
  <2>5. Cardinality(Pids \ {p}) \in Nat /\ Cardinality(Pids \ {p}) <= Cardinality(held)
    BY <2>2, <2>3, <2>4, FS_Subset, FS_CardinalityType
  <2> QED
    BY <2>1, <2>2, <2>4, <2>5
<1> QED
  BY PoolInvariant, <1>1, PTL

(* The ring keeps the promises of PidAllocator, whatever its size. *)
THEOREM PoolImplements == Spec => ImplementsAllocator
<1>1. Init => Allocator!Init
  BY PidTableInitLemma DEF Init, Allocator!Init
<1>2. PoolInv /\ [Next]_pool_vars => [Allocator!Next]_<<held, FreePids>>
  BY PoolStep DEF Allocator!Next
<1> QED
  BY PoolInvariant, <1>1, <1>2, PTL DEF Spec, ImplementsAllocator, Allocator!Spec
=============================================================================
