------------------------------ MODULE PidTable ------------------------------
(***************************************************************************)
(* The pid ring of task.c: a circular table of free pids, taken from at    *)
(* `head' and given back at `tail'.  Every access is made under            *)
(* pid_table_lock by one of two kernel tasks (Zeus allocates, Hades and    *)
(* Zeus free), so each operation is one step.                              *)
(***************************************************************************)
EXTENDS Integers

CONSTANT MaxPid        \* MAX_PID: the table has NUM_PIDS = MaxPid + 1 slots

ASSUME MaxPidAssumption == MaxPid \in Nat \ {0}

NumPids == MaxPid + 1
Pids    == 1..MaxPid   \* pid 0 is the kernel's and is never handed out
Slots   == 0..MaxPid
NoPid   == -1          \* an empty slot, and pid_allocate()'s failure value

VARIABLES pid_table, head, tail

pid_vars == <<pid_table, head, tail>>

PidTableTypeOK ==
  /\ pid_table \in [Slots -> Pids \union {NoPid}]
  /\ head \in Slots
  /\ tail \in Slots

(* The pids that are waiting in the ring. *)
FreePids == {pid_table[s] : s \in Slots} \ {NoPid}

(* No pid waits in two slots. *)
RingIsInjective ==
  \A s, t \in Slots : pid_table[s] = pid_table[t] /\ pid_table[s] # NoPid => s = t

(* task_init(): slot i holds pid i, then pid 0 is reserved by allocating it. *)
PidTableInit ==
  /\ pid_table = [s \in Slots |-> IF s = 0 THEN NoPid ELSE s]
  /\ head = 1
  /\ tail = MaxPid

(* Variants with a plausible mistake, which the properties must tell from  *)
(* the code: the slot is not emptied; head moves on though nothing was     *)
(* there; tail does not wrap around.                                       *)
pid_allocate_keeps_slot(pid) ==
  /\ pid = pid_table[head]
  /\ head' = IF pid = NoPid THEN head ELSE (head + 1) % NumPids
  /\ UNCHANGED <<pid_table, tail>>

pid_allocate_skips_empty(pid) ==
  /\ pid = pid_table[head]
  /\ pid_table' = [pid_table EXCEPT ![head] = NoPid]
  /\ head' = (head + 1) % NumPids
  /\ UNCHANGED tail

pid_free_no_wrap(pid) ==
  /\ pid_table' = [pid_table EXCEPT ![tail] = pid]
  /\ tail' = tail + 1
  /\ UNCHANGED head

(* pid_allocate() == pid: an empty slot at head is the failure return. *)
pid_allocate(pid) ==
  /\ pid = pid_table[head]
  /\ pid_table' = [pid_table EXCEPT ![head] = NoPid]
  /\ head' = IF pid = NoPid THEN head ELSE (head + 1) % NumPids
  /\ UNCHANGED tail

(* pid_free(pid) writes the slot at tail whatever it still holds. *)
pid_free(pid) ==
  /\ pid_table' = [pid_table EXCEPT ![tail] = pid]
  /\ tail' = (tail + 1) % NumPids
  /\ UNCHANGED head
=============================================================================
