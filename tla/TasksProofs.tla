----------------------------- MODULE TasksProofs -----------------------------
(***************************************************************************)
(* Invariants of the process manager for every number of pids, queue       *)
(* length and workload.                                                    *)
(***************************************************************************)
EXTENDS Tasks, FiniteSetTheorems, SequenceTheorems, WellFoundedInduction, TLAPS

-----------------------------------------------------------------------------
(* The operations of the pid ring, as in PidPoolProofs.  The pids that are  *)
(* held play no part in them.                                               *)
Ring == INSTANCE PidPoolProofs WITH held <- {}

Occupied(s) == pid_table[s] # NoPid
Whole       == Ring!Whole
Shrunk      == Ring!Shrunk

LEMMA SameRing ==
  /\ PidTableTypeOK = Ring!PidTableTypeOK /\ PidTableInit = Ring!PidTableInit
  /\ RingIsInjective = Ring!RingIsInjective /\ FreePids = Ring!FreePids
  /\ Pids = Ring!Pids /\ NoPid = Ring!NoPid
  /\ \A pid : pid_allocate(pid) = Ring!pid_allocate(pid) /\ pid_free(pid) = Ring!pid_free(pid)
BY DEF PidTableTypeOK, Ring!PidTableTypeOK, PidTableInit, Ring!PidTableInit,
       RingIsInjective, Ring!RingIsInjective, FreePids, Ring!FreePids,
       Pids, Ring!Pids, NoPid, Ring!NoPid, Slots, Ring!Slots, NumPids, Ring!NumPids,
       pid_allocate, Ring!pid_allocate, pid_free, Ring!pid_free

LEMMA SameRingNext ==
  /\ PidTableTypeOK' = Ring!PidTableTypeOK'
  /\ RingIsInjective' = Ring!RingIsInjective' /\ FreePids' = Ring!FreePids'
BY DEF PidTableTypeOK, Ring!PidTableTypeOK, RingIsInjective, Ring!RingIsInjective,
       FreePids, Ring!FreePids, Pids, Ring!Pids, NoPid, Ring!NoPid, Slots, Ring!Slots

LEMMA PidTableInitLemma ==
  ASSUME PidTableInit
  PROVE  PidTableTypeOK /\ RingIsInjective /\ FreePids = Pids
BY MaxPidAssumption, SameRing, Ring!PidTableInitLemma

LEMMA InitWhole == PidTableInit => Whole
BY MaxPidAssumption, SameRing, Ring!InitWhole DEF Whole

LEMMA AllocateTypeOK ==
  ASSUME PidTableTypeOK, NEW pid, pid_allocate(pid)
  PROVE  PidTableTypeOK' /\ pid \in Pids \union {NoPid}
BY MaxPidAssumption, SameRing, SameRingNext, Ring!AllocateTypeOK

LEMMA FreeTypeOK ==
  ASSUME PidTableTypeOK, NEW pid \in Pids, pid_free(pid)
  PROVE  PidTableTypeOK'
BY MaxPidAssumption, SameRing, SameRingNext, Ring!FreeTypeOK

LEMMA AllocateLemma ==
  ASSUME PidTableTypeOK, RingIsInjective, NEW pid, pid_allocate(pid)
  PROVE  /\ PidTableTypeOK'
         /\ RingIsInjective'
         /\ pid \in FreePids \union {NoPid}
         /\ FreePids' = FreePids \ {pid}
BY MaxPidAssumption, SameRing, SameRingNext, Ring!AllocateLemma

LEMMA FreeLemma ==
  ASSUME PidTableTypeOK, RingIsInjective, NEW pid \in Pids \ FreePids, pid_free(pid)
  PROVE  /\ PidTableTypeOK'
         /\ RingIsInjective'
         /\ FreePids' = (FreePids \ {pid_table[tail]}) \union {pid}
BY MaxPidAssumption, SameRing, SameRingNext, Ring!FreeLemma

LEMMA AllocateShape ==
  ASSUME PidTableTypeOK, NEW pid, pid_allocate(pid)
  PROVE  (Whole => Whole') /\ (Shrunk => Shrunk')
BY MaxPidAssumption, SameRing, Ring!AllocateShape DEF Whole, Shrunk

LEMMA FreeShape ==
  ASSUME PidTableTypeOK, RingIsInjective, NEW pid \in Pids \ FreePids, pid_free(pid)
  PROVE  /\ Whole  => Shrunk' \/ (Whole' /\ ~Occupied(tail))
         /\ Shrunk => Shrunk' /\ ~Occupied(tail)
BY MaxPidAssumption, SameRing, Ring!FreeShape DEF Whole, Shrunk, Occupied, Ring!Occupied

-----------------------------------------------------------------------------
(* Zeus and Hades hold a pid wherever their code uses one as an index. *)
ZeusHasPid  == zeus \in {"build", "create", "enlist", "tag", "fail", "destroy"} => zeus_pid \in Pids
HadesHasPid == hades \in {"unlist", "destroy", "notify", "kill", "hook"} => dead_pid \in Pids

TypeInv == TypeOK /\ ZeusHasPid /\ HadesHasPid

LEMMA KernelIsCaller ==
  /\ 0 \in Callers /\ Kernel \in Callers /\ Pids \subseteq Callers
  /\ NoInfo \in TaskInfo /\ NoCommand \in Command
BY DEF Callers, Kernel, NoInfo, TaskInfo, TaskType, NoCommand, Command

LEMMA InitTypeInv == Init => TypeInv
<1> SUFFICES ASSUME Init PROVE TypeInv
  OBVIOUS
<1>1. PidTableTypeOK
  BY PidTableInitLemma DEF Init
<1>2. TableTypeOK
  BY Zenon DEF Init, TableTypeOK
<1>7. ThreadTypeOK
  BY SMT DEF Init, ThreadTypeOK
<1>3. InfoTypeOK /\ TcbTypeOK
  BY KernelIsCaller DEF Init, InfoTypeOK, TcbTypeOK, TcbState
<1>4. AppTypeOK
  BY KernelIsCaller, TasksAssumption DEF Init, AppTypeOK
<1>5. ZeusTypeOK
  BY KernelIsCaller DEF Init, ZeusTypeOK, ZeusState
<1>6. HadesTypeOK
  BY KernelIsCaller DEF Init, HadesTypeOK, HadesState
<1> QED
  BY <1>1, <1>2, <1>3, <1>4, <1>5, <1>6, <1>7
  DEF Init, TypeInv, TypeOK, ZeusHasPid, HadesHasPid

(* After a panic the system is in an initial state. *)
LEMMA PanicIsInit == Panic => Init'
BY DEF Panic, Init, PidTableInit

LEMMA PanicTypeInv == Panic => TypeInv'
<1>1. Init' => TypeInv'
  BY InitTypeInv, PTL
<1> QED
  BY <1>1, PanicIsInit

-----------------------------------------------------------------------------
(* Marking dangling pointers keeps the commands well formed. *)
LEMMA GoneTypeOK ==
  ASSUME NEW c \in Command, NEW p
  PROVE  InfoFreed(c, p) \in Command /\ TcbFreed(c, p) \in Command
BY DEF InfoFreed, TcbFreed, Command

LEMMA InfoDeleteTypeOK ==
  ASSUME InfoTypeOK, ZeusTypeOK, NEW p \in Pids, task_info_delete(p),
         zeus' = zeus, zeus_pid' = zeus_pid
  PROVE  InfoTypeOK' /\ ZeusTypeOK'
<1>1. InfoTypeOK'
  BY KernelIsCaller DEF InfoTypeOK, task_info_delete
<1>2. zeus_queue' \in Seq(Command) /\ command' \in Command
  BY GoneTypeOK DEF ZeusTypeOK, task_info_delete
<1> QED
  BY <1>1, <1>2 DEF ZeusTypeOK

LEMMA NewInfoTypeOK ==
  ASSUME InfoTypeOK, command.type \in TaskType, NEW q \in Callers,
         NEW s \in Struct \union {NoThread}, NewInfo(q, s)
  PROVE  task_info' \in [Pids -> TaskInfo]
<1>1. [type |-> command.type, parent |-> q, thread |-> s] \in TaskInfo
  BY DEF TaskInfo
<1> QED
  BY <1>1 DEF InfoTypeOK, NewInfo

LEMMA DeletionHookTypeOK ==
  ASSUME TcbTypeOK, AppTypeOK, ZeusTypeOK, HadesTypeOK, NEW p \in Pids,
         vTaskPreDeletionHook(p), zeus' = zeus, zeus_pid' = zeus_pid
  PROVE  TcbTypeOK' /\ AppTypeOK' /\ ZeusTypeOK' /\ hades_queue' \in Seq(Pids)
<1>1. TcbTypeOK'
  BY DEF TcbTypeOK, TcbState, vTaskPreDeletionHook
<1>2. AppTypeOK'
  BY KernelIsCaller DEF AppTypeOK, vTaskPreDeletionHook
<1>3. zeus_queue' \in Seq(Command) /\ command' \in Command
  BY GoneTypeOK DEF ZeusTypeOK, vTaskPreDeletionHook
<1>4. hades_queue' \in Seq(Pids)
  BY DEF HadesTypeOK, vTaskPreDeletionHook
<1> QED
  BY <1>1, <1>2, <1>3, <1>4 DEF ZeusTypeOK

LEMMA ZeusTypeInv == TypeInv /\ Zeus => TypeInv'
<1> SUFFICES ASSUME TypeInv, Zeus PROVE TypeInv'
  OBVIOUS
<1> USE DEF TypeInv, TypeOK, ZeusHasPid, HadesHasPid, pid_vars, table_vars,
            thread_vars, info_vars, tcb_vars, app_vars, zeus_vars, hades_vars,
            PidTableTypeOK, TableTypeOK, ThreadTypeOK, InfoTypeOK, TcbTypeOK,
            AppTypeOK, HadesTypeOK
<1>0. command \in Command /\ command.type \in TaskType /\ command.parent \in Callers
  BY DEF ZeusTypeOK, Command
<1>1. CASE ZeusReceive
  <2>1. PICK pid \in Pids \union {NoPid} :
          pid_allocate(pid) /\ zeus_pid' = pid
          /\ zeus' = (IF pid = NoPid THEN "reply" ELSE "build")
    BY <1>1 DEF ZeusReceive
  <2>2. PidTableTypeOK'
    BY <2>1, AllocateTypeOK
  <2>3. zeus_queue' \in Seq(Command) /\ command' \in Command
    BY <1>1, KernelIsCaller DEF ZeusReceive, ZeusRuns, ZeusTypeOK
  <2>4. ZeusTypeOK' /\ ZeusHasPid'
    BY <2>1, <2>3, KernelIsCaller DEF ZeusTypeOK, ZeusState
  <2> QED
    BY <1>1, <2>2, <2>4 DEF ZeusReceive
<1>2. CASE ZeusNoMemory
  BY <1>2 DEF ZeusNoMemory, ZeusBuilds, ZeusTypeOK, ZeusState
<1>3. CASE ZeusBuildProcess
  <2>1. zeus_pid \in Pids /\ zeus_pid \in Callers
    BY <1>3, KernelIsCaller DEF ZeusBuildProcess, ZeusBuilds
  <2>2. PICK s \in Thread \ allocated :
          /\ allocated' = allocated \union {s}
          /\ refcount' = [refcount EXCEPT ![s] = 1]
          /\ \E q \in Callers : NewInfo(q, s)
    BY <1>3, <1>0, <2>1 DEF ZeusBuildProcess
  <2>3. ThreadTypeOK'
    BY <2>2 DEF Struct
  <2>4. task_info' \in [Pids -> TaskInfo]
    BY <1>0, <2>2, NewInfoTypeOK DEF Struct
  <2> QED
    BY <1>3, <2>1, <2>3, <2>4 DEF ZeusBuildProcess, ZeusBuilds, ZeusTypeOK, ZeusState
<1>4. CASE ZeusBuildThread
  <2> DEFINE s == IF command.parent = Kernel THEN KernelThread
                                             ELSE task_info[command.parent].thread
  <2>1. zeus_pid \in Pids
    BY <1>4 DEF ZeusBuildThread, ZeusBuilds
  <2>2. s \in Struct \union {NoThread}
    BY <1>0 DEF TaskInfo, Struct, Callers
  <2>3. ThreadTypeOK'
    BY <1>4, <2>2 DEF ZeusBuildThread
  <2>4. task_info' \in [Pids -> TaskInfo]
    BY <1>4, <1>0, <2>2, NewInfoTypeOK DEF ZeusBuildThread
  <2>5. ZeusTypeOK' /\ ZeusHasPid'
    BY <1>4, <2>1 DEF ZeusBuildThread, ZeusBuilds, ZeusTypeOK, ZeusState
  <2> QED
    BY <1>4, <2>3, <2>4, <2>5 DEF ZeusBuildThread, ZeusBuilds
<1>5. CASE ZeusBuildThreadOfFreedParent
  BY <1>5, PanicTypeInv
  DEF ZeusBuildThreadOfFreedParent, ZeusBuilds, ZeusTypeOK, ZeusState
<1>6. CASE ZeusCreateTask
  BY <1>6 DEF ZeusCreateTask, ZeusTypeOK, ZeusState, TcbState
<1>7. CASE process_table_add_task
  BY <1>7 DEF process_table_add_task, ZeusTypeOK, ZeusState
<1>8. CASE ZeusTag
  BY <1>8, PanicTypeInv DEF ZeusTag, ZeusTypeOK, ZeusState
<1>9. CASE ZeusFail
  <2>1. zeus_pid \in Pids
    BY <1>9 DEF ZeusFail
  <2>2. PidTableTypeOK'
    BY <1>9, <2>1, FreeTypeOK DEF ZeusFail
  <2>3. ThreadTypeOK'
    <3>1. PICK s : s = task_info[zeus_pid].thread
      OBVIOUS
    <3>2. s \in Struct \union {NoThread}
      BY <2>1, <3>1 DEF TaskInfo
    <3>3. \/ refcount' = refcount
          \/ s # NoThread /\ refcount' = [refcount EXCEPT ![s] = refcount[s] - 1]
      BY <1>9, <3>1 DEF ZeusFail, Dropped
    <3>4. refcount' \in [Struct -> Int]
      BY <3>2, <3>3
    <3>5. allocated' \subseteq Thread
      BY <1>9 DEF ZeusFail
    <3> QED
      BY <3>4, <3>5
  <2>4. task_info' \in [Pids -> TaskInfo]
    BY <1>9, KernelIsCaller DEF ZeusFail
  <2> QED
    BY <1>9, <2>2, <2>3, <2>4 DEF ZeusFail, ZeusTypeOK, ZeusState
<1>10. CASE ZeusDestroy
  <2>1. task_info' \in [Pids -> TaskInfo]
    BY <1>10, KernelIsCaller DEF ZeusDestroy
  <2> QED
    BY <1>10, <2>1 DEF ZeusDestroy, ZeusTypeOK, ZeusState
<1>13. CASE ZeusDestroysTwice
  BY <1>13, PanicTypeInv DEF ZeusDestroysTwice
<1>11. CASE ZeusReply
  <2>1. AppTypeOK'
    BY <1>11 DEF ZeusReply, ZeusTypeOK
  <2>2. ZeusTypeOK' /\ ZeusHasPid'
    BY <1>11, KernelIsCaller DEF ZeusReply, ZeusTypeOK, ZeusState
  <2> QED
    BY <1>11, <2>1, <2>2 DEF ZeusReply
<1>12. CASE ZeusWake
  BY <1>12 DEF ZeusWake, ZeusTypeOK, ZeusState
<1> QED
  BY <1>1, <1>2, <1>3, <1>4, <1>5, <1>6, <1>7, <1>8, <1>9, <1>10, <1>11, <1>12, <1>13
  DEF Zeus

LEMMA HadesTypeInv == TypeInv /\ Hades => TypeInv'
<1> SUFFICES ASSUME TypeInv, Hades PROVE TypeInv'
  OBVIOUS
<1> USE DEF TypeInv, TypeOK, ZeusHasPid, HadesHasPid, pid_vars, table_vars,
            thread_vars, info_vars, tcb_vars, app_vars, zeus_vars, hades_vars,
            PidTableTypeOK, TableTypeOK, ThreadTypeOK
<1>1. CASE HadesReceive
  <2>1. Head(hades_queue) \in Pids /\ hades_queue' \in Seq(Pids)
    BY <1>1 DEF HadesReceive, HadesTypeOK
  <2>2. task_info[Head(hades_queue)].parent \in Callers
    BY <2>1 DEF InfoTypeOK, TaskInfo
  <2>3. HadesTypeOK' /\ HadesHasPid'
    BY <1>1, <2>1, <2>2, KernelIsCaller DEF HadesReceive, HadesTypeOK, HadesState
  <2> QED
    BY <1>1, <2>3
    DEF HadesReceive, InfoTypeOK, TcbTypeOK, AppTypeOK, ZeusTypeOK
<1>2. CASE HadesUnlist
  <2>1. dead_pid \in Pids
    BY <1>2 DEF HadesUnlist
  <2>2. InfoTypeOK' /\ ZeusTypeOK'
    BY <1>2, <2>1, InfoDeleteTypeOK DEF HadesUnlist, InfoTypeOK, ZeusTypeOK
  <2>3. TableTypeOK'
    BY <1>2, Zenon DEF HadesUnlist, process_table_remove_task
  <2>5. ThreadTypeOK'
    <3>1. PICK s : refcount' = [refcount EXCEPT ![s] = @ - 1] /\ allocated' = allocated
      BY <1>2, Zenon DEF HadesUnlist, Dropped
    <3>2. refcount' \in [Struct -> Int]
      <4>1. CASE s \in Struct
        BY <3>1, <4>1
      <4>2. CASE s \notin Struct
        <5>1. refcount' = refcount
          BY <3>1, <4>2
        <5> QED
          BY <5>1
      <4> QED
        BY <4>1, <4>2
    <3> QED
      BY <3>1, <3>2
  <2>4. HadesTypeOK' /\ HadesHasPid'
    BY <1>2, <2>1 DEF HadesUnlist, HadesTypeOK, HadesState
  <2> QED
    BY <1>2, <2>2, <2>3, <2>4, <2>5 DEF HadesUnlist, TcbTypeOK, AppTypeOK
<1>3. CASE HadesDestroy
  <2>1. dead_pid \in Pids
    BY <1>3 DEF HadesDestroy
  <2>2. InfoTypeOK' /\ ZeusTypeOK'
    BY <1>3, <2>1, InfoDeleteTypeOK DEF HadesDestroy
  <2>3. HadesTypeOK' /\ HadesHasPid'
    BY <1>3, <2>1 DEF HadesDestroy, HadesTypeOK, HadesState
  <2> QED
    BY <1>3, <2>2, <2>3 DEF HadesDestroy, TcbTypeOK, AppTypeOK
<1>4. CASE HadesDestroysTwice
  BY <1>4, PanicTypeInv DEF HadesDestroysTwice
<1>5. CASE HadesNotify
  <2>1. dead_pid \in Pids
    BY <1>5 DEF HadesNotify
  <2>2. InfoTypeOK'
    BY <1>5, <2>1 DEF HadesNotify, InfoTypeOK, HadesTypeOK
  <2>3. HadesTypeOK' /\ HadesHasPid'
    BY <1>5, <2>1 DEF HadesNotify, LeftBehind, HadesTypeOK, HadesState
  <2> QED
    BY <1>5, <2>2, <2>3 DEF HadesNotify, TcbTypeOK, AppTypeOK, ZeusTypeOK
<1>6. CASE HadesKill
  BY <1>6 DEF HadesKill, InfoTypeOK, TcbTypeOK, TcbState, AppTypeOK, ZeusTypeOK,
              HadesTypeOK, HadesState
<1>7. CASE HadesKillsTheDead
  BY <1>7, PanicTypeInv
  DEF HadesKillsTheDead, InfoTypeOK, TcbTypeOK, TcbState, AppTypeOK, ZeusTypeOK,
      HadesTypeOK, HadesState
<1>8. CASE HadesHook
  <2>1. PICK p \in Pids : vTaskPreDeletionHook(p)
    BY <1>8 DEF HadesHook
  <2>2. TcbTypeOK' /\ AppTypeOK' /\ ZeusTypeOK' /\ hades_queue' \in Seq(Pids)
    BY <1>8, <2>1, DeletionHookTypeOK DEF HadesHook
  <2>3. HadesTypeOK' /\ HadesHasPid'
    BY <1>8, <2>2 DEF HadesHook, HadesTypeOK, HadesState
  <2> QED
    BY <1>8, <2>2, <2>3 DEF HadesHook, InfoTypeOK
<1>9. CASE HadesFreePid
  <2>1. PidTableTypeOK'
    BY <1>9, FreeTypeOK DEF HadesFreePid
  <2>2. HadesTypeOK' /\ HadesHasPid'
    BY <1>9, KernelIsCaller DEF HadesFreePid, HadesTypeOK, HadesState
  <2> QED
    BY <1>9, <2>1, <2>2
    DEF HadesFreePid, InfoTypeOK, TcbTypeOK, AppTypeOK, ZeusTypeOK
<1>10. CASE HadesWake
  BY <1>10 DEF HadesWake, InfoTypeOK, TcbTypeOK, AppTypeOK, ZeusTypeOK,
               HadesTypeOK, HadesState
<1> QED
  BY <1>1, <1>2, <1>3, <1>4, <1>5, <1>6, <1>7, <1>8, <1>9, <1>10 DEF Hades

LEMMA DeletionTypeInv == TypeInv /\ Deletion => TypeInv'
<1> SUFFICES ASSUME TypeInv, NEW p \in Pids,
                    IdleReap(p) \/ CompositorClose(p) \/ DeleteTcb(p)
             PROVE  TypeInv'
  BY DEF Deletion
<1> USE DEF TypeInv, TypeOK, ZeusHasPid, HadesHasPid, pid_vars, table_vars,
            thread_vars, info_vars, app_vars, zeus_vars, hades_vars,
            PidTableTypeOK, TableTypeOK, ThreadTypeOK, InfoTypeOK
<1>1. CASE IdleReap(p)
  BY <1>1 DEF IdleReap, TcbTypeOK, TcbState, AppTypeOK, ZeusTypeOK, HadesTypeOK
<1>2. CASE CompositorClose(p)
  BY <1>2 DEF CompositorClose, TcbTypeOK, TcbState, AppTypeOK, ZeusTypeOK, HadesTypeOK
<1>3. CASE DeleteTcb(p)
  <2>1. TcbTypeOK' /\ AppTypeOK' /\ ZeusTypeOK' /\ hades_queue' \in Seq(Pids)
    BY <1>3, DeletionHookTypeOK DEF DeleteTcb
  <2> QED
    BY <1>3, <2>1 DEF DeleteTcb, HadesTypeOK
<1> QED
  BY <1>1, <1>2, <1>3

(* What the applications and the supervisor do. *)
LEMMA CallTypeInv ==
  ASSUME TypeInv, NEW p \in Callers,
         (\E type \in TaskType : Request(p, type)) \/ Answer(p) \/ Wait(p)
  PROVE  TypeInv'
<1> USE DEF TypeInv, TypeOK, ZeusHasPid, HadesHasPid, pid_vars, table_vars,
            thread_vars, info_vars, tcb_vars, app_vars, zeus_vars, hades_vars,
            PidTableTypeOK, TableTypeOK, ThreadTypeOK, TcbTypeOK, HadesTypeOK
<1>1. InfoOf(p) \in Callers
  BY KernelIsCaller DEF InfoOf
<1>2. ASSUME NEW type \in TaskType, Request(p, type) PROVE TypeInv'
  <2> DEFINE c == [NoCommand EXCEPT !.caller = p, !.parent = InfoOf(p), !.type = type]
  <2>1. c \in Command
    BY <1>1, KernelIsCaller DEF Command
  <2>2. zeus_queue' = <<c>>
    BY <1>2 DEF Request
  <2>3. zeus_queue' \in Seq(Command)
    <3> HIDE DEF c
    <3> QED
      BY <2>1, <2>2
  <2>4. requests' \in 0..MaxRequests
    <3>1. MaxRequests \in Nat
      BY Zenon, TasksAssumption
    <3>2. requests \in 0..MaxRequests
      BY DEF AppTypeOK
    <3>3. requests < MaxRequests /\ requests' = requests + 1
      BY <1>2 DEF Request
    <3> QED
      BY <3>1, <3>2, <3>3
  <2>5. AppTypeOK'
    BY <1>2, <2>4 DEF Request, AppTypeOK
  <2> QED
    BY <1>2, <2>3, <2>5 DEF Request, ZeusTypeOK, InfoTypeOK
<1>3. CASE Answer(p)
  BY <1>3, KernelIsCaller DEF Answer, AppTypeOK, ZeusTypeOK, InfoTypeOK
<1>4. CASE Wait(p)
  <2>1. children' \in [Callers -> Seq(Pids)]
    BY <1>1, <1>4 DEF Wait, InfoTypeOK
  <2> QED
    BY <1>4, <2>1 DEF Wait, AppTypeOK, ZeusTypeOK, InfoTypeOK
<1> QED
  BY <1>2, <1>3, <1>4

LEMMA NextTypeInv == TypeInv /\ [Next]_vars => TypeInv'
<1> SUFFICES ASSUME TypeInv, [Next]_vars PROVE TypeInv'
  OBVIOUS
<1>1. CASE Zeus
  BY <1>1, ZeusTypeInv
<1>2. CASE Hades
  BY <1>2, HadesTypeInv
<1>3. CASE Deletion
  BY <1>3, DeletionTypeInv
<1> USE DEF TypeInv, TypeOK, ZeusHasPid, HadesHasPid, pid_vars, table_vars,
            thread_vars, info_vars, tcb_vars, app_vars, zeus_vars, hades_vars,
            PidTableTypeOK, TableTypeOK, ThreadTypeOK, InfoTypeOK, TcbTypeOK,
            AppTypeOK, ZeusTypeOK, HadesTypeOK
<1>4. ASSUME NEW p \in Pids, App(p) PROVE TypeInv'
  <2>1. CASE Exit(p)
    BY <2>1 DEF Exit, TcbState
  <2> QED
    BY <1>4, <2>1, CallTypeInv, KernelIsCaller DEF App
<1>5. CASE Supervisor
  <2>1. CASE task_application_is_running
    BY <2>1, Zenon DEF task_application_is_running
  <2> QED
    BY <1>5, <2>1, CallTypeInv, KernelIsCaller DEF Supervisor, TaskType
<1>6. CASE UNCHANGED vars
  BY <1>6 DEF vars
<1> QED
  BY <1>1, <1>2, <1>3, <1>4, <1>5, <1>6 DEF Next

(* Type correctness, and Zeus and Hades never use as a pid what is not one. *)
THEOREM TypeCorrect == Spec => []TypeOK
<1>1. TypeInv => TypeOK
  BY DEF TypeInv
<1> QED
  BY InitTypeInv, NextTypeInv, <1>1, PTL DEF Spec

-----------------------------------------------------------------------------
(* Exclusive pids and deaths that are reported once.  The two need each     *)
(* other: Hades may take a pid out of the table only because every death it *)
(* hears of is of a task still listed there, and a death is of a listed     *)
(* task because a pid that Zeus starts a task under is nobody else's.       *)

(* A task whose deletion hook will report it is alive and listed. *)
TaggedAreListed ==
  /\ \A p \in tagged : tcb[p] # "freed" /\ p \in process_table
  /\ zeus = "tag" /\ tcb[zeus_pid] # "freed" => zeus_pid \in process_table

SafeInv == TypeInv /\ PidsAreExclusive /\ DeathsAreReportedOnce /\ TaggedAreListed

LEMMA InitSafeInv == Init => SafeInv
<1> SUFFICES ASSUME Init PROVE SafeInv
  OBVIOUS
<1>1. RingIsInjective
  BY PidTableInitLemma DEF Init
<1>2. PidsAreExclusive
  BY <1>1 DEF Init, PidsAreExclusive, ZeusHolds, HadesHolds
<1>3. DeathsAreReportedOnce /\ TaggedAreListed
  BY DEF Init, DeathsAreReportedOnce, TaggedAreListed
<1> QED
  BY InitTypeInv, <1>2, <1>3 DEF SafeInv

LEMMA PanicSafeInv == Panic => SafeInv'
<1>1. Init' => SafeInv'
  BY InitSafeInv, PTL
<1> QED
  BY <1>1, PanicIsInit

(* Steps in which nobody gets a pid. *)
LEMMA ExclusiveFrame ==
  ASSUME PidsAreExclusive, UNCHANGED pid_vars, process_table' = process_table,
         ZeusHolds' \subseteq ZeusHolds, HadesHolds' \subseteq HadesHolds
  PROVE  PidsAreExclusive'
BY DEF PidsAreExclusive, pid_vars, RingIsInjective, FreePids

(* Steps in which no TCB comes or goes and no death moves. *)
LEMMA DeathsFrame ==
  ASSUME TypeInv, DeathsAreReportedOnce, TaggedAreListed,
         hades_queue' = hades_queue, process_table' = process_table,
         tagged' = tagged,
         \A p \in Pids : tcb'[p] = "freed" <=> tcb[p] = "freed",
         hades' = "unlist" => hades = "unlist" /\ dead_pid' = dead_pid,
         zeus' = "tag" => zeus = "tag" /\ zeus_pid' = zeus_pid
  PROVE  DeathsAreReportedOnce' /\ TaggedAreListed'
<1>1. \A i \in DOMAIN hades_queue : hades_queue[i] \in Pids
  BY DEF TypeInv, TypeOK, HadesTypeOK
<1>2. hades = "unlist" => dead_pid \in Pids
  BY DEF TypeInv, HadesHasPid
<1>3. zeus = "tag" => zeus_pid \in Pids
  BY DEF TypeInv, ZeusHasPid
<1>4. DeathsAreReportedOnce'
  BY <1>1, <1>2 DEF DeathsAreReportedOnce
<1>5. TaggedAreListed'
  BY <1>3 DEF TaggedAreListed, TypeInv, TypeOK, TcbTypeOK
<1> QED
  BY <1>4, <1>5

(* The deletion hook reports a tagged task, which then has no TCB. *)
LEMMA DeletionHookDeaths ==
  ASSUME TypeInv, DeathsAreReportedOnce, TaggedAreListed,
         NEW p \in Pids, tcb[p] # "freed", vTaskPreDeletionHook(p),
         process_table' = process_table,
         hades' = "unlist" => hades = "unlist" /\ dead_pid' = dead_pid,
         zeus' = "tag" => zeus = "tag" /\ zeus_pid' = zeus_pid
  PROVE  DeathsAreReportedOnce' /\ TaggedAreListed'
<1>1. /\ tcb \in [Pids -> TcbState] /\ hades_queue \in Seq(Pids)
      /\ tagged \subseteq Pids
  BY DEF TypeInv, TypeOK, TcbTypeOK, HadesTypeOK
<1>2. \A q \in Pids : tcb'[q] = IF q = p THEN "freed" ELSE tcb[q]
  BY <1>1 DEF vTaskPreDeletionHook
<1>3. tagged' = tagged \ {p}
  BY DEF vTaskPreDeletionHook
<1>4. TaggedAreListed'
  <2>1. zeus = "tag" => zeus_pid \in Pids
    BY DEF TypeInv, ZeusHasPid
  <2> QED
    BY <1>1, <1>2, <1>3, <2>1 DEF TaggedAreListed
<1>5. \A i \in DOMAIN hades_queue :
        /\ hades_queue[i] \in Pids /\ hades_queue[i] # p
        /\ hades_queue[i] \in process_table /\ tcb'[hades_queue[i]] = "freed"
  BY <1>1, <1>2 DEF DeathsAreReportedOnce
<1>6. hades' = "unlist" => /\ dead_pid' \in process_table /\ dead_pid' # p
                           /\ tcb'[dead_pid'] = "freed"
  BY <1>2 DEF DeathsAreReportedOnce, TypeInv, HadesHasPid
<1>7. CASE hades_queue' = hades_queue
  BY <1>4, <1>5, <1>6, <1>7 DEF DeathsAreReportedOnce
<1>8. CASE p \in tagged /\ hades_queue' = Append(hades_queue, p)
  <2>1. p \in process_table /\ tcb'[p] = "freed"
    BY <1>2, <1>8 DEF TaggedAreListed
  <2>2. /\ DOMAIN hades_queue' = DOMAIN hades_queue \union {Len(hades_queue) + 1}
        /\ hades_queue'[Len(hades_queue) + 1] = p
        /\ \A i \in DOMAIN hades_queue : hades_queue'[i] = hades_queue[i]
    BY <1>1, <1>8
  <2>3. DeathsAreReportedOnce'
    BY <1>5, <1>6, <2>1, <2>2 DEF DeathsAreReportedOnce
  <2> QED
    BY <1>4, <2>3
<1> QED
  BY <1>7, <1>8 DEF vTaskPreDeletionHook

LEMMA ZeusSafeInv == SafeInv /\ Zeus => SafeInv'
<1> SUFFICES ASSUME SafeInv, Zeus PROVE SafeInv'
  OBVIOUS
<1>0. TypeInv'
  BY ZeusTypeInv DEF SafeInv
<1> USE DEF SafeInv, pid_vars, table_vars, tcb_vars, hades_vars
<1>1. CASE ZeusReceive
  <2>1. PICK pid \in Pids \union {NoPid} :
          pid_allocate(pid) /\ zeus_pid' = pid
          /\ zeus' = (IF pid = NoPid THEN "reply" ELSE "build")
    BY <1>1 DEF ZeusReceive
  <2>2. RingIsInjective' /\ pid \in FreePids \union {NoPid} /\ FreePids' = FreePids \ {pid}
    BY <2>1, AllocateLemma DEF TypeInv, TypeOK, PidsAreExclusive
  <2>3. ZeusHolds' \subseteq {pid} \ {NoPid} /\ HadesHolds' = HadesHolds
        /\ process_table' = process_table
    BY <1>1, <2>1 DEF ZeusReceive, ZeusHolds, HadesHolds
  <2>4. PidsAreExclusive'
    BY <2>2, <2>3 DEF PidsAreExclusive
  <2>5. DeathsAreReportedOnce' /\ TaggedAreListed'
    BY <1>1, <2>1, DeathsFrame DEF ZeusReceive
  <2> QED
    BY <1>0, <2>4, <2>5
<1>2. CASE ZeusBuilds("create") \/ ZeusBuilds("fail")
  <2>1. ZeusHolds' = ZeusHolds /\ HadesHolds' = HadesHolds
    BY <1>2 DEF ZeusBuilds, ZeusHolds, HadesHolds
  <2>2. PidsAreExclusive'
    BY <1>2, <2>1, ExclusiveFrame DEF ZeusBuilds
  <2>3. DeathsAreReportedOnce' /\ TaggedAreListed'
    BY <1>2, DeathsFrame DEF ZeusBuilds
  <2> QED
    BY <1>0, <2>2, <2>3
<1>3. CASE Panic
  BY <1>3, PanicSafeInv
<1>4. CASE ZeusCreateTask
  <2>1. ZeusHolds' = ZeusHolds /\ HadesHolds' = HadesHolds /\ zeus_pid \in ZeusHolds
    BY <1>4 DEF ZeusCreateTask, ZeusHolds, HadesHolds
  <2>2. PidsAreExclusive'
    BY <1>4, <2>1, ExclusiveFrame DEF ZeusCreateTask
  <2>3. zeus_pid \notin process_table
    BY <2>1 DEF PidsAreExclusive
  <2>4. \A p \in Pids \ {zeus_pid} : tcb'[p] = tcb[p]
    BY <1>4 DEF ZeusCreateTask, TypeInv, TypeOK, TcbTypeOK
  <2>5. process_table \subseteq Pids
    BY DEF TypeInv, TypeOK, TableTypeOK
  <2>6. DeathsAreReportedOnce'
    BY <1>4, <2>3, <2>4, <2>5 DEF ZeusCreateTask, DeathsAreReportedOnce
  <2>7. TaggedAreListed'
    BY <1>4, <2>3, <2>4, <2>5 DEF ZeusCreateTask, TaggedAreListed
  <2> QED
    BY <1>0, <2>2, <2>6, <2>7
<1>5. CASE process_table_add_task
  <2>1. ZeusHolds = {zeus_pid} /\ ZeusHolds' = {} /\ HadesHolds' = HadesHolds
    BY <1>5 DEF process_table_add_task, ZeusHolds, HadesHolds
  <2>2. RingIsInjective' /\ FreePids' = FreePids
    BY <1>5 DEF process_table_add_task, PidsAreExclusive, RingIsInjective, FreePids
  <2>3. PidsAreExclusive'
    BY <1>5, <2>1, <2>2 DEF process_table_add_task, PidsAreExclusive
  <2>4. DeathsAreReportedOnce' /\ TaggedAreListed'
    BY <1>5 DEF process_table_add_task, DeathsAreReportedOnce, TaggedAreListed
  <2> QED
    BY <1>0, <2>3, <2>4
<1>6. CASE ZeusTag /\ ~Panic
  <2>1. ZeusHolds' = {} /\ HadesHolds' = HadesHolds
    BY <1>6 DEF ZeusTag, ZeusHolds, HadesHolds
  <2>2. PidsAreExclusive'
    BY <1>6, <2>1, ExclusiveFrame DEF ZeusTag
  <2>3. DeathsAreReportedOnce'
    BY <1>6 DEF ZeusTag, DeathsAreReportedOnce
  <2>4. TaggedAreListed'
    BY <1>6 DEF ZeusTag, TaggedAreListed, TypeInv, ZeusHasPid
  <2> QED
    BY <1>0, <2>2, <2>3, <2>4
<1>7. CASE ZeusFail
  <2>1. ZeusHolds = {zeus_pid} /\ ZeusHolds' = {} /\ HadesHolds' = HadesHolds
    BY <1>7 DEF ZeusFail, ZeusHolds, HadesHolds
  <2>2. zeus_pid \in Pids \ FreePids
    BY <1>7, <2>1 DEF ZeusFail, TypeInv, ZeusHasPid, PidsAreExclusive
  <2>3. RingIsInjective' /\ FreePids' \subseteq FreePids \union {zeus_pid}
    BY <1>7, <2>2, FreeLemma DEF ZeusFail, TypeInv, TypeOK, PidsAreExclusive
  <2>4. PidsAreExclusive'
    BY <1>7, <2>1, <2>3 DEF ZeusFail, PidsAreExclusive
  <2>5. DeathsAreReportedOnce' /\ TaggedAreListed'
    BY <1>7, DeathsFrame DEF ZeusFail
  <2> QED
    BY <1>0, <2>4, <2>5
<1>8. CASE ZeusDestroy \/ ZeusReply \/ ZeusWake
  <2>1. ZeusHolds' = {} /\ HadesHolds' = HadesHolds
    BY <1>8 DEF ZeusDestroy, ZeusReply, ZeusWake, ZeusHolds, HadesHolds
  <2>2. PidsAreExclusive'
    BY <1>8, <2>1, ExclusiveFrame DEF ZeusDestroy, ZeusReply, ZeusWake
  <2>3. DeathsAreReportedOnce' /\ TaggedAreListed'
    BY <1>8, DeathsFrame DEF ZeusDestroy, ZeusReply, ZeusWake
  <2> QED
    BY <1>0, <2>2, <2>3
<1> QED
  BY <1>1, <1>2, <1>3, <1>4, <1>5, <1>6, <1>7, <1>8
  DEF Zeus, ZeusNoMemory, ZeusBuildProcess, ZeusBuildThread,
      ZeusBuildThreadOfFreedParent, ZeusDestroysTwice

LEMMA HadesSafeInv == SafeInv /\ Hades => SafeInv'
<1> SUFFICES ASSUME SafeInv, Hades PROVE SafeInv'
  OBVIOUS
<1>0. TypeInv'
  BY HadesTypeInv DEF SafeInv
<1> USE DEF SafeInv, pid_vars, table_vars, tcb_vars, zeus_vars
<1>1. CASE HadesReceive
  <2>1. ZeusHolds' = ZeusHolds /\ HadesHolds' = {} /\ HadesHolds = {}
    BY <1>1 DEF HadesReceive, ZeusHolds, HadesHolds
  <2>2. PidsAreExclusive'
    BY <1>1, <2>1, ExclusiveFrame DEF HadesReceive
  <2>3. TaggedAreListed'
    BY <1>1 DEF HadesReceive, TaggedAreListed
  <2>4. hades_queue \in Seq(Pids) /\ hades_queue # <<>>
    BY <1>1 DEF HadesReceive, TypeInv, TypeOK, HadesTypeOK
  <2>5. /\ Head(hades_queue) = hades_queue[1] /\ 1 \in DOMAIN hades_queue
        /\ \A i \in DOMAIN Tail(hades_queue) :
             /\ i + 1 \in DOMAIN hades_queue /\ i + 1 # 1
             /\ Tail(hades_queue)[i] = hades_queue[i + 1]
    BY <2>4
  <2>6. hades_queue' = Tail(hades_queue) /\ process_table' = process_table /\ tcb' = tcb
    BY <1>1 DEF HadesReceive
  <2>7. \A i \in DOMAIN hades_queue' :
          /\ hades_queue'[i] \in process_table'
          /\ tcb'[hades_queue'[i]] = "freed"
          /\ hades_queue'[i] # hades_queue[1]
    BY <2>5, <2>6 DEF DeathsAreReportedOnce
  <2>8. \A i, j \in DOMAIN hades_queue' : hades_queue'[i] = hades_queue'[j] => i = j
    <3> SUFFICES ASSUME NEW i \in DOMAIN Tail(hades_queue), NEW j \in DOMAIN Tail(hades_queue),
                        Tail(hades_queue)[i] = Tail(hades_queue)[j]
                 PROVE  i = j
      BY <2>6
    <3>1. i + 1 = j + 1
      BY <2>5 DEF DeathsAreReportedOnce
    <3> QED
      BY <2>4, <3>1
  <2>9. hades' = "unlist" /\ dead_pid' = hades_queue[1]
    BY <1>1, <2>5 DEF HadesReceive, DeathsAreReportedOnce
  <2>10. DeathsAreReportedOnce'
    BY <2>5, <2>6, <2>7, <2>8, <2>9 DEF DeathsAreReportedOnce
  <2> QED
    BY <1>0, <2>2, <2>3, <2>10
<1>2. CASE HadesUnlist
  <2>1. /\ dead_pid \in process_table /\ tcb[dead_pid] = "freed"
        /\ \A i \in DOMAIN hades_queue : hades_queue[i] # dead_pid
    BY <1>2 DEF HadesUnlist, DeathsAreReportedOnce
  <2>2. process_table' = process_table \ {dead_pid} /\ hades' # "unlist"
    BY <1>2 DEF HadesUnlist, process_table_remove_task
  <2>3. ZeusHolds' = ZeusHolds /\ HadesHolds' = {dead_pid}
    BY <1>2 DEF HadesUnlist, ZeusHolds, HadesHolds
  <2>4. RingIsInjective' /\ FreePids' = FreePids
    BY <1>2 DEF HadesUnlist, PidsAreExclusive, RingIsInjective, FreePids
  <2>5. PidsAreExclusive'
    BY <2>1, <2>2, <2>3, <2>4 DEF PidsAreExclusive
  <2>6. DeathsAreReportedOnce'
    BY <1>2, <2>1, <2>2 DEF HadesUnlist, DeathsAreReportedOnce
  <2>7. TaggedAreListed'
    BY <1>2, <2>1, <2>2 DEF HadesUnlist, TaggedAreListed
  <2> QED
    BY <1>0, <2>5, <2>6, <2>7
<1>3. CASE Panic
  BY <1>3, PanicSafeInv
<1>4. CASE HadesDestroy \/ HadesNotify
  <2>1. ZeusHolds' = ZeusHolds /\ HadesHolds' = HadesHolds
    BY <1>4 DEF HadesDestroy, HadesNotify, ZeusHolds, HadesHolds
  <2>2. PidsAreExclusive'
    BY <1>4, <2>1, ExclusiveFrame DEF HadesDestroy, HadesNotify
  <2>3. DeathsAreReportedOnce' /\ TaggedAreListed'
    BY <1>4, DeathsFrame DEF HadesDestroy, HadesNotify
  <2> QED
    BY <1>0, <2>2, <2>3
<1>5. CASE (HadesKill \/ HadesKillsTheDead) /\ ~Panic
  <2>1. /\ ZeusHolds' = ZeusHolds /\ HadesHolds' = HadesHolds /\ hades' = "hook"
        /\ process_table' = process_table
    BY <1>5 DEF HadesKill, HadesKillsTheDead, ZeusHolds, HadesHolds
  <2>2. PidsAreExclusive'
    BY <1>5, <2>1, ExclusiveFrame DEF HadesKill, HadesKillsTheDead
  <2>3. PICK q : tcb[q] # "freed" /\ tcb' = [tcb EXCEPT ![q] = "killing"]
    BY <1>5 DEF HadesKill, HadesKillsTheDead, Ready
  <2>4. \A p \in Pids : tcb'[p] = "freed" <=> tcb[p] = "freed"
    BY <2>3 DEF TypeInv, TypeOK, TcbTypeOK
  <2>5. DeathsAreReportedOnce' /\ TaggedAreListed'
    BY <1>5, <2>1, <2>4, DeathsFrame DEF HadesKill, HadesKillsTheDead
  <2> QED
    BY <1>0, <2>2, <2>5
<1>6. CASE HadesHook
  <2>1. /\ ZeusHolds' = ZeusHolds /\ HadesHolds' = HadesHolds /\ hades' = "kill"
        /\ process_table' = process_table
    BY <1>6 DEF HadesHook, ZeusHolds, HadesHolds
  <2>2. PidsAreExclusive'
    BY <1>6, <2>1, ExclusiveFrame DEF HadesHook
  <2>3. DeathsAreReportedOnce' /\ TaggedAreListed'
    BY <1>6, <2>1, DeletionHookDeaths DEF HadesHook
  <2> QED
    BY <1>0, <2>2, <2>3
<1>7. CASE HadesFreePid
  <2>1. ZeusHolds' = ZeusHolds /\ HadesHolds = {dead_pid} /\ HadesHolds' = {}
    BY <1>7 DEF HadesFreePid, ZeusHolds, HadesHolds
  <2>2. dead_pid \in Pids \ FreePids
    BY <1>7, <2>1 DEF HadesFreePid, TypeInv, HadesHasPid, PidsAreExclusive
  <2>3. RingIsInjective' /\ FreePids' \subseteq FreePids \union {dead_pid}
    BY <1>7, <2>2, FreeLemma DEF HadesFreePid, TypeInv, TypeOK, PidsAreExclusive
  <2>4. PidsAreExclusive'
    BY <1>7, <2>1, <2>3 DEF HadesFreePid, PidsAreExclusive
  <2>5. DeathsAreReportedOnce' /\ TaggedAreListed'
    BY <1>7, DeathsFrame DEF HadesFreePid
  <2> QED
    BY <1>0, <2>4, <2>5
<1>8. CASE HadesWake
  <2>1. ZeusHolds' = ZeusHolds /\ HadesHolds' = {}
    BY <1>8 DEF HadesWake, ZeusHolds, HadesHolds
  <2>2. PidsAreExclusive'
    BY <1>8, <2>1, ExclusiveFrame DEF HadesWake
  <2>3. DeathsAreReportedOnce' /\ TaggedAreListed'
    BY <1>8, DeathsFrame DEF HadesWake
  <2> QED
    BY <1>0, <2>2, <2>3
<1> QED
  BY <1>1, <1>2, <1>3, <1>4, <1>5, <1>6, <1>7, <1>8 DEF Hades, HadesDestroysTwice

LEMMA OthersSafeInv ==
  SafeInv /\ (Deletion \/ (\E p \in Pids : App(p)) \/ Supervisor \/ UNCHANGED vars)
    => SafeInv'
<1> SUFFICES ASSUME SafeInv,
                    Deletion \/ (\E p \in Pids : App(p)) \/ Supervisor \/ UNCHANGED vars
             PROVE  SafeInv'
  OBVIOUS
<1>0. TypeInv'
  BY NextTypeInv DEF SafeInv, Next
<1> USE DEF SafeInv, pid_vars, table_vars
<1>1. PidsAreExclusive'
  <2>1. /\ pid_vars' = pid_vars /\ process_table' = process_table
        /\ zeus' = zeus /\ zeus_pid' = zeus_pid /\ hades' = hades /\ dead_pid' = dead_pid
    BY DEF Deletion, IdleReap, CompositorClose, DeleteTcb, App, Supervisor,
           task_application_is_running, Request, Answer, Wait, Exit, vars,
           zeus_vars, hades_vars
  <2>2. ZeusHolds' = ZeusHolds /\ HadesHolds' = HadesHolds
    BY <2>1 DEF ZeusHolds, HadesHolds
  <2> QED
    BY <2>1, <2>2, ExclusiveFrame
<1>2. CASE \E p \in Pids : DeleteTcb(p)
  <2>1. PICK p \in Pids : DeleteTcb(p)
    BY <1>2
  <2>2. DeathsAreReportedOnce' /\ TaggedAreListed'
    BY <2>1, DeletionHookDeaths DEF DeleteTcb
  <2> QED
    BY <1>0, <1>1, <2>2
<1>3. CASE \E p \in Pids : IdleReap(p) \/ CompositorClose(p) \/ App(p)
  <2>1. PICK p \in Pids : IdleReap(p) \/ CompositorClose(p) \/ App(p)
    BY <1>3
  <2>2. tcb' = tcb \/ (tcb[p] # "freed" /\ \E state \in TcbState \ {"freed"} :
                                             tcb' = [tcb EXCEPT ![p] = state])
    BY <2>1 DEF IdleReap, CompositorClose, App, Ready, Request, Answer, Wait, Exit,
                tcb_vars, TcbState
  <2>3. \A q \in Pids : tcb'[q] = "freed" <=> tcb[q] = "freed"
    BY <2>2 DEF TypeInv, TypeOK, TcbTypeOK
  <2>4. /\ hades_queue' = hades_queue /\ process_table' = process_table
        /\ tagged' = tagged /\ hades' = hades /\ dead_pid' = dead_pid
        /\ zeus' = zeus /\ zeus_pid' = zeus_pid
    BY <2>1 DEF IdleReap, CompositorClose, App, Request, Answer, Wait, Exit,
                tcb_vars, zeus_vars, hades_vars
  <2>5. DeathsAreReportedOnce' /\ TaggedAreListed'
    BY <2>3, <2>4, DeathsFrame
  <2> QED
    BY <1>0, <1>1, <2>5
<1>4. CASE Supervisor \/ UNCHANGED vars
  <2>1. /\ hades_queue' = hades_queue /\ process_table' = process_table
        /\ tcb' = tcb /\ tagged' = tagged /\ hades' = hades /\ dead_pid' = dead_pid
        /\ zeus' = zeus /\ zeus_pid' = zeus_pid
    BY <1>4 DEF Supervisor, task_application_is_running, Request, Answer, Wait,
                vars, tcb_vars, zeus_vars, hades_vars
  <2>2. DeathsAreReportedOnce' /\ TaggedAreListed'
    BY <2>1, DeathsFrame
  <2> QED
    BY <1>0, <1>1, <2>2
<1> QED
  BY <1>2, <1>3, <1>4 DEF Deletion

LEMMA NextSafeInv == SafeInv /\ [Next]_vars => SafeInv'
BY ZeusSafeInv, HadesSafeInv, OthersSafeInv DEF Next

(* The pid of a task that could not be started is back in the ring, and no  *)
(* other: only Zeus lists pids, and Hades buries what was listed.           *)
FailedIsNobodys == zeus = "destroy" => zeus_pid \notin process_table \union HadesHolds

LEMMA NextFailed == SafeInv /\ FailedIsNobodys /\ [Next]_vars => FailedIsNobodys'
<1> SUFFICES ASSUME SafeInv, FailedIsNobodys, [Next]_vars PROVE FailedIsNobodys'
  OBVIOUS
<1> USE DEF table_vars, hades_vars, zeus_vars
<1>1. CASE Panic
  BY <1>1 DEF Panic, FailedIsNobodys
<1>2. CASE ZeusFail
  <2>1. /\ zeus_pid \in ZeusHolds /\ zeus_pid' = zeus_pid
        /\ process_table' = process_table /\ HadesHolds' = HadesHolds
    BY <1>2 DEF ZeusFail, ZeusHolds, HadesHolds
  <2> QED
    BY <2>1 DEF SafeInv, PidsAreExclusive, FailedIsNobodys
<1>3. CASE Zeus /\ ~ZeusFail /\ ~Panic
  <2>1. zeus' # "destroy"
    BY <1>3 DEF Zeus, ZeusReceive, ZeusNoMemory, ZeusBuildProcess, ZeusBuildThread,
                ZeusBuildThreadOfFreedParent, ZeusBuilds, ZeusCreateTask,
                process_table_add_task, ZeusTag, ZeusDestroy, ZeusDestroysTwice,
                ZeusReply, ZeusWake
  <2> QED
    BY <2>1 DEF FailedIsNobodys
<1>4. CASE Hades /\ ~Panic
  <2>1. zeus' = zeus /\ zeus_pid' = zeus_pid
    BY <1>4 DEF Hades, HadesReceive, HadesUnlist, HadesDestroy, HadesDestroysTwice,
                HadesNotify, HadesKill, HadesKillsTheDead, HadesHook, HadesFreePid, HadesWake
  <2>2. CASE HadesUnlist
    <3>1. /\ dead_pid \in process_table /\ process_table' \subseteq process_table
          /\ HadesHolds' = {dead_pid}
      BY <2>2 DEF HadesUnlist, process_table_remove_task, HadesHolds, SafeInv,
                  DeathsAreReportedOnce
    <3> QED
      BY <2>1, <3>1 DEF FailedIsNobodys
  <2>3. CASE ~HadesUnlist
    <3>1. process_table' = process_table /\ HadesHolds' \subseteq HadesHolds
      BY <1>4, <2>3
      DEF Hades, HadesReceive, HadesDestroy, HadesDestroysTwice, HadesNotify, HadesKill,
          HadesKillsTheDead, HadesHook, HadesFreePid, HadesWake, HadesHolds
    <3> QED
      BY <2>1, <3>1 DEF FailedIsNobodys
  <2> QED
    BY <2>2, <2>3
<1>5. CASE Deletion \/ (\E p \in Pids : App(p)) \/ Supervisor \/ UNCHANGED vars
  <2>1. /\ process_table' = process_table /\ zeus' = zeus /\ zeus_pid' = zeus_pid
        /\ hades' = hades /\ dead_pid' = dead_pid
    BY <1>5 DEF Deletion, IdleReap, CompositorClose, DeleteTcb, App, Supervisor,
                task_application_is_running, Request, Answer, Wait, Exit, vars
  <2> QED
    BY <2>1 DEF FailedIsNobodys, HadesHolds
<1> QED
  BY <1>1, <1>2, <1>3, <1>4, <1>5 DEF Next

(* The inductive invariant of the process manager holds in every state. *)
THEOREM Safe == Spec => []SafeInv
BY InitSafeInv, NextSafeInv, PTL DEF Spec

(* A pid names one task at a time: it is in the ring, with Zeus, in the    *)
(* process table, or with Hades.                                           *)
THEOREM Exclusive == Spec => []PidsAreExclusive
<1>1. SafeInv => PidsAreExclusive
  BY DEF SafeInv
<1> QED
  BY Safe, <1>1, PTL

(* Hades hears of a death once, after the TCB is gone and while the task is *)
(* still in the process table, whatever order tasks end and are killed in.  *)
THEOREM ReportedOnce == Spec => []DeathsAreReportedOnce
<1>1. SafeInv => DeathsAreReportedOnce
  BY DEF SafeInv
<1> QED
  BY Safe, <1>1, PTL

-----------------------------------------------------------------------------
(* What the process manager promises.  A task_info is there as long as its  *)
(* TCB, and a pid in the ring has left nothing behind; every step of Zeus,  *)
(* Hades, the applications and the idle tasks moves at most one pid along   *)
(* the life cycle of ProcessService, a reboot starts over, and at most one  *)
(* pid drops out of circulation.                                            *)

(* What a task leaves behind. *)

HasInfo(p) == task_info[p].thread # NoThread
Unborn(p)  == tcb[p] = "freed" /\ children[p] = <<>>
Buried(p)  == Unborn(p) /\ task_info[p] = NoInfo

Starting == zeus \in {"build", "create", "fail", "destroy"}
Buries   == hades \in {"notify", "kill", "hook"}

(* A request whose parent pointer does not dangle names a task_info that is *)
(* complete, hence not the one Zeus is filling in.                          *)
Pending == {command} \union {zeus_queue[i] : i \in DOMAIN zeus_queue}

ParentOK(c) ==
  c.parent \in Pids /\ ~c.parent_gone
    => HasInfo(c.parent) /\ (Starting => c.parent # zeus_pid)

StartsClean ==
  /\ Starting => Unborn(zeus_pid)
  /\ zeus = "build" => Buried(zeus_pid)
  /\ zeus = "create" => HasInfo(zeus_pid)

EndsClean ==
  /\ hades = "destroy" => tcb[dead_pid] = "freed"
  /\ Buries => Buried(dead_pid)

(* The pid whose info Zeus has yet to delete is free already. *)
Forgetting(p) == zeus = "destroy" /\ p = zeus_pid

FreeAreBuried == \A p \in FreePids : Buried(p) \/ Forgetting(p)

BurialInv ==
  /\ FreeAreBuried
  /\ StartsClean
  /\ EndsClean
  /\ InfoOutlivesTcb
  /\ \A c \in Pending : ParentOK(c)

LEMMA InitBurial == Init => BurialInv
<1> SUFFICES ASSUME Init PROVE BurialInv
  OBVIOUS
<1>1. FreePids \subseteq Pids /\ \A p \in Pids : Buried(p)
  BY PidTableInitLemma, KernelIsCaller DEF Init, Buried, Unborn
<1>2. \A c \in Pending : c.parent \notin Pids
  BY DEF Init, Pending, NoCommand, Kernel, Pids
<1> QED
  BY <1>1, <1>2
  DEF Init, BurialInv, FreeAreBuried, StartsClean, EndsClean, Starting, Buries, InfoOutlivesTcb, ParentOK

LEMMA PanicBurial == Panic => BurialInv'
<1>1. Init' => BurialInv'
  BY InitBurial, PTL
<1> QED
  BY <1>1, PanicIsInit

LEMMA FreeArePids == TypeInv => FreePids \subseteq Pids
BY DEF TypeInv, TypeOK, PidTableTypeOK, FreePids

(* Steps that create no task, no info and no death report, and start and    *)
(* bury nobody new.                                                         *)
LEMMA BurialFrame ==
  ASSUME TypeInv, BurialInv,
         FreePids' \subseteq FreePids,
         \A p \in Pids : /\ task_info'[p] = task_info[p]
                         /\ children[p] = <<>> => children'[p] = <<>>
                         /\ tcb[p] = "freed" => tcb'[p] = "freed",
         Starting' => Starting /\ zeus_pid' = zeus_pid,
         zeus' \in {"build", "create"} => zeus' = zeus,
         zeus = "destroy" => zeus' = "destroy",
         Buries' => Buries /\ dead_pid' = dead_pid,
         hades' = "destroy" => hades = "destroy" /\ dead_pid' = dead_pid,
         \A c \in Pending' : \/ c.parent \notin Pids
                             \/ \E d \in Pending : /\ c.parent = d.parent
                                                   /\ c.parent_gone = d.parent_gone
  PROVE  BurialInv'
<1>1. \A p \in Pids : /\ Buried(p) => Buried(p)'
                      /\ Unborn(p) => Unborn(p)'
                      /\ HasInfo(p) <=> HasInfo(p)'
  BY DEF Buried, Unborn, HasInfo
<1>2. /\ Starting => zeus_pid \in Pids
      /\ Buries \/ hades = "destroy" => dead_pid \in Pids
  BY DEF TypeInv, ZeusHasPid, HadesHasPid, Starting, Buries
<1>3. FreeAreBuried'
  BY <1>1, FreeArePids DEF BurialInv, FreeAreBuried, Forgetting, Starting
<1>4. StartsClean'
  BY <1>1, <1>2 DEF BurialInv, StartsClean, Starting
<1>5. EndsClean'
  BY <1>1, <1>2 DEF BurialInv, EndsClean
<1>6. InfoOutlivesTcb'
  BY DEF BurialInv, InfoOutlivesTcb
<1>7. \A c \in Pending' : ParentOK(c)'
  BY <1>1 DEF BurialInv, ParentOK
<1> QED
  BY <1>3, <1>4, <1>5, <1>6, <1>7 DEF BurialInv

(* The info of a task whose TCB is gone may be deleted by Hades. *)
LEMMA BurialOfInfo ==
  ASSUME TypeInv, BurialInv, NEW p \in Pids \ FreePids, task_info_delete(p),
         tcb[p] = "freed", Starting => zeus_pid # p,
         tcb' = tcb, FreePids' = FreePids, zeus' = zeus, zeus_pid' = zeus_pid,
         Buries' /\ dead_pid' = p, hades' # "destroy"
  PROVE  BurialInv'
<1>1. \A q \in Pids : /\ task_info'[q] = IF q = p THEN NoInfo ELSE task_info[q]
                      /\ children'[q] = IF q = p THEN <<>> ELSE children[q]
  BY KernelIsCaller DEF TypeInv, TypeOK, InfoTypeOK, task_info_delete
<1>2. \A q \in Pids \ {p} : /\ Buried(q) => Buried(q)'
                            /\ Unborn(q) => Unborn(q)'
                            /\ HasInfo(q) <=> HasInfo(q)'
  BY <1>1 DEF Buried, Unborn, HasInfo
<1>3. Buried(p)'
  BY <1>1 DEF Buried, Unborn
<1>4. FreeAreBuried'
  BY <1>2, FreeArePids DEF BurialInv, FreeAreBuried, Forgetting
<1>5. StartsClean'
  BY <1>2 DEF BurialInv, StartsClean, Starting, TypeInv, ZeusHasPid
<1>6. EndsClean'
  BY <1>3 DEF EndsClean
<1>7. InfoOutlivesTcb'
  BY <1>1 DEF BurialInv, InfoOutlivesTcb
<1>8. \A c \in Pending' :
        \E d \in Pending : /\ c.parent = d.parent
                           /\ c.parent_gone = (d.parent_gone \/ d.parent = p)
  <2>1. \A d \in Command : LET c == InfoFreed(d, p)
                           IN /\ c.parent = d.parent
                              /\ c.parent_gone = (d.parent_gone \/ d.parent = p)
    BY DEF InfoFreed, Command
  <2>2. /\ command \in Command
        /\ \A i \in DOMAIN zeus_queue : zeus_queue[i] \in Command
    BY DEF TypeInv, TypeOK, ZeusTypeOK
  <2>3. Pending' = {InfoFreed(d, p) : d \in Pending}
    BY DEF task_info_delete, Pending
  <2>4. Pending \subseteq Command
    BY <2>2 DEF Pending
  <2> QED
    BY <2>1, <2>3, <2>4
<1>9. \A c \in Pending' : ParentOK(c)'
  BY <1>2, <1>8 DEF BurialInv, ParentOK, Starting
<1> QED
  BY <1>4, <1>5, <1>6, <1>7, <1>9 DEF BurialInv

(* Deleting a TCB leaves every parent pointer as it was. *)
LEMMA HookPending ==
  ASSUME TypeInv, NEW p \in Pids, vTaskPreDeletionHook(p)
  PROVE  /\ \A q \in Pids : tcb[q] = "freed" => tcb'[q] = "freed"
         /\ \A c \in Pending' : \E d \in Pending : /\ c.parent = d.parent
                                                   /\ c.parent_gone = d.parent_gone
<1>1. /\ command \in Command
      /\ \A i \in DOMAIN zeus_queue : zeus_queue[i] \in Command
  BY DEF TypeInv, TypeOK, ZeusTypeOK
<1>2. \A d \in Command : /\ TcbFreed(d, p).parent = d.parent
                         /\ TcbFreed(d, p).parent_gone = d.parent_gone
  BY DEF TcbFreed, Command
<1>3. Pending' = {TcbFreed(d, p) : d \in Pending}
  BY DEF vTaskPreDeletionHook, Pending
<1>4. Pending \subseteq Command
  BY <1>1 DEF Pending
<1>5. \A q \in Pids : tcb[q] = "freed" => tcb'[q] = "freed"
  BY DEF vTaskPreDeletionHook, TypeInv, TypeOK, TcbTypeOK
<1> QED
  BY <1>2, <1>3, <1>4, <1>5

-----------------------------------------------------------------------------
LEMMA ZeusBurial == SafeInv /\ FailedIsNobodys /\ BurialInv /\ Zeus => BurialInv'
<1> SUFFICES ASSUME SafeInv, FailedIsNobodys, BurialInv, Zeus PROVE BurialInv'
  OBVIOUS
<1> USE DEF pid_vars, table_vars, thread_vars, info_vars, tcb_vars, hades_vars
<1>0. TypeInv /\ FreePids \subseteq Pids
  BY FreeArePids DEF SafeInv
<1>1. CASE ZeusReceive
  <2>1. PICK pid \in Pids \union {NoPid} :
          pid_allocate(pid) /\ zeus_pid' = pid
          /\ zeus' = (IF pid = NoPid THEN "reply" ELSE "build")
    BY <1>1 DEF ZeusReceive
  <2>2. pid \in FreePids \union {NoPid} /\ FreePids' = FreePids \ {pid}
    BY <2>1, AllocateLemma DEF SafeInv, TypeInv, TypeOK, PidsAreExclusive
  <2>3. /\ \A p : Buried(p)' = Buried(p) /\ Unborn(p)' = Unborn(p) /\ HasInfo(p)' = HasInfo(p)
        /\ EndsClean' = EndsClean /\ InfoOutlivesTcb' = InfoOutlivesTcb
    BY <1>1 DEF ZeusReceive, Buried, Unborn, HasInfo, EndsClean, Buries, InfoOutlivesTcb
  <2>4. /\ Starting' \/ zeus' = "build" => pid \in FreePids
        /\ zeus' # "create"
    BY <2>1, <2>2 DEF Starting
  <2>9. zeus = "receive" /\ \A p \in FreePids : Buried(p)
    BY <1>1 DEF ZeusReceive, BurialInv, FreeAreBuried, Forgetting
  <2>5. StartsClean'
    BY <2>1, <2>3, <2>4, <2>9 DEF BurialInv, StartsClean, Buried
  <2>6. Pending' \subseteq Pending
    <3>1. zeus_queue \in Seq(Command) /\ zeus_queue # <<>>
      BY <1>0, <1>1 DEF ZeusReceive, ZeusRuns, TypeInv, TypeOK, ZeusTypeOK
    <3>2. /\ 1 \in DOMAIN zeus_queue /\ Head(zeus_queue) = zeus_queue[1]
          /\ \A i \in DOMAIN Tail(zeus_queue) :
               i + 1 \in DOMAIN zeus_queue /\ Tail(zeus_queue)[i] = zeus_queue[i + 1]
      BY <3>1
    <3> QED
      BY <1>1, <3>2 DEF ZeusReceive, Pending
  <2>7. \A p \in FreePids : ~HasInfo(p)
    BY <2>9 DEF Buried, HasInfo, NoInfo
  <2>8. \A c \in Pending' : ParentOK(c)'
    BY <2>1, <2>3, <2>4, <2>6, <2>7 DEF BurialInv, ParentOK
  <2> QED
    BY <2>2, <2>3, <2>5, <2>8, <2>9 DEF BurialInv, FreeAreBuried
<1>2. CASE Panic
  BY <1>2, PanicBurial
<1>3. CASE ZeusNoMemory \/ (ZeusBuildThreadOfFreedParent /\ ~Panic)
  <2>1. /\ zeus = "build" /\ zeus' = "fail" /\ UNCHANGED <<task_info, command, zeus_queue>>
        /\ UNCHANGED <<pid_vars, children, tcb_vars, zeus_pid, hades_vars>>
    BY <1>3 DEF ZeusNoMemory, ZeusBuildThreadOfFreedParent, ZeusBuilds
  <2>2. FreePids' = FreePids /\ Pending' = Pending
    BY <2>1 DEF FreePids, Pending
  <2> QED
    BY <1>0, <2>1, <2>2, BurialFrame DEF Starting, Buries
<1>4. CASE ZeusBuildProcess \/ ZeusBuildThread
  <2>1. /\ zeus = "build" /\ zeus' \in {"create", "fail"}
        /\ UNCHANGED <<pid_vars, children, tcb_vars, zeus_pid, zeus_queue, command, hades_vars>>
    BY <1>4 DEF ZeusBuildProcess, ZeusBuildThread, ZeusBuilds
  <2>2. FreePids' = FreePids /\ Pending' = Pending
    BY <2>1 DEF FreePids, Pending
  <2>3. CASE zeus' = "fail" /\ UNCHANGED task_info
    BY <1>0, <2>1, <2>2, <2>3, BurialFrame DEF Starting, Buries
  <2>4. CASE \E q, s : s # NoThread /\ NewInfo(q, s)
    <3>1. zeus_pid \in Pids /\ zeus_pid \in ZeusHolds
      BY <1>0, <2>1 DEF TypeInv, ZeusHasPid, ZeusHolds
    <3>2. HasInfo(zeus_pid)' /\ \A p \in Pids \ {zeus_pid} : task_info'[p] = task_info[p]
      <4>1. PICK q, s : s # NoThread /\ NewInfo(q, s)
        BY <2>4
      <4>2. task_info' = [task_info EXCEPT ![zeus_pid] =
                            [type |-> command.type, parent |-> q, thread |-> s]]
        BY <4>1 DEF NewInfo
      <4>3. task_info'[zeus_pid] = [type |-> command.type, parent |-> q, thread |-> s]
        BY <1>0, <3>1, <4>2 DEF TypeInv, TypeOK, InfoTypeOK
      <4>4. \A p \in Pids \ {zeus_pid} : task_info'[p] = task_info[p]
        BY <1>0, <4>2 DEF TypeInv, TypeOK, InfoTypeOK
      <4> QED
        BY <2>1, <4>1, <4>3, <4>4 DEF HasInfo
    <3>3. zeus_pid \notin FreePids /\ (Buries => dead_pid \in Pids \ {zeus_pid})
      BY <1>0, <3>1 DEF SafeInv, PidsAreExclusive, HadesHolds, Buries, TypeInv, HadesHasPid
    <3>4. /\ \A p \in Pids \ {zeus_pid} : Buried(p) = Buried(p)' /\ HasInfo(p) = HasInfo(p)'
          /\ Unborn(zeus_pid) /\ Unborn(zeus_pid)'
      BY <2>1, <3>2 DEF Buried, Unborn, HasInfo, BurialInv, StartsClean, Starting
    <3>5. FreeAreBuried'
      BY <1>0, <2>1, <2>2, <3>3, <3>4 DEF BurialInv, FreeAreBuried, Forgetting
    <3>6. StartsClean'
      BY <2>1, <3>2, <3>4 DEF StartsClean
    <3>7. EndsClean'
      BY <2>1, <3>3, <3>4 DEF BurialInv, EndsClean, Buries
    <3>8. InfoOutlivesTcb'
      BY <2>1, <3>2, <3>4 DEF BurialInv, InfoOutlivesTcb, HasInfo
    <3>9. \A c \in Pending' : ParentOK(c)'
      BY <2>1, <2>2, <3>4 DEF BurialInv, ParentOK, Starting
    <3> QED
      BY <3>5, <3>6, <3>7, <3>8, <3>9 DEF BurialInv
  <2>5. ASSUME ZeusBuildProcess PROVE \E q, s : s # NoThread /\ NewInfo(q, s)
    BY <2>5, TasksAssumption DEF ZeusBuildProcess
  <2>6. ASSUME ZeusBuildThread
        PROVE  \/ zeus' = "fail" /\ UNCHANGED task_info
               \/ \E q, s : s # NoThread /\ NewInfo(q, s)
    <3> DEFINE s == IF command.parent = Kernel THEN KernelThread
                                               ELSE task_info[command.parent].thread
    <3>1. command.parent \in Callers /\ ParentOK(command)
      BY <1>0 DEF TypeInv, TypeOK, ZeusTypeOK, Command, BurialInv, Pending
    <3>2. s # NoThread
      BY <2>6, <3>1, TasksAssumption DEF ZeusBuildThread, ParentOK, HasInfo, Callers
    <3>3. \/ zeus' = "fail" /\ UNCHANGED task_info
          \/ NewInfo(command.parent, s)
      BY <2>6 DEF ZeusBuildThread, ZeusBuilds
    <3> QED
      BY <3>2, <3>3
  <2> QED
    BY <1>4, <2>3, <2>4, <2>5, <2>6
<1>5. CASE ZeusCreateTask
  <2>1. /\ zeus = "create" /\ UNCHANGED <<pid_vars, info_vars, zeus_queue, command, zeus_pid, hades_vars>>
        /\ \/ zeus' = "enlist" /\ tcb' = [tcb EXCEPT ![zeus_pid] = "ready"]
           \/ zeus' = "fail" /\ tcb' = tcb
    BY <1>5 DEF ZeusCreateTask
  <2>2. FreePids' = FreePids /\ Pending' = Pending
    BY <2>1 DEF FreePids, Pending
  <2>3. zeus_pid \in Pids \ FreePids /\ HasInfo(zeus_pid)
    BY <1>0, <2>1 DEF TypeInv, ZeusHasPid, SafeInv, PidsAreExclusive, ZeusHolds,
                      BurialInv, StartsClean
  <2>4. CASE zeus' = "fail"
    BY <1>0, <2>1, <2>2, <2>4, BurialFrame DEF Starting, Buries
  <2>5. CASE zeus' = "enlist"
    <3>1. \A p \in Pids \ {zeus_pid} : tcb'[p] = tcb[p]
      BY <1>0, <2>1 DEF TypeInv, TypeOK, TcbTypeOK
    <3>2. Buries \/ hades = "destroy" => dead_pid \in Pids \ {zeus_pid}
      BY <1>0, <2>1 DEF SafeInv, PidsAreExclusive, ZeusHolds, HadesHolds, Buries,
                        TypeInv, HadesHasPid
    <3>3. \A p \in Pids \ {zeus_pid} : Buried(p) => Buried(p)'
      BY <2>1, <3>1 DEF Buried, Unborn
    <3>4. FreeAreBuried'
      BY <1>0, <2>1, <2>2, <2>3, <3>3 DEF BurialInv, FreeAreBuried, Forgetting
    <3>5. StartsClean'
      BY <2>5 DEF StartsClean, Starting
    <3>6. EndsClean'
      BY <2>1, <3>1, <3>2, <3>3 DEF BurialInv, EndsClean, Buries
    <3>7. InfoOutlivesTcb'
      BY <2>1, <2>3, <3>1 DEF BurialInv, InfoOutlivesTcb, HasInfo
    <3>8. \A c \in Pending' : ParentOK(c)'
      BY <2>1, <2>2, <2>5 DEF BurialInv, ParentOK, HasInfo, Starting
    <3> QED
      BY <3>4, <3>5, <3>6, <3>7, <3>8 DEF BurialInv
  <2> QED
    BY <2>1, <2>4, <2>5
<1>6. CASE process_table_add_task \/ (ZeusTag /\ ~Panic) \/ ZeusWake
  <2>1. /\ zeus' \in {"tag", "reply", "receive"} /\ zeus # "destroy"
        /\ UNCHANGED <<pid_vars, info_vars, tcb, zeus_queue, command, zeus_pid, hades_vars>>
    BY <1>6 DEF process_table_add_task, ZeusTag, ZeusWake
  <2>2. FreePids' = FreePids /\ Pending' = Pending
    BY <2>1 DEF FreePids, Pending
  <2> QED
    BY <1>0, <2>1, <2>2, BurialFrame DEF Starting, Buries
<1>7. CASE ZeusFail
  <2>1. /\ zeus = "fail" /\ pid_free(zeus_pid)
        /\ \/ zeus' = "destroy" /\ task_info' = task_info
           \/ zeus' = "reply" /\ task_info' = [task_info EXCEPT ![zeus_pid] = NoInfo]
        /\ UNCHANGED <<children, tcb_vars, zeus_queue, command, zeus_pid, hades_vars>>
    BY <1>7 DEF ZeusFail
  <2>2. zeus_pid \in Pids \ FreePids /\ Unborn(zeus_pid) /\ Starting
    BY <1>0, <2>1 DEF TypeInv, ZeusHasPid, SafeInv, PidsAreExclusive, ZeusHolds,
                      BurialInv, StartsClean, Starting
  <2>3. FreePids' \subseteq FreePids \union {zeus_pid}
    BY <2>1, <2>2, FreeLemma DEF SafeInv, TypeInv, TypeOK, PidsAreExclusive
  <2>4. /\ Buried(zeus_pid)' \/ (zeus' = "destroy" /\ Unborn(zeus_pid)')
        /\ \A p \in Pids \ {zeus_pid} : /\ Buried(p) => Buried(p)'
                                        /\ HasInfo(p) <=> HasInfo(p)'
    BY <1>0, <2>1, <2>2 DEF Buried, Unborn, HasInfo, TypeInv, TypeOK, InfoTypeOK
  <2>5. Buries => dead_pid \in Pids \ {zeus_pid}
    BY <1>0, <2>1 DEF SafeInv, PidsAreExclusive, ZeusHolds, HadesHolds, Buries,
                      TypeInv, HadesHasPid
  <2>6. FreeAreBuried'
    <3> SUFFICES ASSUME NEW p \in FreePids' PROVE Buried(p)' \/ Forgetting(p)'
      BY DEF FreeAreBuried
    <3>1. CASE p = zeus_pid
      BY <2>1, <2>4, <3>1 DEF Forgetting
    <3>2. CASE p # zeus_pid
      <4>1. p \in FreePids /\ p \in Pids \ {zeus_pid}
        BY <1>0, <2>3, <3>2
      <4> QED
        BY <2>1, <2>4, <4>1 DEF BurialInv, FreeAreBuried, Forgetting
    <3> QED
      BY <3>1, <3>2
  <2>7. StartsClean'
    BY <2>1, <2>2 DEF StartsClean, Starting, Unborn
  <2>8. EndsClean'
    BY <2>1, <2>4, <2>5 DEF BurialInv, EndsClean, Buries
  <2>9. InfoOutlivesTcb'
    BY <2>1, <2>2, <2>4 DEF BurialInv, InfoOutlivesTcb, HasInfo, Unborn
  <2>10. \A c \in Pending' : ParentOK(c)'
    <3>1. Pending' = Pending
      BY <2>1 DEF Pending
    <3> QED
      BY <2>1, <2>2, <2>4, <3>1 DEF BurialInv, ParentOK
  <2> QED
    BY <2>6, <2>7, <2>8, <2>9, <2>10 DEF BurialInv
<1>9. CASE ZeusDestroy
  <2>1. /\ zeus = "destroy" /\ zeus' = "reply"
        /\ task_info' = [task_info EXCEPT ![zeus_pid] = NoInfo]
        /\ UNCHANGED <<pid_vars, children, tcb_vars, zeus_queue, command, zeus_pid, hades_vars>>
    BY <1>9 DEF ZeusDestroy
  <2>2. zeus_pid \in Pids /\ Unborn(zeus_pid) /\ Starting /\ FreePids' = FreePids
    BY <1>0, <2>1 DEF TypeInv, ZeusHasPid, BurialInv, StartsClean, Starting, FreePids
  <2>3. /\ Buried(zeus_pid)'
        /\ \A p \in Pids \ {zeus_pid} : /\ Buried(p) => Buried(p)'
                                        /\ HasInfo(p) <=> HasInfo(p)'
    BY <1>0, <2>1, <2>2 DEF Buried, Unborn, HasInfo, TypeInv, TypeOK, InfoTypeOK
  <2>4. Buries => dead_pid \in Pids \ {zeus_pid}
    BY <1>0, <2>1 DEF FailedIsNobodys, HadesHolds, Buries, TypeInv, HadesHasPid
  <2>5. FreeAreBuried'
    BY <1>0, <2>1, <2>2, <2>3 DEF BurialInv, FreeAreBuried, Forgetting
  <2>6. StartsClean'
    BY <2>1 DEF StartsClean, Starting
  <2>7. EndsClean'
    BY <2>1, <2>3, <2>4 DEF BurialInv, EndsClean, Buries
  <2>8. InfoOutlivesTcb'
    BY <2>1, <2>2, <2>3 DEF BurialInv, InfoOutlivesTcb, HasInfo, Unborn
  <2>9. \A c \in Pending' : ParentOK(c)'
    <3>1. Pending' = Pending /\ ~Starting'
      BY <2>1 DEF Pending, Starting
    <3> QED
      BY <2>2, <2>3, <3>1 DEF BurialInv, ParentOK
  <2> QED
    BY <2>5, <2>6, <2>7, <2>8, <2>9 DEF BurialInv
<1>8. CASE ZeusReply
  <2>1. /\ zeus = "reply" /\ zeus' = "nap" /\ command' = NoCommand
        /\ UNCHANGED <<pid_vars, info_vars, tcb_vars, zeus_queue, hades_vars>>
    BY <1>8 DEF ZeusReply
  <2>2. /\ FreePids' = FreePids
        /\ \A c \in Pending' : c.parent \notin Pids \/ c \in Pending
    BY <2>1 DEF FreePids, Pending, NoCommand, Kernel, Pids
  <2> QED
    BY <1>0, <2>1, <2>2, BurialFrame DEF Starting, Buries
<1> QED
  BY <1>1, <1>2, <1>3, <1>4, <1>5, <1>6, <1>7, <1>8, <1>9 DEF Zeus, ZeusDestroysTwice

LEMMA HadesBurial == SafeInv /\ FailedIsNobodys /\ BurialInv /\ Hades => BurialInv'
<1> SUFFICES ASSUME SafeInv, FailedIsNobodys, BurialInv, Hades PROVE BurialInv'
  OBVIOUS
<1> USE DEF pid_vars, table_vars, thread_vars, info_vars, tcb_vars, zeus_vars
<1>0. TypeInv /\ FreePids \subseteq Pids
  BY FreeArePids DEF SafeInv
<1>1. CASE HadesReceive \/ HadesWake
  <2>1. /\ hades \in {"receive", "nap"} /\ hades' \in {"receive", "unlist"}
        /\ UNCHANGED <<pid_vars, info_vars, tcb_vars, zeus_vars>>
    BY <1>1 DEF HadesReceive, HadesWake
  <2>2. FreePids' = FreePids /\ Pending' = Pending
    BY <2>1 DEF FreePids, Pending
  <2> QED
    BY <1>0, <2>1, <2>2, BurialFrame DEF Starting, Buries
<1>2. CASE Panic
  BY <1>2, PanicBurial
<1>3. CASE HadesUnlist \/ HadesDestroy
  <2>1. /\ hades \in {"unlist", "destroy"}
        /\ UNCHANGED <<pid_vars, tcb_vars, zeus, zeus_pid, dead_pid>>
        /\ \/ hades' = "notify" /\ task_info_delete(dead_pid)
           \/ /\ hades = "unlist" /\ hades' = "destroy"
              /\ UNCHANGED <<info_vars, zeus_queue, command>>
    BY <1>3 DEF HadesUnlist, HadesDestroy
  <2>2. FreePids' = FreePids
    BY <2>1 DEF FreePids
  <2>3. tcb[dead_pid] = "freed"
    BY <2>1 DEF SafeInv, DeathsAreReportedOnce, BurialInv, EndsClean
  <2>4. dead_pid \in Pids \ FreePids /\ (Starting => zeus_pid # dead_pid)
    BY <1>0, <2>1 DEF TypeInv, HadesHasPid, SafeInv, PidsAreExclusive, HadesHolds,
                      ZeusHolds, Starting, DeathsAreReportedOnce, FailedIsNobodys
  <2>5. CASE hades' = "notify" /\ task_info_delete(dead_pid)
    BY <1>0, <2>1, <2>2, <2>3, <2>4, <2>5, BurialOfInfo DEF Buries
  <2>6. CASE hades' = "destroy" /\ UNCHANGED <<info_vars, zeus_queue, command>>
    <3>1. Pending' = Pending /\ Starting' = Starting /\ ~Buries'
      BY <2>1, <2>6 DEF Pending, Starting, Buries
    <3>2. \A p : /\ Buried(p)' = Buried(p) /\ Unborn(p)' = Unborn(p)
                 /\ HasInfo(p)' = HasInfo(p)
      BY <2>1, <2>6 DEF Buried, Unborn, HasInfo
    <3>3. EndsClean' /\ FreeAreBuried'
      BY <2>1, <2>2, <2>3, <3>1, <3>2 DEF EndsClean, BurialInv, FreeAreBuried, Forgetting
    <3>4. StartsClean' /\ InfoOutlivesTcb' /\ \A c \in Pending' : ParentOK(c)'
      BY <2>1, <2>6, <3>1, <3>2 DEF BurialInv, StartsClean, InfoOutlivesTcb, ParentOK
    <3> QED
      BY <3>3, <3>4 DEF BurialInv
  <2> QED
    BY <2>1, <2>5, <2>6
<1>4. CASE HadesNotify
  <2>1. /\ hades = "notify" /\ hades' = "kill"
        /\ UNCHANGED <<pid_vars, task_info, tcb_vars, zeus_vars, dead_pid>>
        /\ \/ children' = children
           \/ /\ parent_pid \in process_table \union {Kernel}
              /\ children' = [children EXCEPT ![parent_pid] = Append(@, dead_pid)]
    BY <1>4 DEF HadesNotify, ParentLives
  <2>2. FreePids' = FreePids /\ Pending' = Pending
    BY <2>1 DEF FreePids, Pending
  <2>3. \A p \in Pids \ process_table : children'[p] = children[p]
    <3>1. children \in [Callers -> Seq(Pids)]
      BY <1>0 DEF TypeInv, TypeOK, InfoTypeOK
    <3>2. \A p \in Pids \ process_table : p \in Callers /\ p \notin process_table \union {Kernel}
      BY KernelIsCaller DEF Kernel, Pids
    <3> QED
      BY <2>1, <3>1, <3>2
  <2>4. /\ FreePids \intersect process_table = {}
        /\ dead_pid \in Pids \ process_table
        /\ Starting => zeus_pid \in Pids \ process_table
    BY <1>0, <2>1 DEF SafeInv, PidsAreExclusive, HadesHolds, ZeusHolds, Starting,
                      TypeInv, HadesHasPid, ZeusHasPid, FailedIsNobodys
  <2>5. \A p \in Pids \ process_table : /\ Buried(p) => Buried(p)'
                                        /\ Unborn(p) => Unborn(p)'
    BY <2>1, <2>3 DEF Buried, Unborn
  <2>6. FreeAreBuried'
    BY <1>0, <2>1, <2>2, <2>4, <2>5 DEF BurialInv, FreeAreBuried, Forgetting
  <2>7. StartsClean'
    BY <2>1, <2>4, <2>5 DEF BurialInv, StartsClean, Starting, HasInfo
  <2>8. EndsClean'
    BY <2>1, <2>4, <2>5 DEF BurialInv, EndsClean, Buries
  <2>9. InfoOutlivesTcb' /\ \A c \in Pending' : ParentOK(c)'
    BY <2>1, <2>2 DEF BurialInv, InfoOutlivesTcb, ParentOK, HasInfo, Starting
  <2> QED
    BY <2>6, <2>7, <2>8, <2>9 DEF BurialInv
<1>5. CASE (HadesKill \/ HadesKillsTheDead) /\ ~Panic
  <2>1. /\ hades = "kill" /\ hades' = "hook"
        /\ UNCHANGED <<pid_vars, info_vars, zeus_vars, dead_pid>>
    BY <1>5 DEF HadesKill, HadesKillsTheDead
  <2>2. PICK q : tcb[q] # "freed" /\ tcb' = [tcb EXCEPT ![q] = "killing"]
    BY <1>5 DEF HadesKill, HadesKillsTheDead, Ready
  <2>3. \A p \in Pids : tcb[p] = "freed" => tcb'[p] = "freed"
    BY <1>0, <2>2 DEF TypeInv, TypeOK, TcbTypeOK
  <2>4. FreePids' = FreePids /\ Pending' = Pending
    BY <2>1 DEF FreePids, Pending
  <2> QED
    BY <1>0, <2>1, <2>3, <2>4, BurialFrame DEF Starting, Buries
<1>6. CASE HadesHook
  <2>1. PICK p \in Pids : vTaskPreDeletionHook(p)
    BY <1>6 DEF HadesHook
  <2>2. /\ hades = "hook" /\ hades' = "kill"
        /\ UNCHANGED <<pid_vars, info_vars, zeus, zeus_pid, dead_pid>>
    BY <1>6 DEF HadesHook
  <2>3. FreePids' = FreePids
    BY <2>2 DEF FreePids
  <2> QED
    BY <1>0, <2>1, <2>2, <2>3, HookPending, BurialFrame DEF Starting, Buries
<1>7. CASE HadesFreePid
  <2>1. /\ hades = "kill" /\ hades' = "nap" /\ pid_free(dead_pid)
        /\ UNCHANGED <<info_vars, tcb_vars, zeus_vars>>
    BY <1>7 DEF HadesFreePid
  <2>2. dead_pid \in Pids \ FreePids /\ Buried(dead_pid)
    BY <1>0, <2>1 DEF TypeInv, HadesHasPid, SafeInv, PidsAreExclusive, HadesHolds,
                      BurialInv, EndsClean, Buries
  <2>3. FreePids' \subseteq FreePids \union {dead_pid}
    BY <2>1, <2>2, FreeLemma DEF SafeInv, TypeInv, TypeOK, PidsAreExclusive
  <2>4. \A p : Buried(p)' = Buried(p) /\ Unborn(p)' = Unborn(p) /\ HasInfo(p)' = HasInfo(p)
    BY <2>1 DEF Buried, Unborn, HasInfo
  <2>5. FreeAreBuried'
    BY <2>1, <2>2, <2>3, <2>4 DEF BurialInv, FreeAreBuried, Forgetting
  <2>6. EndsClean'
    BY <2>1 DEF EndsClean, Buries
  <2>7. StartsClean' /\ InfoOutlivesTcb' /\ \A c \in Pending' : ParentOK(c)'
    BY <2>1, <2>4
    DEF BurialInv, StartsClean, InfoOutlivesTcb, ParentOK, Pending, Starting
  <2> QED
    BY <2>5, <2>6, <2>7 DEF BurialInv
<1> QED
  BY <1>1, <1>2, <1>3, <1>4, <1>5, <1>6, <1>7 DEF Hades, HadesDestroysTwice

(* A task that creates another one is in the process table with a complete *)
(* task_info, so its request carries a good parent pointer.                *)
LEMMA CallBurial ==
  ASSUME SafeInv, BurialInv, NEW p \in Callers,
         (\E type \in TaskType : Request(p, type)) \/ Answer(p) \/ Wait(p)
  PROVE  BurialInv'
<1> USE DEF pid_vars, info_vars, tcb_vars, zeus_vars, hades_vars
<1>0. TypeInv
  BY DEF SafeInv
<1>1. /\ UNCHANGED <<pid_vars, task_info, tcb_vars, hades_vars, zeus, zeus_pid, command>>
      /\ FreePids' = FreePids
  BY DEF Request, Answer, Wait, FreePids
<1>2. ASSUME NEW type \in TaskType, Request(p, type) PROVE BurialInv'
  <2>1. PICK c : /\ c = [NoCommand EXCEPT !.caller = p, !.parent = InfoOf(p), !.type = type]
                 /\ zeus_queue' = <<c>> /\ children' = children
    BY <1>2 DEF Request
  <2>2. c.parent = InfoOf(p)
    BY <2>1 DEF NoCommand
  <2>3. Pending' \subseteq Pending \union {c}
    BY <1>1, <2>1 DEF Pending
  <2>4. /\ \A q : Buried(q)' = Buried(q) /\ Unborn(q)' = Unborn(q) /\ HasInfo(q)' = HasInfo(q)
        /\ StartsClean' = StartsClean /\ EndsClean' = EndsClean
        /\ InfoOutlivesTcb' = InfoOutlivesTcb /\ FreeAreBuried' = FreeAreBuried
    BY <1>1, <2>1 DEF Buried, Unborn, HasInfo, StartsClean, EndsClean, Starting, Buries,
                      InfoOutlivesTcb, FreeAreBuried, Forgetting
  <2>5. InfoOf(p) \in Pids => tcb[InfoOf(p)] # "freed"
    BY DEF InfoOf, Kernel, Pids, SafeInv, TaggedAreListed
  <2>6. ParentOK(c)'
    <3>1. InfoOf(p) \in Pids => HasInfo(InfoOf(p))
      BY <2>5 DEF BurialInv, InfoOutlivesTcb, HasInfo
    <3>2. InfoOf(p) \in Pids /\ Starting => InfoOf(p) # zeus_pid
      BY <2>5 DEF BurialInv, StartsClean, Unborn
    <3>3. Starting' = Starting
      BY <1>1 DEF Starting
    <3> QED
      BY <1>1, <2>2, <2>4, <3>1, <3>2, <3>3 DEF ParentOK
  <2>7. \A d \in Pending : ParentOK(d)'
    BY <1>1, <2>4 DEF BurialInv, ParentOK, Starting
  <2>8. \A d \in Pending' : ParentOK(d)'
    BY <2>3, <2>6, <2>7
  <2> QED
    BY <1>1, <2>4, <2>8 DEF BurialInv
<1>3. CASE Answer(p) \/ Wait(p)
  <2>1. Pending' = Pending
    BY <1>1, <1>3 DEF Answer, Wait, Pending
  <2>2. \A q \in Pids : children[q] = <<>> => children'[q] = <<>>
    <3>1. CASE Answer(p)
      BY <3>1 DEF Answer
    <3>2. CASE Wait(p)
      BY <1>0, <3>2 DEF Wait, TypeInv, TypeOK, InfoTypeOK
    <3> QED
      BY <1>3, <3>1, <3>2
  <2> QED
    BY <1>0, <1>1, <2>1, <2>2, BurialFrame DEF Starting, Buries
<1> QED
  BY <1>2, <1>3

LEMMA NextBurial ==
  SafeInv /\ FailedIsNobodys /\ BurialInv /\ [Next]_vars => BurialInv'
<1> SUFFICES ASSUME SafeInv, FailedIsNobodys, BurialInv, [Next]_vars PROVE BurialInv'
  OBVIOUS
<1> USE DEF pid_vars, info_vars, tcb_vars, zeus_vars, hades_vars
<1>0. TypeInv
  BY DEF SafeInv
<1>1. CASE Zeus
  BY <1>1, ZeusBurial
<1>2. CASE Hades
  BY <1>2, HadesBurial
<1>3. CASE \E p \in Pids : IdleReap(p) \/ CompositorClose(p) \/ (Ready(p) /\ Exit(p))
  <2>1. PICK p \in Pids : IdleReap(p) \/ CompositorClose(p) \/ (Ready(p) /\ Exit(p))
    BY <1>3
  <2>2. /\ tcb[p] # "freed" /\ \E s \in TcbState : tcb' = [tcb EXCEPT ![p] = s]
        /\ UNCHANGED <<pid_vars, info_vars, zeus_vars, hades_vars>>
    BY <2>1 DEF IdleReap, CompositorClose, Ready, Exit, TcbState
  <2>3. \A q \in Pids : tcb[q] = "freed" => tcb'[q] = "freed"
    BY <1>0, <2>2 DEF TypeInv, TypeOK, TcbTypeOK
  <2>4. FreePids' = FreePids /\ Pending' = Pending
    BY <2>2 DEF FreePids, Pending
  <2> QED
    BY <1>0, <2>2, <2>3, <2>4, BurialFrame DEF Starting, Buries
<1>4. CASE \E p \in Pids : DeleteTcb(p)
  <2>1. PICK p \in Pids : DeleteTcb(p)
    BY <1>4
  <2>2. UNCHANGED <<pid_vars, info_vars, zeus, zeus_pid, hades, dead_pid>> /\ FreePids' = FreePids
    BY <2>1 DEF DeleteTcb, FreePids
  <2>3. vTaskPreDeletionHook(p)
    BY <2>1 DEF DeleteTcb
  <2> QED
    BY <1>0, <2>2, <2>3, HookPending, BurialFrame DEF Starting, Buries
<1>5. CASE \E p \in Callers : (\E type \in TaskType : Request(p, type)) \/ Answer(p) \/ Wait(p)
  BY <1>5, CallBurial
<1>6. CASE task_application_is_running \/ UNCHANGED vars
  <2>1. UNCHANGED <<pid_vars, info_vars, tcb_vars, zeus_vars, hades_vars>>
    BY <1>6 DEF task_application_is_running, vars
  <2>2. FreePids' = FreePids /\ Pending' = Pending
    BY <2>1 DEF FreePids, Pending
  <2> QED
    BY <1>0, <2>1, <2>2, BurialFrame DEF Starting, Buries
<1>7. ASSUME NEW p \in Pids, App(p) PROVE BurialInv'
  BY <1>3, <1>5, <1>7, KernelIsCaller DEF App
<1>8. CASE Supervisor
  BY <1>5, <1>6, <1>8, KernelIsCaller DEF Supervisor, TaskType
<1> QED
  BY <1>1, <1>2, <1>3, <1>4, <1>6, <1>7, <1>8 DEF Next, Deletion

LEMMA Burials == Spec => [](SafeInv /\ FailedIsNobodys /\ BurialInv)
<1>1. Init => SafeInv /\ FailedIsNobodys /\ BurialInv
  BY InitSafeInv, InitBurial DEF Init, FailedIsNobodys
<1>2. SafeInv /\ FailedIsNobodys /\ BurialInv /\ [Next]_vars
        => (SafeInv /\ FailedIsNobodys /\ BurialInv)'
  BY NextSafeInv, NextFailed, NextBurial
<1> QED
  BY <1>1, <1>2, PTL DEF Spec

(* As long as a task has a TCB, the thread-local pointer that the switch    *)
(* hooks and the deletion hook follow leads to its task_info.               *)
THEOREM InfoOutlives == Spec => []InfoOutlivesTcb
<1>1. BurialInv => InfoOutlivesTcb
  BY DEF BurialInv
<1> QED
  BY Burials, <1>1, PTL

(* A pid in the ring has left nothing behind that its next task would find: *)
(* no TCB, no task_info, no unread death of a child, no death on its way to *)
(* Hades.                                                                   *)
THEOREM FreeAreClean == Spec => []FreePidsAreClean
<1>1. SafeInv /\ BurialInv => FreePidsAreClean
  <2> SUFFICES ASSUME SafeInv, BurialInv, NEW p \in FreePids
               PROVE  /\ tcb[p] = "freed" /\ children[p] = <<>>
                      /\ task_info[p] = NoInfo \/ (zeus = "destroy" /\ p = zeus_pid)
                      /\ \A i \in DOMAIN hades_queue : hades_queue[i] # p
    BY DEF FreePidsAreClean
  <2>1. \A i \in DOMAIN hades_queue : hades_queue[i] # p
    BY DEF SafeInv, PidsAreExclusive, DeathsAreReportedOnce
  <2> QED
    BY <2>1 DEF BurialInv, FreeAreBuried, Forgetting, StartsClean, Starting, Buried, Unborn
<1> QED
  BY Burials, <1>1, PTL

-----------------------------------------------------------------------------
(* The refinement of ProcessService. *)

States == [p \in Pids |-> PidState(p)]

Lost == {p \in Pids : PidState(p) = "lost"}

(* No pid is lost as long as the ring is whole. *)
LossInv ==
  \/ Whole /\ Lost = {}
  \/ Shrunk /\ \A p, q \in Lost : p = q

LEMMA InitService == Init => LossInv /\ \A p \in Pids : PidState(p) = "free"
BY PidTableInitLemma, InitWhole DEF Init, LossInv, Lost, PidState

LEMMA PanicResets == Panic => LossInv' /\ Service!Reset
<1> SUFFICES ASSUME Panic PROVE LossInv' /\ Service!Reset
  OBVIOUS
<1>1. Init' => LossInv' /\ \A p \in Pids : PidState(p)' = "free"
  <2>1. (Init => LossInv /\ \A p \in Pids : PidState(p) = "free")'
    BY InitService, PTL
  <2> QED
    BY <2>1
<1>2. Init'
  BY PanicIsInit
<1> QED
  BY <1>1, <1>2 DEF Service!Reset

(* A step in which every pid stays where it is. *)
LEMMA PidsStay ==
  ASSUME LossInv, UNCHANGED pid_vars,
         \A p \in Pids : PidState(p)' = PidState(p)
  PROVE  LossInv' /\ UNCHANGED States
<1>1. UNCHANGED States
  BY DEF States
<1>2. Lost' = Lost /\ Whole' = Whole /\ Shrunk' = Shrunk
  BY DEF Lost, Whole, Ring!Whole, Shrunk, Ring!Shrunk, Ring!Occupied, pid_vars
<1> QED
  BY <1>1, <1>2 DEF LossInv

(* A step in which one pid moves on. *)
LEMMA PidBecomes ==
  ASSUME NEW p \in Pids, NEW s,
         \A q \in Pids : PidState(q)' = IF q = p THEN s ELSE PidState(q)
  PROVE  Service!Become(p, s)
BY DEF Service!Become

LEMMA PidMoves ==
  ASSUME LossInv, UNCHANGED pid_vars, NEW p \in Pids, NEW s,
         s # "lost", PidState(p) # "lost",
         \A q \in Pids : PidState(q)' = IF q = p THEN s ELSE PidState(q)
  PROVE  LossInv'
<1>1. Lost' = Lost /\ Whole' = Whole /\ Shrunk' = Shrunk
  BY DEF Lost, Whole, Ring!Whole, Shrunk, Ring!Shrunk, Ring!Occupied, pid_vars
<1> QED
  BY <1>1 DEF LossInv

(* pid_free(): the pid is free again, and the one it overwrites is lost.   *)
LEMMA PidGivenBack ==
  ASSUME SafeInv, LossInv, NEW pid \in Pids, pid_free(pid),
         pid \notin FreePids, PidState(pid) \in {"starting", "dead"},
         tcb' = tcb, process_table' = process_table,
         \A q \in Pids \ {pid} : /\ q \in ZeusHolds' <=> q \in ZeusHolds
                                 /\ q \in HadesHolds' <=> q \in HadesHolds
  PROVE  LossInv' /\ Service!GiveBack(pid)
<1>1. PidTableTypeOK /\ RingIsInjective
  BY DEF SafeInv, TypeInv, TypeOK, PidsAreExclusive
<1>2. FreePids' = (FreePids \ {pid_table[tail]}) \union {pid}
  BY <1>1, FreeLemma
<1>3. CASE ~Occupied(tail)
  <2>1. FreePids' = FreePids \union {pid}
    BY <1>2, <1>3 DEF Occupied, FreePids
  <2>2. \A q \in Pids : PidState(q)' = IF q = pid THEN "free" ELSE PidState(q)
    BY <2>1 DEF PidState
  <2>3. Lost' = Lost
    BY <2>2 DEF Lost
  <2>4. LossInv'
    BY <1>1, <2>3, FreeShape DEF LossInv
  <2> QED
    BY <2>2, <2>4, PidBecomes DEF Service!GiveBack
<1>4. CASE Occupied(tail)
  <2> DEFINE gone == pid_table[tail]
  <2>1. gone \in FreePids /\ gone \in Pids /\ gone # pid
    BY <1>1, <1>4 DEF Occupied, FreePids, PidTableTypeOK
  <2>2. Whole /\ Lost = {} /\ Shrunk'
    BY <1>1, <1>4, FreeShape DEF LossInv
  <2>3. gone \notin ZeusHolds \union process_table \union HadesHolds
    BY <2>1 DEF SafeInv, PidsAreExclusive
  <2>4. \A q \in Pids : PidState(q)' = IF q = pid THEN "free"
                                       ELSE IF q = gone THEN "lost" ELSE PidState(q)
    BY <1>2, <2>1, <2>3 DEF PidState
  <2>5. Lost' = {gone}
    BY <2>1, <2>2, <2>4 DEF Lost
  <2>6. LossInv'
    BY <2>2, <2>5 DEF LossInv
  <2>7. PidState(gone) = "free"
    BY <2>1 DEF PidState
  <2>8. Service!In("lost") = {} /\ gone \in Service!In("free")
    BY <2>1, <2>2, <2>7 DEF Service!In, Lost
  <2>9. States' = [States EXCEPT ![pid] = "free", ![gone] = "lost"]
    BY <2>1, <2>4 DEF States
  <2> QED
    BY <2>6, <2>8, <2>9 DEF Service!GiveBack, States
<1> QED
  BY <1>3, <1>4

(* The deletion of a TCB is the death of a listed task. *)
LEMMA PidDies ==
  ASSUME SafeInv, LossInv, NEW p \in Pids, tcb[p] # "freed", vTaskPreDeletionHook(p),
         UNCHANGED <<pid_vars, process_table>>,
         ZeusHolds' = ZeusHolds, HadesHolds' = HadesHolds
  PROVE  LossInv' /\ (UNCHANGED States \/ Service!Die(p))
<1>1. FreePids' = FreePids
  BY DEF pid_vars, FreePids
<1>2. \A q \in Pids : tcb'[q] = IF q = p THEN "freed" ELSE tcb[q]
  BY DEF vTaskPreDeletionHook, SafeInv, TypeInv, TypeOK, TcbTypeOK
<1>3. CASE p \in process_table
  <2>1. p \notin FreePids /\ p \notin ZeusHolds
    BY <1>3 DEF SafeInv, PidsAreExclusive
  <2>2. PidState(p) = "live"
    BY <1>3, <2>1 DEF PidState
  <2>3. \A q \in Pids : PidState(q)' = IF q = p THEN "dead" ELSE PidState(q)
    BY <1>1, <1>2, <1>3, <2>1 DEF PidState
  <2>4. LossInv'
    BY <2>2, <2>3, PidMoves
  <2> QED
    BY <2>2, <2>3, <2>4, PidBecomes DEF Service!Die
<1>4. CASE p \notin process_table
  <2>1. \A q \in Pids : PidState(q)' = PidState(q)
    BY <1>1, <1>2, <1>4 DEF PidState
  <2> QED
    BY <2>1, PidsStay
<1> QED
  BY <1>3, <1>4

-----------------------------------------------------------------------------
Refines == LossInv' /\ (UNCHANGED States \/ Service!Next)

LEMMA PanicRefines == Panic => Refines
BY PanicResets DEF Refines, Service!Next

LEMMA StayRefines ==
  ASSUME SafeInv, LossInv, UNCHANGED <<pid_vars, process_table>>,
         ZeusHolds' = ZeusHolds, HadesHolds' = HadesHolds,
         \A p \in Pids : tcb'[p] = "freed" <=> tcb[p] = "freed"
  PROVE  Refines
<1>1. FreePids' = FreePids
  BY DEF pid_vars, FreePids
<1>2. \A p \in Pids : PidState(p)' = PidState(p)
  BY <1>1 DEF PidState
<1> QED
  BY <1>2, PidsStay DEF Refines

LEMMA ZeusRefines == SafeInv /\ LossInv /\ Zeus => Refines
<1> SUFFICES ASSUME SafeInv, LossInv, Zeus PROVE Refines
  OBVIOUS
<1> USE DEF pid_vars, table_vars, tcb_vars, hades_vars
<1>1. CASE ZeusReceive
  <2>1. PICK pid \in Pids \union {NoPid} :
          pid_allocate(pid) /\ zeus_pid' = pid
          /\ zeus' = (IF pid = NoPid THEN "reply" ELSE "build")
    BY <1>1 DEF ZeusReceive
  <2>2. /\ pid \in FreePids \union {NoPid} /\ FreePids' = FreePids \ {pid}
        /\ (Whole => Whole') /\ (Shrunk => Shrunk')
    BY <2>1, AllocateLemma, AllocateShape DEF SafeInv, TypeInv, TypeOK, PidsAreExclusive
  <2>3. /\ ZeusHolds = {} /\ ZeusHolds' = {pid} \ {NoPid}
        /\ HadesHolds' = HadesHolds /\ process_table' = process_table /\ tcb' = tcb
    BY <1>1, <2>1 DEF ZeusReceive, ZeusHolds, HadesHolds
  <2>4. NoPid \notin Pids
    BY MaxPidAssumption DEF NoPid, Pids
  <2>5. CASE pid = NoPid
    <3>1. \A q \in Pids : PidState(q)' = PidState(q)
      BY <2>2, <2>3, <2>4, <2>5 DEF PidState
    <3>2. Lost' = Lost /\ UNCHANGED States
      BY <3>1 DEF Lost, States
    <3> QED
      BY <2>2, <3>2 DEF LossInv, Refines
  <2>6. CASE pid # NoPid
    <3>1. pid \in Pids /\ PidState(pid) = "free"
      BY <2>2, <2>6 DEF PidState
    <3>2. \A q \in Pids : PidState(q)' = IF q = pid THEN "starting" ELSE PidState(q)
      BY <2>2, <2>3, <2>6, <3>1 DEF PidState
    <3>3. Lost' = Lost
      BY <3>1, <3>2 DEF Lost
    <3>4. Service!In("starting") = {}
      BY <2>3 DEF Service!In, PidState
    <3>5. Service!Take(pid)
      BY <3>1, <3>2, <3>4, PidBecomes DEF Service!Take
    <3> QED
      BY <2>2, <3>1, <3>3, <3>5 DEF LossInv, Refines, Service!Next
  <2> QED
    BY <2>5, <2>6
<1>2. CASE Panic
  BY <1>2, PanicRefines
<1>3. CASE ZeusBuilds("create") \/ ZeusBuilds("fail")
  <2>1. ZeusHolds' = ZeusHolds /\ HadesHolds' = HadesHolds
    BY <1>3 DEF ZeusBuilds, ZeusHolds, HadesHolds
  <2> QED
    BY <1>3, <2>1, StayRefines DEF ZeusBuilds
<1>4. CASE ZeusCreateTask
  <2>1. /\ ZeusHolds = {zeus_pid} /\ ZeusHolds' = ZeusHolds /\ HadesHolds' = HadesHolds
        /\ UNCHANGED <<pid_vars, process_table>>
    BY <1>4 DEF ZeusCreateTask, ZeusHolds, HadesHolds
  <2>2. \A q \in Pids \ {zeus_pid} : tcb'[q] = tcb[q]
    BY <1>4 DEF ZeusCreateTask, SafeInv, TypeInv, TypeOK, TcbTypeOK
  <2>3. zeus_pid \notin process_table /\ FreePids' = FreePids
    BY <2>1 DEF SafeInv, PidsAreExclusive, FreePids
  <2>4. \A q \in Pids : PidState(q)' = PidState(q)
    BY <2>1, <2>2, <2>3 DEF PidState
  <2> QED
    BY <2>1, <2>4, PidsStay DEF Refines
<1>5. CASE process_table_add_task
  <2>1. /\ ZeusHolds = {zeus_pid} /\ ZeusHolds' = {} /\ HadesHolds' = HadesHolds
        /\ UNCHANGED <<pid_vars, tcb>> /\ process_table' = process_table \union {zeus_pid}
        /\ zeus_pid \in Pids
    BY <1>5 DEF process_table_add_task, ZeusHolds, HadesHolds, SafeInv, TypeInv, ZeusHasPid
  <2>2. zeus_pid \notin FreePids /\ FreePids' = FreePids
    BY <2>1 DEF SafeInv, PidsAreExclusive, FreePids
  <2>3. PidState(zeus_pid) = "starting"
    BY <2>1, <2>2 DEF PidState
  <2> DEFINE s == IF tcb[zeus_pid] = "freed" THEN "dead" ELSE "live"
  <2>4. \A q \in Pids : PidState(q)' = IF q = zeus_pid THEN s ELSE PidState(q)
    BY <2>1, <2>2 DEF PidState
  <2>5. LossInv'
    BY <2>1, <2>3, <2>4, PidMoves
  <2>6. Service!Start(zeus_pid) \/ Service!Die(zeus_pid)
    BY <2>1, <2>3, <2>4, PidBecomes DEF Service!Start, Service!Die
  <2> QED
    BY <2>1, <2>5, <2>6 DEF Refines, Service!Next
<1>6. CASE (ZeusTag /\ ~Panic) \/ ZeusDestroy \/ ZeusReply \/ ZeusWake
  <2>1. /\ ZeusHolds' = ZeusHolds /\ HadesHolds' = HadesHolds
        /\ UNCHANGED <<pid_vars, process_table, tcb>>
    BY <1>6 DEF ZeusTag, ZeusDestroy, ZeusReply, ZeusWake, ZeusHolds, HadesHolds
  <2> QED
    BY <2>1, StayRefines
<1>7. CASE ZeusFail
  <2>1. /\ ZeusHolds = {zeus_pid} /\ ZeusHolds' = {} /\ HadesHolds' = HadesHolds
        /\ UNCHANGED <<process_table, tcb>> /\ pid_free(zeus_pid) /\ zeus_pid \in Pids
    BY <1>7 DEF ZeusFail, ZeusHolds, HadesHolds, SafeInv, TypeInv, ZeusHasPid
  <2>2. zeus_pid \notin FreePids /\ PidState(zeus_pid) = "starting"
    BY <2>1 DEF SafeInv, PidsAreExclusive, PidState
  <2>3. LossInv' /\ Service!GiveBack(zeus_pid)
    BY <2>1, <2>2, PidGivenBack
  <2> QED
    BY <2>1, <2>3 DEF Refines, Service!Next
<1> QED
  BY <1>1, <1>2, <1>3, <1>4, <1>5, <1>6, <1>7
  DEF Zeus, ZeusNoMemory, ZeusBuildProcess, ZeusBuildThread,
      ZeusBuildThreadOfFreedParent, ZeusDestroysTwice

LEMMA HadesRefines == SafeInv /\ LossInv /\ Hades => Refines
<1> SUFFICES ASSUME SafeInv, LossInv, Hades PROVE Refines
  OBVIOUS
<1> USE DEF pid_vars, table_vars, tcb_vars, zeus_vars
<1>1. CASE HadesReceive \/ HadesDestroy \/ HadesNotify \/ HadesWake
  <2>1. /\ ZeusHolds' = ZeusHolds /\ HadesHolds' = HadesHolds
        /\ UNCHANGED <<pid_vars, process_table, tcb>>
    BY <1>1 DEF HadesReceive, HadesDestroy, HadesNotify, HadesWake, ZeusHolds, HadesHolds
  <2> QED
    BY <2>1, StayRefines
<1>2. CASE HadesUnlist
  <2>1. /\ HadesHolds = {} /\ HadesHolds' = {dead_pid} /\ ZeusHolds' = ZeusHolds
        /\ process_table' = process_table \ {dead_pid}
        /\ UNCHANGED <<pid_vars, tcb>>
    BY <1>2 DEF HadesUnlist, process_table_remove_task, ZeusHolds, HadesHolds
  <2>2. dead_pid \in process_table /\ tcb[dead_pid] = "freed" /\ FreePids' = FreePids
    BY <1>2, <2>1 DEF HadesUnlist, SafeInv, DeathsAreReportedOnce, FreePids
  <2>3. dead_pid \notin FreePids \union ZeusHolds
    BY <2>2 DEF SafeInv, PidsAreExclusive
  <2>4. \A q \in Pids : PidState(q)' = PidState(q)
    BY <2>1, <2>2, <2>3 DEF PidState
  <2> QED
    BY <2>1, <2>4, PidsStay DEF Refines
<1>3. CASE Panic
  BY <1>3, PanicRefines
<1>4. CASE (HadesKill \/ HadesKillsTheDead) /\ ~Panic
  <2>1. /\ ZeusHolds' = ZeusHolds /\ HadesHolds' = HadesHolds
        /\ UNCHANGED <<pid_vars, process_table>>
    BY <1>4 DEF HadesKill, HadesKillsTheDead, ZeusHolds, HadesHolds
  <2>2. PICK q : tcb[q] # "freed" /\ tcb' = [tcb EXCEPT ![q] = "killing"]
    BY <1>4 DEF HadesKill, HadesKillsTheDead, Ready
  <2>3. \A p \in Pids : tcb'[p] = "freed" <=> tcb[p] = "freed"
    BY <2>2 DEF SafeInv, TypeInv, TypeOK, TcbTypeOK
  <2> QED
    BY <2>1, <2>3, StayRefines
<1>5. CASE HadesHook
  <2>1. /\ ZeusHolds' = ZeusHolds /\ HadesHolds' = HadesHolds
        /\ UNCHANGED <<pid_vars, process_table>>
    BY <1>5 DEF HadesHook, ZeusHolds, HadesHolds
  <2>2. PICK p \in Pids : tcb[p] = "killing" /\ vTaskPreDeletionHook(p)
    BY <1>5 DEF HadesHook
  <2> QED
    BY <2>1, <2>2, PidDies DEF Refines, Service!Next
<1>6. CASE HadesFreePid
  <2>1. /\ HadesHolds = {dead_pid} /\ HadesHolds' = {} /\ ZeusHolds' = ZeusHolds
        /\ UNCHANGED <<process_table, tcb>> /\ pid_free(dead_pid) /\ dead_pid \in Pids
    BY <1>6 DEF HadesFreePid, ZeusHolds, HadesHolds, SafeInv, TypeInv, HadesHasPid
  <2>2. dead_pid \notin FreePids /\ PidState(dead_pid) = "dead"
    BY <2>1 DEF SafeInv, PidsAreExclusive, PidState
  <2>3. LossInv' /\ Service!GiveBack(dead_pid)
    BY <2>1, <2>2, PidGivenBack
  <2> QED
    BY <2>1, <2>3 DEF Refines, Service!Next
<1> QED
  BY <1>1, <1>2, <1>3, <1>4, <1>5, <1>6 DEF Hades, HadesDestroysTwice

LEMMA OthersRefine ==
  SafeInv /\ LossInv
    /\ (Deletion \/ (\E p \in Pids : App(p)) \/ Supervisor \/ UNCHANGED vars)
    => Refines
<1> SUFFICES ASSUME SafeInv, LossInv,
                    Deletion \/ (\E p \in Pids : App(p)) \/ Supervisor \/ UNCHANGED vars
             PROVE  Refines
  OBVIOUS
<1>1. /\ UNCHANGED <<pid_vars, process_table>>
      /\ ZeusHolds' = ZeusHolds /\ HadesHolds' = HadesHolds
  <2>1. /\ UNCHANGED <<pid_vars, process_table>>
        /\ UNCHANGED <<zeus, zeus_pid, hades, dead_pid>>
    BY DEF Deletion, IdleReap, CompositorClose, DeleteTcb, App, Supervisor,
           task_application_is_running, Request, Answer, Wait, Exit, vars, pid_vars,
           table_vars, zeus_vars, hades_vars
  <2> QED
    BY <2>1 DEF ZeusHolds, HadesHolds
<1>2. CASE \E p \in Pids : DeleteTcb(p)
  BY <1>1, <1>2, PidDies DEF DeleteTcb, Refines, Service!Next
<1>3. CASE ~ \E p \in Pids : DeleteTcb(p)
  <2>1. \/ tcb' = tcb
        \/ \E p \in Pids : /\ tcb[p] # "freed"
                           /\ \E s \in TcbState \ {"freed"} : tcb' = [tcb EXCEPT ![p] = s]
    BY <1>3 DEF Deletion, IdleReap, CompositorClose, App, Supervisor, Ready,
                task_application_is_running, Request, Answer, Wait, Exit, vars, tcb_vars,
                TcbState
  <2>2. \A p \in Pids : tcb'[p] = "freed" <=> tcb[p] = "freed"
    BY <2>1 DEF SafeInv, TypeInv, TypeOK, TcbTypeOK
  <2> QED
    BY <1>1, <2>2, StayRefines
<1> QED
  BY <1>2, <1>3

(* The process manager keeps the promises of ProcessService: initial states *)
(* map to initial states, and every step to a step of the service or to a  *)
(* stutter.                                                                *)
THEOREM Implements == Spec => ImplementsService
<1>1. Init => LossInv /\ Service!Init
  BY InitService DEF Service!Init
<1>2. SafeInv /\ LossInv /\ [Next]_vars => LossInv' /\ [Service!Next]_States
  BY ZeusRefines, HadesRefines, OthersRefine DEF Next, Refines
<1>3. SafeInv /\ LossInv /\ [Next]_vars => (SafeInv /\ LossInv)'
  BY <1>2, NextSafeInv
<1>4. Init => SafeInv /\ LossInv
  BY <1>1, InitSafeInv
<1> QED
  BY <1>1, <1>2, <1>3, <1>4, PTL DEF Spec, ImplementsService, Service!Spec, States

-----------------------------------------------------------------------------
(* The counts of the thread structures.  Between dropping the last          *)
(* reference and freeing the structure Hades or Zeus may be interrupted;    *)
(* no other info points to it then, and as long as no thread is made of a   *)
(* dying parent nobody takes a new reference.                               *)
Drops == {p \in Pids : \/ hades = "destroy" /\ p = dead_pid
                       \/ zeus = "destroy" /\ p = zeus_pid}

ThreadOf(p) == task_info[p].thread

Holders(s) == Users(s) \ Drops

LastIsDropped ==
  \A p \in Drops :
    ThreadOf(p) \in Thread
      => refcount[ThreadOf(p)] = 0 /\ \A q \in Drops : ThreadOf(q) = ThreadOf(p) => q = p

HoldersAreCounted ==
  \A s \in Thread :
    /\ s \in allocated => refcount[s] = Cardinality(Holders(s))
    /\ Users(s) # {} => s \in allocated

CountInv == HoldersAreCounted /\ LastIsDropped

LEMMA HoldersAreFinite ==
  ASSUME NEW s
  PROVE  IsFiniteSet(Users(s)) /\ IsFiniteSet(Holders(s)) /\ Cardinality(Holders(s)) \in Nat
<1>1. IsFiniteSet(Pids)
  BY MaxPidAssumption, FS_Interval DEF Pids
<1>2. Users(s) \subseteq Pids /\ Holders(s) \subseteq Users(s)
  BY DEF Users, Holders
<1>3. IsFiniteSet(Users(s)) /\ IsFiniteSet(Holders(s))
  BY <1>1, <1>2, FS_Subset
<1> QED
  BY <1>3, FS_CardinalityType

LEMMA InitCount == Init => CountInv
<1> SUFFICES ASSUME Init PROVE CountInv
  OBVIOUS
<1>1. \A s \in Thread : Users(s) = {} /\ s \notin allocated
  BY TasksAssumption DEF Init, Users, NoInfo
<1>2. Drops = {}
  BY DEF Init, Drops
<1> QED
  BY <1>1, <1>2 DEF CountInv, HoldersAreCounted, LastIsDropped

LEMMA PanicCount == Panic => CountInv'
<1>1. Init' => CountInv'
  BY InitCount, PTL
<1> QED
  BY <1>1, PanicIsInit

(* Steps in which no reference is taken or dropped. *)
LEMMA CountFrame ==
  ASSUME CountInv, UNCHANGED <<refcount, allocated, task_info>>, Drops' = Drops
  PROVE  CountInv'
<1>1. \A s : Users(s)' = Users(s) /\ Holders(s)' = Holders(s)
  BY DEF Users, Holders
<1> QED
  BY <1>1 DEF CountInv, HoldersAreCounted, LastIsDropped, ThreadOf

LEMMA Structures ==
  ASSUME SafeInv
  PROVE  /\ task_info \in [Pids -> TaskInfo] /\ refcount \in [Struct -> Int]
         /\ allocated \subseteq Thread /\ Thread \subseteq Struct
         /\ \A t \in Thread : t # NoInfo.thread
BY TasksAssumption DEF SafeInv, TypeInv, TypeOK, InfoTypeOK, ThreadTypeOK, Struct, NoInfo

(* Zeus fills in the info of p with a reference to s, which p alone has or  *)
(* which has another holder.                                                *)
LEMMA TakeCounts ==
  ASSUME SafeInv, CountInv, NEW p \in Pids \ Drops, NEW s, NEW info,
         task_info[p] = NoInfo, info.thread = s,
         task_info' = [task_info EXCEPT ![p] = info], Drops' = Drops,
         \/ /\ s \in Thread \ allocated /\ allocated' = allocated \union {s}
            /\ refcount' = [refcount EXCEPT ![s] = 1]
         \/ /\ s \in Thread => Holders(s) # {}
            /\ allocated' = allocated
            /\ refcount' = [refcount EXCEPT ![s] = refcount[s] + 1]
  PROVE  CountInv'
<1> USE DEF CountInv, HoldersAreCounted
<1>0. p \in Pids /\ p \notin Drops
  OBVIOUS
<1>1. task_info'[p] = info /\ \A q \in Pids \ {p} : task_info'[q] = task_info[q]
  BY <1>0, Structures
<1>2. \A t \in Thread :
        /\ p \notin Users(t)
        /\ Users(t)' = IF t = s THEN Users(t) \union {p} ELSE Users(t)
  BY <1>0, <1>1, Structures DEF Users
<1>3. \A t \in Thread :
        /\ p \notin Holders(t)
        /\ Holders(t)' = IF t = s THEN Holders(t) \union {p} ELSE Holders(t)
  BY <1>0, <1>2 DEF Holders
<1>4. \A t \in Thread \ {s} : refcount'[t] = refcount[t] /\ (t \in allocated' <=> t \in allocated)
  BY Structures
<1>5. ASSUME s \in Thread PROVE s \in allocated' /\ refcount'[s] = Cardinality(Holders(s)')
  <2>1. Cardinality(Holders(s) \union {p}) = Cardinality(Holders(s)) + 1
    BY <1>3, <1>5, HoldersAreFinite, FS_AddElement
  <2>2. Holders(s)' = Holders(s) \union {p}
    BY <1>3, <1>5
  <2>3. CASE s \in Thread \ allocated /\ allocated' = allocated \union {s}
             /\ refcount' = [refcount EXCEPT ![s] = 1]
    <3>1. Holders(s) = {}
      BY <2>3 DEF Holders
    <3>2. refcount'[s] = 1
      BY <2>3, Structures
    <3> QED
      BY <2>1, <2>2, <2>3, <3>1, <3>2, FS_EmptySet
  <2>4. CASE Holders(s) # {} /\ allocated' = allocated
             /\ refcount' = [refcount EXCEPT ![s] = refcount[s] + 1]
    <3>1. s \in allocated
      BY <1>5, <2>4 DEF Holders
    <3>2. refcount'[s] = refcount[s] + 1 /\ refcount[s] = Cardinality(Holders(s))
      BY <1>5, <2>4, <3>1, Structures
    <3> QED
      BY <2>1, <2>2, <2>4, <3>1, <3>2
  <2> QED
    BY <1>5, <2>3, <2>4
<1>6. HoldersAreCounted'
  <2> SUFFICES ASSUME NEW t \in Thread
               PROVE  /\ t \in allocated' => refcount'[t] = Cardinality(Holders(t)')
                      /\ Users(t)' # {} => t \in allocated'
    OBVIOUS
  <2>1. CASE t = s
    BY <1>5, <2>1
  <2>2. CASE t # s
    BY <1>2, <1>3, <1>4, <2>2
  <2> QED
    BY <2>1, <2>2
<1>7. LastIsDropped'
  <2>1. \A q \in Drops : ThreadOf(q)' = ThreadOf(q)
    BY <1>0, <1>1 DEF ThreadOf, Drops
  <2>2. \A q \in Drops : ThreadOf(q) \in Thread => ThreadOf(q) # s
    <3> SUFFICES ASSUME NEW q \in Drops, ThreadOf(q) \in Thread, ThreadOf(q) = s PROVE FALSE
      OBVIOUS
    <3>1. q \in Users(s)
      BY DEF Users, ThreadOf, Drops
    <3>2. s \in allocated /\ refcount[s] = Cardinality(Holders(s)) /\ refcount[s] = 0
      BY <3>1 DEF LastIsDropped
    <3>3. Holders(s) = {}
      BY <3>2, HoldersAreFinite, FS_EmptySet
    <3> QED
      BY <3>2, <3>3
  <2> QED
    BY <1>4, <2>1, <2>2 DEF LastIsDropped
<1> QED
  BY <1>6, <1>7

(* p drops its reference; the info stays for a while if that was the last.  *)
LEMMA DropCounts ==
  ASSUME SafeInv, CountInv, NEW p \in Pids \ Drops, NEW s, s = ThreadOf(p),
         refcount' = [refcount EXCEPT ![s] = refcount[s] - 1],
         allocated' = allocated,
         \/ refcount[s] = 1 /\ task_info' = task_info /\ Drops' = Drops \union {p}
         \/ task_info' = [task_info EXCEPT ![p] = NoInfo] /\ Drops' = Drops
  PROVE  CountInv'
<1> USE DEF CountInv, HoldersAreCounted
<1>0. p \in Pids /\ p \notin Drops
  OBVIOUS
<1>1. \A q \in Pids \ {p} : task_info'[q] = task_info[q]
  BY Structures
<1>2. \A t \in Thread : /\ Users(t)' \subseteq Users(t)
                        /\ Holders(t)' = Holders(t) \ {p}
  <2>1. CASE task_info' = task_info /\ Drops' = Drops \union {p}
    BY <2>1 DEF Users, Holders
  <2>2. CASE task_info' = [task_info EXCEPT ![p] = NoInfo] /\ Drops' = Drops
    <3>1. \A t \in Thread : Users(t)' = Users(t) \ {p}
      BY <1>0, <2>2, Structures DEF Users
    <3> QED
      BY <2>2, <3>1 DEF Holders
  <2> QED
    BY <2>1, <2>2
<1>3. \A t \in Thread : t # s => p \notin Holders(t)
  BY DEF Holders, Users, ThreadOf
<1>4. \A t \in Thread \ {s} : refcount'[t] = refcount[t]
  BY Structures
<1>5. ASSUME s \in Thread
      PROVE  /\ s \in allocated /\ refcount[s] # 0 /\ refcount'[s] = refcount[s] - 1
             /\ refcount'[s] = Cardinality(Holders(s)')
  <2>1. p \in Holders(s) /\ s \in allocated /\ refcount[s] = Cardinality(Holders(s))
    BY <1>0, <1>5 DEF Holders, Users, ThreadOf
  <2>2. Cardinality(Holders(s) \ {p}) = Cardinality(Holders(s)) - 1
    BY <2>1, HoldersAreFinite, FS_RemoveElement
  <2>3. refcount[s] # 0
    BY <2>1, HoldersAreFinite, FS_EmptySet
  <2>4. refcount'[s] = refcount[s] - 1
    BY <1>5, Structures
  <2> QED
    BY <1>2, <1>5, <2>1, <2>2, <2>3, <2>4
<1>6. HoldersAreCounted'
  <2> SUFFICES ASSUME NEW t \in Thread
               PROVE  /\ t \in allocated => refcount'[t] = Cardinality(Holders(t)')
                      /\ Users(t)' # {} => t \in allocated
    OBVIOUS
  <2>1. t \in allocated => refcount'[t] = Cardinality(Holders(t)')
    <3>1. CASE t = s
      BY <1>5, <3>1
    <3>2. CASE t # s
      <4>1. Holders(t)' = Holders(t)
        BY <1>2, <1>3, <3>2
      <4> QED
        BY <1>4, <3>2, <4>1
    <3> QED
      BY <3>1, <3>2
  <2>2. Users(t)' # {} => t \in allocated
    BY <1>2
  <2> QED
    BY <2>1, <2>2
<1>7. \A q \in Drops : /\ ThreadOf(q)' = ThreadOf(q)
                       /\ ThreadOf(q) \in Thread => /\ ThreadOf(q) # s
                                                    /\ refcount'[ThreadOf(q)] = 0
  <2>1. \A q \in Drops : ThreadOf(q)' = ThreadOf(q)
    BY <1>0, <1>1 DEF ThreadOf, Drops
  <2>2. \A q \in Drops : ThreadOf(q) \in Thread => ThreadOf(q) # s
    BY <1>5 DEF LastIsDropped
  <2> QED
    BY <1>4, <2>1, <2>2 DEF LastIsDropped
<1>8. LastIsDropped'
  <2>1. CASE Drops' = Drops
    BY <1>7, <2>1 DEF LastIsDropped
  <2>2. CASE refcount[s] = 1 /\ task_info' = task_info /\ Drops' = Drops \union {p}
    <3>1. ThreadOf(p)' = s /\ (s \in Thread => refcount'[s] = 0)
      BY <1>5, <2>2 DEF ThreadOf
    <3> QED
      BY <1>7, <2>2, <3>1 DEF LastIsDropped
  <2> QED
    BY <2>1, <2>2
<1> QED
  BY <1>6, <1>8

(* p, which dropped the last reference, frees the structure. *)
LEMMA FreeCounts ==
  ASSUME SafeInv, CountInv, NEW p \in Drops, NEW s \in allocated, s = ThreadOf(p),
         refcount' = refcount, allocated' = allocated \ {s},
         task_info' = [task_info EXCEPT ![p] = NoInfo], Drops' = Drops \ {p}
  PROVE  CountInv'
<1> USE DEF CountInv, HoldersAreCounted
<1>0. p \in Pids /\ s \in Thread /\ refcount[s] = 0
  BY Structures DEF Drops, LastIsDropped
<1>1. \A t \in Thread : Users(t)' = Users(t) \ {p} /\ Holders(t)' = Holders(t)
  <2>1. \A t \in Thread : Users(t)' = Users(t) \ {p}
    BY <1>0, Structures DEF Users
  <2> QED
    BY <2>1 DEF Holders
<1>2. Users(s)' = {}
  <2>1. Holders(s) = {}
    BY <1>0, HoldersAreFinite, FS_EmptySet
  <2>2. \A q \in Users(s) : q \in Drops /\ ThreadOf(q) = s
    BY <2>1 DEF Holders, Users, ThreadOf
  <2>3. \A q \in Users(s) : q = p
    BY <1>0, <2>2 DEF LastIsDropped
  <2> QED
    BY <1>0, <1>1, <2>3
<1>3. HoldersAreCounted'
  BY <1>1, <1>2
<1>4. LastIsDropped'
  <2>1. \A q \in Drops \ {p} : ThreadOf(q)' = ThreadOf(q)
    BY Structures DEF ThreadOf, Drops
  <2> QED
    BY <2>1 DEF LastIsDropped
<1> QED
  BY <1>3, <1>4

(* Whoever has a pid to start or to bury has one, and not the same. *)
LEMMA Apart ==
  ASSUME SafeInv, FailedIsNobodys
  PROVE  /\ zeus \in {"build", "create", "fail"} => zeus_pid \in Pids \ Drops
         /\ hades = "unlist" => dead_pid \in Pids \ Drops
         /\ zeus = "destroy" => zeus_pid \in Drops
         /\ hades = "destroy" => dead_pid \in Drops
         /\ zeus = "destroy" /\ hades \in {"unlist", "destroy"} => zeus_pid # dead_pid
<1>1. /\ zeus \in {"build", "create", "fail"} => zeus_pid \in Pids /\ zeus_pid \notin HadesHolds
      /\ zeus = "destroy" => zeus_pid \in Pids
      /\ hades \in {"unlist", "destroy"} => dead_pid \in Pids
  BY DEF SafeInv, TypeInv, ZeusHasPid, HadesHasPid, PidsAreExclusive, ZeusHolds
<1>2. zeus = "destroy" /\ hades \in {"unlist", "destroy"} => zeus_pid # dead_pid
  BY DEF SafeInv, FailedIsNobodys, DeathsAreReportedOnce, HadesHolds
<1> QED
  BY <1>1, <1>2 DEF Drops, HadesHolds

LEMMA ZeusCount ==
  ASSUME SafeInv, FailedIsNobodys, BurialInv, CountInv, Zeus, NoThreadOfDyingParent'
  PROVE  CountInv'
<1>1. CASE /\ UNCHANGED <<refcount, allocated, task_info, hades, dead_pid>>
           /\ zeus # "destroy" /\ zeus' # "destroy"
  <2>1. Drops' = Drops
    BY <1>1 DEF Drops
  <2> QED
    BY <1>1, <2>1, CountFrame
<1>2. CASE Panic
  BY <1>2, PanicCount
<1>3. CASE ZeusBuildProcess \/ (ZeusBuildThread /\ zeus' = "create")
  <2>1. /\ zeus = "build" /\ zeus' \in {"create", "fail"}
        /\ UNCHANGED <<hades, dead_pid, command, zeus_pid>>
    BY <1>3 DEF ZeusBuildProcess, ZeusBuildThread, ZeusBuilds, hades_vars
  <2>2. task_info[zeus_pid] = NoInfo /\ Drops' = Drops /\ zeus_pid \in Pids \ Drops
    BY <2>1, Apart DEF Drops, BurialInv, StartsClean, Buried
  <2>3. CASE ZeusBuildProcess
    <3>1. PICK s \in Thread \ allocated :
            /\ allocated' = allocated \union {s}
            /\ refcount' = [refcount EXCEPT ![s] = 1]
            /\ \E q : NewInfo(q, s)
      BY <2>3 DEF ZeusBuildProcess
    <3>2. PICK q : task_info' = [task_info EXCEPT ![zeus_pid] =
                                   [type |-> command.type, parent |-> q, thread |-> s]]
      BY <3>1 DEF NewInfo
    <3>3. PICK info : info = [type |-> command.type, parent |-> q, thread |-> s]
      OBVIOUS
    <3>4. info.thread = s /\ task_info' = [task_info EXCEPT ![zeus_pid] = info]
      BY <3>2, <3>3
    <3> QED
      BY <2>2, <3>1, <3>4, TakeCounts
  <2>4. CASE ZeusBuildThread
    <3>0. PICK s : s = IF command.parent = Kernel THEN KernelThread
                                                  ELSE task_info[command.parent].thread
      OBVIOUS
    <3>1. /\ command.type = "thread" /\ ~command.parent_gone /\ zeus' = "create"
          /\ allocated' = allocated
          /\ refcount' = [refcount EXCEPT ![s] = refcount[s] + 1]
          /\ NewInfo(command.parent, s)
      <4> DEFINE parents == IF command.parent = Kernel THEN KernelThread
                                                       ELSE task_info[command.parent].thread
      <4>1. /\ command.type = "thread" /\ ~command.parent_gone /\ allocated' = allocated
            /\ ZeusBuilds(IF refcount[parents] + 1 = 0 THEN "fail" ELSE "create")
            /\ IF refcount[parents] + 1 = 0
                 THEN UNCHANGED <<refcount, task_info>>
                 ELSE /\ refcount' = [refcount EXCEPT ![parents] = refcount[parents] + 1]
                      /\ NewInfo(command.parent, parents)
        BY <2>4 DEF ZeusBuildThread
      <4>2. parents = s /\ zeus' = "create"
        BY <1>3, <2>4, <3>0, <4>1 DEF ZeusBuildProcess
      <4> HIDE DEF parents
      <4> QED
        BY <4>1, <4>2 DEF ZeusBuilds
    <3>2. PICK info : info = [type |-> command.type, parent |-> command.parent, thread |-> s]
      OBVIOUS
    <3>3. info.thread = s /\ task_info' = [task_info EXCEPT ![zeus_pid] = info]
      BY <3>1, <3>2 DEF NewInfo
    <3>4. ASSUME s \in Thread PROVE Holders(s) # {}
      <4>1. command.parent \in Callers
        BY DEF SafeInv, TypeInv, TypeOK, ZeusTypeOK, Command
      <4>2. command.parent \in Users(s) /\ command.parent # zeus_pid
        BY <2>1, <3>0, <3>1, <3>4, <4>1, TasksAssumption
        DEF Users, Callers, BurialInv, ParentOK, Pending, Starting
      <4>3. CASE command.parent \notin Drops
        BY <4>2, <4>3 DEF Holders
      <4>4. CASE command.parent \in Drops
        <5>1. hades = "destroy" /\ dead_pid = command.parent
          BY <2>1, <4>4 DEF Drops
        <5>2. task_info'[zeus_pid].thread = s
          BY <2>2, <3>3, Structures
        <5>3. task_info'[dead_pid].thread = s
          <6>1. task_info[dead_pid].thread = s /\ dead_pid \in Pids \ {zeus_pid}
            BY <4>2, <5>1 DEF Users
          <6> QED
            BY <3>3, <6>1, Structures
        <5> QED
          BY <2>1, <3>1, <5>1, <5>2, <5>3 DEF NoThreadOfDyingParent
      <4> QED
        BY <4>3, <4>4
    <3> QED
      BY <2>2, <3>1, <3>3, <3>4, TakeCounts
  <2> QED
    BY <1>3, <2>3, <2>4
<1>4. CASE ZeusFail
  <2>0. PICK s : s = ThreadOf(zeus_pid)
    OBVIOUS
  <2>1. /\ zeus = "fail" /\ UNCHANGED <<hades, dead_pid, zeus_pid, allocated>>
        /\ refcount' = IF s = NoThread THEN refcount
                                       ELSE [refcount EXCEPT ![s] = refcount[s] - 1]
        /\ \/ /\ s # NoThread /\ refcount[s] = 1
              /\ zeus' = "destroy" /\ task_info' = task_info
           \/ /\ zeus' = "reply"
              /\ task_info' = [task_info EXCEPT ![zeus_pid] = NoInfo]
    BY <1>4, <2>0 DEF ZeusFail, hades_vars, Dropped, LastReference, ThreadOf
  <2>2. zeus_pid \in Pids \ Drops
    BY <2>1, Apart
  <2>3. Drops' = IF zeus' = "destroy" THEN Drops \union {zeus_pid} ELSE Drops
    BY <2>1, <2>2 DEF Drops
  <2>4. CASE s # NoThread
    BY <2>0, <2>1, <2>2, <2>3, <2>4, DropCounts
  <2>5. CASE s = NoThread
    <3>1. \A q \in Pids \ {zeus_pid} : task_info'[q] = task_info[q]
      BY <2>1, <2>5, Structures
    <3>2. \A t \in Thread : Users(t)' = Users(t)
      BY <2>0, <2>1, <2>2, <2>5, <3>1, Structures, TasksAssumption DEF Users, ThreadOf
    <3>3. \A q \in Drops : ThreadOf(q)' = ThreadOf(q)
      BY <2>2, <3>1 DEF ThreadOf, Drops
    <3>4. Drops' = Drops /\ \A t \in Thread : Holders(t)' = Holders(t)
      BY <2>1, <2>3, <2>5, <3>2 DEF Holders
    <3> QED
      BY <2>1, <2>5, <3>2, <3>3, <3>4 DEF CountInv, HoldersAreCounted, LastIsDropped
  <2> QED
    BY <2>4, <2>5
<1>5. CASE ZeusDestroy
  <2>0. PICK s : s = ThreadOf(zeus_pid)
    OBVIOUS
  <2>1. /\ zeus = "destroy" /\ zeus' = "reply" /\ UNCHANGED <<hades, dead_pid, zeus_pid, refcount>>
        /\ s \in allocated /\ allocated' = allocated \ {s}
        /\ task_info' = [task_info EXCEPT ![zeus_pid] = NoInfo]
    BY <1>5, <2>0 DEF ZeusDestroy, hades_vars, ThreadOf
  <2>2. zeus_pid \in Drops /\ Drops' = Drops \ {zeus_pid}
    BY <2>1, Apart DEF Drops
  <2> QED
    BY <2>0, <2>1, <2>2, FreeCounts
<1>6. ASSUME \/ ZeusReceive \/ ZeusNoMemory \/ ZeusBuildThreadOfFreedParent \/ ZeusCreateTask
             \/ process_table_add_task \/ ZeusTag \/ ZeusReply \/ ZeusWake
             \/ (ZeusBuildThread /\ zeus' # "create")
      PROVE  \/ Panic
             \/ /\ UNCHANGED <<refcount, allocated, task_info, hades, dead_pid>>
                /\ zeus # "destroy" /\ zeus' # "destroy"
  BY <1>6
  DEF ZeusReceive, ZeusNoMemory, ZeusBuildThread, ZeusBuildThreadOfFreedParent, ZeusBuilds,
      ZeusCreateTask, process_table_add_task, ZeusTag, ZeusReply, ZeusWake, thread_vars,
      info_vars, hades_vars
<1> QED
  BY <1>1, <1>2, <1>3, <1>4, <1>5, <1>6 DEF Zeus, ZeusDestroysTwice

LEMMA HadesCount ==
  ASSUME SafeInv, FailedIsNobodys, CountInv, Hades
  PROVE  CountInv'
<1>1. CASE /\ UNCHANGED <<refcount, allocated, task_info, zeus, zeus_pid>>
           /\ hades # "destroy" /\ hades' # "destroy"
  <2>1. Drops' = Drops
    BY <1>1 DEF Drops
  <2> QED
    BY <1>1, <2>1, CountFrame
<1>2. CASE Panic
  BY <1>2, PanicCount
<1>3. CASE HadesUnlist
  <2>0. PICK s : s = ThreadOf(dead_pid)
    OBVIOUS
  <2>1. /\ hades = "unlist" /\ UNCHANGED <<allocated, dead_pid, zeus, zeus_pid>>
        /\ refcount' = [refcount EXCEPT ![s] = refcount[s] - 1]
        /\ \/ refcount[s] = 1 /\ hades' = "destroy" /\ task_info' = task_info
           \/ hades' = "notify" /\ task_info' = [task_info EXCEPT ![dead_pid] = NoInfo]
    BY <1>3, <2>0
    DEF HadesUnlist, Dropped, LastReference, info_vars, task_info_delete, ThreadOf
  <2>2. dead_pid \in Pids \ Drops
    BY <2>1, Apart
  <2>3. Drops' = IF hades' = "destroy" THEN Drops \union {dead_pid} ELSE Drops
    BY <2>1, <2>2 DEF Drops
  <2> QED
    BY <2>0, <2>1, <2>2, <2>3, DropCounts
<1>4. CASE HadesDestroy
  <2>0. PICK s : s = ThreadOf(dead_pid)
    OBVIOUS
  <2>1. /\ hades = "destroy" /\ hades' = "notify" /\ UNCHANGED <<dead_pid, zeus, zeus_pid, refcount>>
        /\ s \in allocated /\ allocated' = allocated \ {s}
        /\ task_info' = [task_info EXCEPT ![dead_pid] = NoInfo]
    BY <1>4, <2>0 DEF HadesDestroy, task_info_delete, ThreadOf
  <2>2. dead_pid \in Drops /\ Drops' = Drops \ {dead_pid}
    BY <2>1, Apart DEF Drops
  <2> QED
    BY <2>0, <2>1, <2>2, FreeCounts
<1> QED
  BY <1>1, <1>2, <1>3, <1>4
  DEF Hades, HadesReceive, HadesDestroysTwice, HadesNotify, HadesKill, HadesKillsTheDead, HadesHook,
      HadesFreePid, HadesWake, thread_vars, info_vars, zeus_vars

LEMMA NextCount ==
  ASSUME SafeInv, FailedIsNobodys, BurialInv, CountInv, [Next]_vars, NoThreadOfDyingParent'
  PROVE  CountInv'
<1>1. CASE Zeus
  BY <1>1, ZeusCount
<1>2. CASE Hades
  BY <1>2, HadesCount
<1>3. CASE Deletion \/ (\E p \in Pids : App(p)) \/ Supervisor \/ UNCHANGED vars
  <2>1. UNCHANGED <<refcount, allocated, task_info, hades, dead_pid, zeus, zeus_pid>>
    BY <1>3
    DEF Deletion, IdleReap, CompositorClose, DeleteTcb, App, Request, Answer, Wait, Exit, Supervisor,
        task_application_is_running, vars, thread_vars, info_vars, hades_vars, zeus_vars
  <2>2. Drops' = Drops
    BY <2>1 DEF Drops
  <2> QED
    BY <2>1, <2>2, CountFrame
<1> QED
  BY <1>1, <1>2, <1>3 DEF Next

(* A thread structure is freed with its last user and no sooner, and its    *)
(* count is the number of the infos that point to it, as long as no thread  *)
(* is made of a parent that Hades is taking apart: failed starts of threads *)
(* and processes, which drop their reference in Zeus while Hades drops      *)
(* others, and deletions in the middle of a request cannot make it wrong.   *)
THEOREM OnlyDyingParents == Spec => OnlyDyingParentsMiscount
<1>1. Init => CountInv
  BY InitCount
<1>2. SafeInv /\ FailedIsNobodys /\ BurialInv /\ CountInv /\ [Next]_vars /\ NoThreadOfDyingParent'
        => CountInv'
  BY NextCount
<1>3. CountInv => CountsAreExact
  <2>1. \A s : Users(s) \ Dropping(s) = Holders(s)
    BY DEF Holders, Dropping, Drops, Users
  <2> QED
    BY <2>1 DEF CountInv, HoldersAreCounted, CountsAreExact
<1> QED
  BY Burials, <1>1, <1>2, <1>3, PTL DEF Spec, OnlyDyingParentsMiscount
==============================================================================
