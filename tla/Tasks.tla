------------------------------- MODULE Tasks --------------------------------
(***************************************************************************)
(* Process and thread lifecycle of BadgeVMS (badgevms/task.c).             *)
(*                                                                         *)
(* Zeus (priority 10, core 1) starts tasks on request, Hades (priority 11, *)
(* core 1) buries them, the applications (priority 5, core 1) ask for new  *)
(* tasks, collect dead children, and end; run_init(), the supervisor, is   *)
(* the kernel task with pid 0 and runs on core 0 beside them.  FreeRTOS    *)
(* deletes the tasks: an ending task waits for an idle task, which calls   *)
(* vTaskPreDeletionHook() and frees the task control block (TCB); a task   *)
(* deleted by another task gets both in that task's context.               *)
(*                                                                         *)
(* A task_info, its TCB and its pid are created together, so all three are *)
(* named by the pid; each has its own lifetime.  A pointer that outlives   *)
(* what it points to is marked in the message that carries it, and using   *)
(* it has the outcomes the build can produce, a panic among them.          *)
(***************************************************************************)
EXTENDS PidTable, Sequences, FiniteSets

CONSTANTS
  Thread,         \* task_thread_t structures the heap has room for
  KernelThread,   \* the static kernel_thread
  NoThread,       \* NULL
  HadesQueueLen,  \* 16 pids
  ChildQueueLen,  \* 10 pids
  KernelQueueLen, \* 100 pids, the supervisor's children queue
  Asks,           \* what the environment's tasks create, by their own type
  Ends,           \* the types of tasks that end by themselves
  UserKills,      \* whether the user closes applications with FN + cross
  MaxRequests     \* bound: creations asked for since boot

TaskType == {"process", "thread"}

ASSUME TasksAssumption ==
  /\ KernelThread \notin Thread
  /\ NoThread \notin Thread \union {KernelThread}
  /\ {HadesQueueLen, ChildQueueLen, KernelQueueLen} \subseteq Nat \ {0}
  /\ Asks \in [TaskType -> SUBSET TaskType]
  /\ Ends \subseteq TaskType
  /\ UserKills \in BOOLEAN
  /\ MaxRequests \in Nat

VARIABLES
  process_table,      \* the pids whose process_table entry is not NULL
  process_table_lock, \* TRUE while the supervisor holds it
  task_info,          \* per pid: type, parent pid, thread; NoThread: no info
  children,           \* per pid: the queue of dead children's pids
  refcount,           \* per task_thread_t
  allocated,          \* the task_thread_t structures that are not freed
  tcb,                \* per pid: where its FreeRTOS task is
  tagged,             \* the pids whose TCB points to their task_info
  call,               \* per pid: running, or waiting for Zeus's answer
  notified,           \* per pid: task notification 0; 0 is no notification
  zeus_queue, zeus, command, zeus_pid,
  hades_queue, hades, dead_pid, parent_pid, orphans,
  requests           \* creations asked for since boot, capped by MaxRequests

table_vars  == <<process_table, process_table_lock>>
thread_vars == <<refcount, allocated>>
info_vars   == <<task_info, children>>
tcb_vars    == <<tcb, tagged>>
app_vars    == <<call, notified, requests>>
zeus_vars   == <<zeus_queue, zeus, command, zeus_pid>>
hades_vars  == <<hades_queue, hades, dead_pid, parent_pid, orphans>>

vars == <<pid_table, head, tail, process_table, process_table_lock, task_info,
          children, refcount, allocated, tcb, tagged, call, notified,
          zeus_queue, zeus, command, zeus_pid, hades_queue, hades, dead_pid,
          parent_pid, orphans, requests>>

Kernel   == 0
Callers  == Pids \union {Kernel}
Struct   == Thread \union {KernelThread}
NoInfo   == [type |-> "process", parent |-> Kernel, thread |-> NoThread]
NoCommand ==
  [caller |-> Kernel, parent |-> Kernel, type |-> "process",
   caller_gone |-> FALSE, parent_gone |-> FALSE]

TaskInfo == [type : TaskType, parent : Callers, thread : Struct \union {NoThread}]
Command  == [caller : Callers, parent : Callers, type : TaskType,
             caller_gone : BOOLEAN, parent_gone : BOOLEAN]

(* ready: in the scheduler's lists.  terminating: deleted itself, waits    *)
(* for an idle task.  reaping, closing, killing: off every list, its hook  *)
(* about to run in an idle task, the compositor, or Hades.                 *)
TcbState   == {"ready", "terminating", "reaping", "closing", "killing", "freed"}
ZeusState  == {"receive", "build", "create", "enlist", "tag", "fail", "destroy", "reply", "nap"}
HadesState == {"receive", "unlist", "destroy", "notify", "kill", "hook", "nap"}

TableTypeOK  == process_table \subseteq Pids /\ process_table_lock \in BOOLEAN
ThreadTypeOK == refcount \in [Struct -> Int] /\ allocated \subseteq Thread
InfoTypeOK   == task_info \in [Pids -> TaskInfo] /\ children \in [Callers -> Seq(Pids)]
TcbTypeOK    == tcb \in [Pids -> TcbState] /\ tagged \subseteq Pids

AppTypeOK ==
  /\ call \in [Callers -> {"run", "answer"}]
  /\ notified \in [Callers -> Callers \union {NoPid}]
  /\ requests \in 0..MaxRequests

ZeusTypeOK ==
  /\ zeus_queue \in Seq(Command) /\ zeus \in ZeusState
  /\ command \in Command /\ zeus_pid \in Callers \union {NoPid}

HadesTypeOK ==
  /\ hades_queue \in Seq(Pids) /\ hades \in HadesState
  /\ dead_pid \in Callers /\ parent_pid \in Callers /\ orphans \subseteq Pids

TypeOK ==
  /\ PidTableTypeOK /\ TableTypeOK /\ ThreadTypeOK /\ InfoTypeOK
  /\ TcbTypeOK /\ AppTypeOK /\ ZeusTypeOK /\ HadesTypeOK

-----------------------------------------------------------------------------
(* Who may run on core 1.  Hades blocks on its queue, on the table lock,   *)
(* in its naps and inside the cleanup of a thread; Zeus on its queue, on   *)
(* the table lock, in its naps and inside such a cleanup.  The scheduler runs Zeus only while     *)
(* Hades is blocked, and applications only while both are.                 *)
HadesRuns ==
  \/ hades = "receive" /\ hades_queue # <<>>
  \/ hades \in {"unlist", "notify"} /\ ~process_table_lock
  \/ hades = "kill"
  \/ hades = "hook" /\ Len(hades_queue) < HadesQueueLen

ZeusRuns ==
  /\ ~HadesRuns
  /\ \/ zeus = "receive" /\ zeus_queue # <<>>
     \/ zeus = "enlist" /\ ~process_table_lock
     \/ zeus \in {"build", "create", "tag", "fail", "reply"}

AppsRun == ~HadesRuns /\ ~ZeusRuns

Ready(p) == tcb[p] = "ready"

(* heap_caps_free(task_info) and the kernel's free(TCB): commands in flight *)
(* that point there dangle from now on.                                     *)
InfoFreed(c, p) == IF c.parent = p THEN [c EXCEPT !.parent_gone = TRUE] ELSE c
TcbFreed(c, p)  == IF c.caller = p THEN [c EXCEPT !.caller_gone = TRUE] ELSE c

(* task_thread_destroy(s) drops a reference; the last one frees s. *)
LastReference(s) == refcount[s] = 1
Dropped(s)       == [refcount EXCEPT ![s] = @ - 1]

(* process_table_remove_task(), and a variant that leaves the entry of a    *)
(* task whose thread others still use.                                      *)
process_table_remove_last(p) ==
  process_table' = IF LastReference(task_info[p].thread) THEN process_table \ {p}
                                                         ELSE process_table

process_table_remove_task(p) == process_table' = process_table \ {p}

(* task_info_delete(): the info and its children queue are gone. *)
task_info_delete(p) ==
  /\ task_info' = [task_info EXCEPT ![p] = NoInfo]
  /\ children' = [children EXCEPT ![p] = <<>>]
  /\ zeus_queue' = [i \in DOMAIN zeus_queue |-> InfoFreed(zeus_queue[i], p)]
  /\ command' = InfoFreed(command, p)

(* vTaskPreDeletionHook() in the context of whoever deletes p, then the    *)
(* free of its TCB.  An untagged task is taken for a kernel task.          *)
vTaskPreDeletionHook(p) ==
  /\ \/ /\ p \in tagged
        /\ Len(hades_queue) < HadesQueueLen     \* xQueueSend, portMAX_DELAY
        /\ hades_queue' = Append(hades_queue, p)
     \/ /\ p \notin tagged
        /\ UNCHANGED hades_queue
  /\ tcb' = [tcb EXCEPT ![p] = "freed"]
  /\ tagged' = tagged \ {p}
  /\ call' = [call EXCEPT ![p] = "run"]
  /\ notified' = [notified EXCEPT ![p] = 0]
  /\ UNCHANGED requests
  /\ zeus_queue' = [i \in DOMAIN zeus_queue |-> TcbFreed(zeus_queue[i], p)]
  /\ command' = TcbFreed(command, p)

(* A fault in a kernel task reboots the badge; all of this state is in RAM. *)
Panic ==
  /\ pid_table' = [s \in Slots |-> IF s = 0 THEN NoPid ELSE s]
  /\ head' = 1 /\ tail' = MaxPid
  /\ process_table' = {} /\ process_table_lock' = FALSE
  /\ task_info' = [p \in Pids |-> NoInfo]
  /\ children' = [p \in Callers |-> <<>>]
  /\ refcount' = [s \in Struct |-> 0] /\ allocated' = {}
  /\ tcb' = [p \in Pids |-> "freed"] /\ tagged' = {}
  /\ call' = [p \in Callers |-> "run"] /\ notified' = [p \in Callers |-> 0]
  /\ zeus_queue' = <<>> /\ zeus' = "receive" /\ command' = NoCommand /\ zeus_pid' = 0
  /\ hades_queue' = <<>> /\ hades' = "receive" /\ dead_pid' = 0 /\ parent_pid' = 0
  /\ orphans' = {} /\ requests' = 0

-----------------------------------------------------------------------------
Init ==
  /\ PidTableInit
  /\ process_table = {}
  /\ process_table_lock = FALSE
  /\ task_info = [p \in Pids |-> NoInfo]
  /\ children = [p \in Callers |-> <<>>]
  /\ refcount = [s \in Struct |-> 0]
  /\ allocated = {}
  /\ tcb = [p \in Pids |-> "freed"]
  /\ tagged = {}
  /\ call = [p \in Callers |-> "run"]
  /\ notified = [p \in Callers |-> 0]
  /\ zeus_queue = <<>> /\ zeus = "receive" /\ command = NoCommand /\ zeus_pid = 0
  /\ hades_queue = <<>> /\ hades = "receive" /\ dead_pid = 0 /\ parent_pid = 0 /\ orphans = {}
  /\ requests = 0

-----------------------------------------------------------------------------
(* Zeus *)

(* A new request, and pid_allocate() for it; without a pid there is nothing *)
(* to clean up.                                                             *)
ZeusReceive ==
  /\ ZeusRuns /\ zeus = "receive"
  /\ command' = Head(zeus_queue)
  /\ zeus_queue' = Tail(zeus_queue)
  /\ \E pid \in Pids \union {NoPid} :
       /\ pid_allocate(pid)
       /\ zeus_pid' = pid
       /\ zeus' = IF pid = NoPid THEN "reply" ELSE "build"
  /\ UNCHANGED <<table_vars, thread_vars, info_vars, tcb_vars, app_vars,
                 hades_vars>>

(* The frame of the steps that only move Zeus and fill in the new info. *)
ZeusBuilds(next) ==
  /\ ZeusRuns /\ zeus = "build" /\ zeus' = next
  /\ UNCHANGED <<pid_vars, table_vars, children, tcb_vars, app_vars, zeus_queue,
                 command, zeus_pid, hades_vars>>

(* The new task_info, with its reference to a thread structure s. *)
NewInfo(parent, s) ==
  task_info' = [task_info EXCEPT ![zeus_pid] =
                  [type |-> command.type, parent |-> parent, thread |-> s]]

(* task_info_init() or task_thread_init() found no memory. *)
ZeusNoMemory ==
  /\ ZeusBuilds("fail")
  /\ UNCHANGED <<thread_vars, task_info>>

(* task_thread_init(), then the fields.  The pid is read from parent_task_info *)
(* even when that was freed: the old pid, or, when task_info_init() got the    *)
(* same block, the pid that was just stored there.                             *)
ZeusBuildProcess ==
  /\ command.type = "process"
  /\ ZeusBuilds("create")
  /\ \E s \in Thread \ allocated :
       /\ allocated' = allocated \union {s}
       /\ refcount' = [refcount EXCEPT ![s] = 1]
       /\ \/ NewInfo(command.parent, s)
          \/ command.parent_gone /\ NewInfo(zeus_pid, s)

(* task_thread_ref(parent_task_info->thread) refuses a count that would     *)
(* become 0.                                                                *)
ZeusBuildThread ==
  LET s == IF command.parent = Kernel THEN KernelThread
                                      ELSE task_info[command.parent].thread
      refused == refcount[s] + 1 = 0
  IN /\ command.type = "thread" /\ ~command.parent_gone
     /\ ZeusBuilds(IF refused THEN "fail" ELSE "create")
     /\ IF refused
          THEN UNCHANGED <<refcount, task_info>>
          ELSE /\ refcount' = [refcount EXCEPT ![s] = @ + 1]
               /\ NewInfo(command.parent, s)
     /\ UNCHANGED allocated

(* The same through a freed parent_task_info: it reads NULL (the block was *)
(* cleared for the new task_info) or garbage.                              *)
ZeusBuildThreadOfFreedParent ==
  /\ command.type = "thread" /\ command.parent_gone
  /\ \/ ZeusBuilds("fail") /\ UNCHANGED <<thread_vars, task_info>>
     \/ ZeusRuns /\ zeus = "build" /\ Panic

(* xTaskCreatePinnedToCore(): from here on the scheduler may run the task. *)
ZeusCreateTask ==
  /\ ZeusRuns /\ zeus = "create"
  /\ \/ /\ zeus' = "enlist"
        /\ tcb' = [tcb EXCEPT ![zeus_pid] = "ready"]
     \/ /\ zeus' = "fail"
        /\ UNCHANGED tcb
  /\ UNCHANGED <<pid_vars, table_vars, thread_vars, info_vars, tagged, app_vars,
                 zeus_queue, command, zeus_pid, hades_vars>>

process_table_add_task ==
  /\ ZeusRuns /\ zeus = "enlist"
  /\ process_table' = process_table \union {zeus_pid}
  /\ zeus' = "tag"
  /\ UNCHANGED <<pid_vars, process_table_lock, thread_vars, info_vars, tcb_vars,
                 app_vars, zeus_queue, command, zeus_pid, hades_vars>>

(* vTaskSetThreadLocalStoragePointer() and vTaskSetApplicationTaskTag(). *)
ZeusTag ==
  /\ ZeusRuns /\ zeus = "tag"
  /\ \/ /\ zeus' = "reply"
        /\ tagged' = tagged \union ({zeus_pid} \ {p \in Pids : tcb[p] = "freed"})
        /\ UNCHANGED <<pid_vars, table_vars, thread_vars, info_vars, tcb, app_vars,
                       zeus_queue, command, zeus_pid, hades_vars>>
     \/ tcb[zeus_pid] = "freed" /\ Panic       \* a write into freed memory

(* A variant that forgets the thread reference of the task that failed. *)
ZeusFailKeepsReference ==
  /\ ZeusRuns /\ zeus = "fail" /\ zeus' = "reply"
  /\ pid_free(zeus_pid)
  /\ task_info' = [task_info EXCEPT ![zeus_pid] = NoInfo]
  /\ UNCHANGED <<table_vars, thread_vars, children, tcb_vars, app_vars,
                 zeus_queue, command, zeus_pid, hades_vars>>

(* error: the pid goes back first, then the thread reference.  Unless it    *)
(* was the last one, nothing blocks and the info is deleted at once.       *)
ZeusFail ==
  LET s    == task_info[zeus_pid].thread
      last == s # NoThread /\ LastReference(s)
  IN /\ ZeusRuns /\ zeus = "fail"
     /\ pid_free(zeus_pid)
     /\ refcount' = IF s = NoThread THEN refcount ELSE Dropped(s)
     /\ \/ /\ last
           /\ zeus' = "destroy"
           /\ UNCHANGED task_info
        \/ /\ ~last
           /\ zeus' = "reply"
           /\ task_info' = [task_info EXCEPT ![zeus_pid] = NoInfo]
     /\ UNCHANGED <<table_vars, allocated, children, tcb_vars, app_vars,
                    zeus_queue, command, zeus_pid, hades_vars>>

(* The end of task_thread_destroy(), which may have blocked, and the info.  *)
ZeusDestroy ==
  LET s == task_info[zeus_pid].thread
  IN /\ ~HadesRuns /\ zeus = "destroy"
     /\ s \in allocated
     /\ allocated' = allocated \ {s}
     /\ task_info' = [task_info EXCEPT ![zeus_pid] = NoInfo]
     /\ zeus' = "reply"
     /\ UNCHANGED <<pid_vars, table_vars, refcount, children, tcb_vars, app_vars,
                    zeus_queue, command, zeus_pid, hades_vars>>

(* free() of what the heap does not own: the static kernel_thread, or a     *)
(* structure that is freed already.                                         *)
ZeusDestroysTwice ==
  /\ ~HadesRuns /\ zeus = "destroy"
  /\ task_info[zeus_pid].thread \notin allocated
  /\ Panic

(* eTaskGetState(caller) # eDeleted, and a variant that answers only when a *)
(* pid was found.                                                           *)
IsAliveAndPidFound(p) == zeus_pid # NoPid /\ (p = Kernel \/ (p \in Pids /\ Ready(p)))

IsAlive(p) == p = Kernel \/ (p \in Pids /\ Ready(p))

(* out: the caller is notified with whatever zeus_pid holds, unless it is   *)
(* deleted.  A freed caller reads as deleted too, or, when the new task got *)
(* its block, as the new task.                                              *)
ZeusReply ==
  LET caller == IF command.caller_gone THEN zeus_pid ELSE command.caller
  IN /\ ZeusRuns /\ zeus = "reply"
     /\ \/ /\ IsAlive(caller)
           /\ notified' = [notified EXCEPT ![caller] = zeus_pid]
        \/ /\ command.caller_gone \/ ~IsAlive(caller)
           /\ UNCHANGED notified
     /\ zeus' = "nap" /\ command' = NoCommand /\ zeus_pid' = 0
     /\ UNCHANGED <<pid_vars, table_vars, thread_vars, info_vars, tcb_vars, call, requests,
                    zeus_queue, hades_vars>>

ZeusWake ==
  /\ zeus = "nap" /\ zeus' = "receive"
  /\ UNCHANGED <<pid_vars, table_vars, thread_vars, info_vars, tcb_vars, app_vars,
                 zeus_queue, command, zeus_pid, hades_vars>>

-----------------------------------------------------------------------------
(* Hades *)

(* Without a task info the death is logged and forgotten. *)
HadesReceive ==
  /\ hades = "receive" /\ hades_queue # <<>>
  /\ hades_queue' = Tail(hades_queue)
  /\ IF Head(hades_queue) \in process_table
       THEN /\ hades' = "unlist"
            /\ dead_pid' = Head(hades_queue)
            /\ parent_pid' = task_info[Head(hades_queue)].parent
       ELSE UNCHANGED <<hades, dead_pid, parent_pid>>
  /\ UNCHANGED <<pid_vars, table_vars, thread_vars, info_vars, tcb_vars, app_vars,
                 zeus_vars, orphans>>

(* process_table_remove_task(), then task_thread_destroy(): as long as other *)
(* tasks use the thread nothing blocks and the info is deleted at once.      *)
HadesUnlist ==
  LET s == task_info[dead_pid].thread
  IN /\ hades = "unlist" /\ ~process_table_lock
     /\ process_table_remove_task(dead_pid)
     /\ refcount' = Dropped(s)
     /\ \/ /\ LastReference(s)
           /\ hades' = "destroy"
           /\ UNCHANGED <<info_vars, zeus_queue, command>>
        \/ /\ ~LastReference(s)
           /\ hades' = "notify"
           /\ task_info_delete(dead_pid)
     /\ UNCHANGED <<pid_vars, process_table_lock, allocated, tcb_vars, app_vars,
                    zeus, zeus_pid, hades_queue, dead_pid, parent_pid, orphans>>

(* Open files, windows, sessions and pages are released, which may block;  *)
(* then the thread and the info are freed.                                 *)
HadesDestroy ==
  LET s == task_info[dead_pid].thread
  IN /\ hades = "destroy"
     /\ s \in allocated
     /\ allocated' = allocated \ {s}
     /\ task_info_delete(dead_pid)
     /\ hades' = "notify"
     /\ UNCHANGED <<pid_vars, table_vars, refcount, tcb_vars, app_vars, zeus,
                    zeus_pid, hades_queue, dead_pid, parent_pid, orphans>>

(* A structure that was freed under its user, or the static kernel_thread. *)
HadesDestroysTwice ==
  /\ hades = "destroy"
  /\ task_info[dead_pid].thread \notin allocated
  /\ Panic

(* The parent is still in the table, and a variant that does not look. *)
AnyParent == TRUE

ParentLives == parent_pid \in process_table \union {Kernel}

(* The tasks a dead one left behind, in the range of the scan. *)
LeftBehind == {p \in process_table \ {MaxPid} : task_info[p].parent = dead_pid}

(* Under the table lock: tell the parent, without waiting for room in its   *)
(* queue, and snapshot the handles of the tasks left behind.                *)
HadesNotify ==
  LET room == IF parent_pid = Kernel THEN KernelQueueLen ELSE ChildQueueLen
  IN /\ hades = "notify" /\ ~process_table_lock
     /\ children' = IF /\ ParentLives
                       /\ Len(children[parent_pid]) < room
                    THEN [children EXCEPT ![parent_pid] = Append(@, dead_pid)]
                    ELSE children
     /\ orphans' = LeftBehind
     /\ hades' = "kill"
     /\ UNCHANGED <<pid_vars, table_vars, thread_vars, task_info, tcb_vars,
                    app_vars, zeus_vars, hades_queue, dead_pid, parent_pid>>

NextOrphan == CHOOSE p \in orphans : \A q \in orphans : p <= q

(* vTaskDelete() of a task that is alive, or ended and still waits for an  *)
(* idle task: it is taken off its list.                                    *)
HadesKill ==
  /\ hades = "kill" /\ orphans # {}
  /\ tcb[NextOrphan] \in {"ready", "terminating"}
  /\ tcb' = [tcb EXCEPT ![NextOrphan] = "killing"]
  /\ orphans' = orphans \ {NextOrphan}
  /\ hades' = "hook"
  /\ UNCHANGED <<pid_vars, table_vars, thread_vars, info_vars, tagged, app_vars,
                 zeus_vars, hades_queue, dead_pid, parent_pid>>

(* vTaskDelete() of an orphan that is on no list any more, or whose TCB is *)
(* freed: a fault, or the death of the task that got the block since.      *)
HadesKillsTheDead ==
  /\ hades = "kill" /\ orphans # {}
  /\ tcb[NextOrphan] \notin {"ready", "terminating"}
  /\ \/ Panic
     \/ /\ tcb[NextOrphan] = "freed"
        /\ \E q \in Pids : Ready(q) /\ tcb' = [tcb EXCEPT ![q] = "killing"]
        /\ orphans' = orphans \ {NextOrphan}
        /\ hades' = "hook"
        /\ UNCHANGED <<pid_vars, table_vars, thread_vars, info_vars, tagged,
                       app_vars, zeus_vars, hades_queue, dead_pid, parent_pid>>

(* The hook of the task Hades is deleting: it sends to Hades' own queue. *)
HadesHook ==
  /\ hades = "hook" /\ hades' = "kill"
  /\ \E p \in Pids : tcb[p] = "killing" /\ vTaskPreDeletionHook(p)
  /\ UNCHANGED <<pid_vars, table_vars, thread_vars, info_vars, zeus, zeus_pid,
                 dead_pid, parent_pid, orphans>>

HadesFreePid ==
  /\ hades = "kill" /\ orphans = {}
  /\ pid_free(dead_pid)
  /\ hades' = "nap" /\ dead_pid' = 0 /\ parent_pid' = 0
  /\ UNCHANGED <<table_vars, thread_vars, info_vars, tcb_vars, app_vars, zeus_vars,
                 hades_queue, orphans>>

HadesWake ==
  /\ hades = "nap" /\ hades' = "receive"
  /\ UNCHANGED <<pid_vars, table_vars, thread_vars, info_vars, tcb_vars, app_vars,
                 zeus_vars, hades_queue, dead_pid, parent_pid, orphans>>

-----------------------------------------------------------------------------
(* FreeRTOS' idle tasks, one per core, and the compositor, which shares    *)
(* core 1 with all the others: above them in the build with the PPA, level *)
(* with the applications in the one without.                               *)

IdleReap(p) ==
  /\ tcb[p] = "terminating"
  /\ Cardinality({q \in Pids : tcb[q] = "reaping"}) < 2
  /\ tcb' = [tcb EXCEPT ![p] = "reaping"]
  /\ UNCHANGED <<pid_vars, table_vars, thread_vars, info_vars, tagged, app_vars,
                 zeus_vars, hades_vars>>

(* FN + cross on an application's window. *)
CompositorClose(p) ==
  /\ UserKills
  /\ p \in process_table \intersect tagged /\ Ready(p)
  /\ \A q \in Pids : tcb[q] # "closing"
  /\ tcb' = [tcb EXCEPT ![p] = "closing"]
  /\ UNCHANGED <<pid_vars, table_vars, thread_vars, info_vars, tagged, app_vars,
                 zeus_vars, hades_vars>>

(* The rest of vTaskDelete() in an idle task or the compositor. *)
DeleteTcb(p) ==
  /\ tcb[p] \in {"reaping", "closing"}
  /\ vTaskPreDeletionHook(p)
  /\ UNCHANGED <<pid_vars, table_vars, thread_vars, info_vars, zeus, zeus_pid,
                 hades, dead_pid, parent_pid, orphans>>

-----------------------------------------------------------------------------
(* Applications, and the supervisor as pid 0 *)

(* get_task_info(): an untagged task passes for the kernel task. *)
InfoOf(p) == IF p \in tagged THEN p ELSE Kernel

MayCreate(p) == IF p = Kernel THEN {"process"} ELSE Asks[task_info[p].type]

(* run_task() and thread_create(): queue the request, wait for the answer. *)
Request(p, type) ==
  /\ call[p] = "run" /\ type \in MayCreate(p)
  /\ zeus_queue = <<>> /\ requests < MaxRequests
  /\ requests' = requests + 1
  /\ zeus_queue' = <<[NoCommand EXCEPT !.caller = p, !.parent = InfoOf(p),
                                       !.type = type]>>
  /\ call' = [call EXCEPT ![p] = "answer"]
  /\ UNCHANGED <<pid_vars, table_vars, thread_vars, info_vars, tcb_vars, notified,
                 zeus, command, zeus_pid, hades_vars>>

(* ulTaskNotifyTakeIndexed(0, pdTRUE, portMAX_DELAY) returns the new pid. *)
Answer(p) ==
  /\ call[p] = "answer" /\ notified[p] # 0
  /\ call' = [call EXCEPT ![p] = "run"]
  /\ notified' = [notified EXCEPT ![p] = 0]
  /\ UNCHANGED <<requests, pid_vars, table_vars, thread_vars, info_vars, tcb_vars, zeus_vars,
                 hades_vars>>

(* wait(): the pid of a dead child. *)
Wait(p) ==
  /\ call[p] = "run" /\ children[InfoOf(p)] # <<>>
  /\ children' = [children EXCEPT ![InfoOf(p)] = Tail(@)]
  /\ UNCHANGED <<pid_vars, table_vars, thread_vars, task_info, tcb_vars,
                 app_vars, zeus_vars, hades_vars>>

(* A variant in which the ending task reports its death itself, before it  *)
(* deletes itself.                                                         *)
ExitTellsHades(p) ==
  /\ call[p] = "run" /\ task_info[p].type \in Ends
  /\ Len(hades_queue) < HadesQueueLen
  /\ hades_queue' = Append(hades_queue, p)
  /\ tcb' = [tcb EXCEPT ![p] = "terminating"]
  /\ UNCHANGED <<pid_vars, table_vars, thread_vars, info_vars, tagged, app_vars,
                 zeus_vars, hades, dead_pid, parent_pid, orphans>>

(* Return from the entry point, exit(), abort(), or a fault that Cerberos  *)
(* catches: vTaskDelete(NULL).                                             *)
Exit(p) ==
  /\ call[p] = "run" /\ task_info[p].type \in Ends
  /\ tcb' = [tcb EXCEPT ![p] = "terminating"]
  /\ UNCHANGED <<pid_vars, table_vars, thread_vars, info_vars, tagged, app_vars,
                 zeus_vars, hades_vars>>

App(p) ==
  /\ AppsRun /\ Ready(p)
  /\ \/ \E type \in TaskType : Request(p, type)
     \/ Answer(p)
     \/ Wait(p)
     \/ Exit(p)

(* task_application_is_running(), called before an application is started. *)
task_application_is_running ==
  /\ call[Kernel] = "run"
  /\ process_table_lock' = ~process_table_lock
  /\ UNCHANGED <<pid_vars, process_table, thread_vars, info_vars, tcb_vars,
                 app_vars, zeus_vars, hades_vars>>

Supervisor ==
  \/ task_application_is_running
  \/ /\ ~process_table_lock
     /\ Request(Kernel, "process") \/ Answer(Kernel) \/ Wait(Kernel)

-----------------------------------------------------------------------------
Zeus ==
  \/ ZeusReceive \/ ZeusNoMemory \/ ZeusBuildProcess \/ ZeusBuildThread
  \/ ZeusBuildThreadOfFreedParent \/ ZeusCreateTask \/ process_table_add_task
  \/ ZeusTag \/ ZeusFail \/ ZeusDestroy \/ ZeusDestroysTwice \/ ZeusReply \/ ZeusWake

Hades ==
  \/ HadesReceive \/ HadesUnlist \/ HadesDestroy \/ HadesDestroysTwice
  \/ HadesNotify \/ HadesKill \/ HadesKillsTheDead \/ HadesHook
  \/ HadesFreePid \/ HadesWake

Deletion == \E p \in Pids : IdleReap(p) \/ CompositorClose(p) \/ DeleteTcb(p)

Next ==
  \/ Zeus
  \/ Hades
  \/ Deletion
  \/ \E p \in Pids : App(p)
  \/ Supervisor

Spec == Init /\ [][Next]_vars

-----------------------------------------------------------------------------
(* Who holds a pid that is neither in the ring nor in the process table. *)
ZeusHolds  == IF zeus \in {"build", "create", "enlist", "fail"} THEN {zeus_pid} ELSE {}
HadesHolds == IF hades \in {"destroy", "notify", "kill", "hook"} THEN {dead_pid} ELSE {}

(* A pid is in one place: in the ring (once), with Zeus who is starting a   *)
(* task under it, in the process table, or with Hades who is burying its    *)
(* task.  A pid given back twice, or too early, would name two tasks.       *)
PidsAreExclusive ==
  /\ RingIsInjective
  /\ FreePids \intersect (ZeusHolds \union process_table \union HadesHolds) = {}
  /\ ZeusHolds \intersect (process_table \union HadesHolds) = {}
  /\ HadesHolds \intersect process_table = {}

(* A pid that can be handed out again has left nothing behind: no TCB, no  *)
(* task_info, no unread death, no death that would be blamed on the next   *)
(* task of that pid.  Zeus alone hands pids out, so the info of a task that *)
(* could not be started may be deleted after its pid went back.            *)
FreePidsAreClean ==
  \A p \in FreePids :
    /\ tcb[p] = "freed"
    /\ task_info[p] = NoInfo \/ (zeus = "destroy" /\ p = zeus_pid)
    /\ children[p] = <<>>
    /\ \A i \in DOMAIN hades_queue : hades_queue[i] # p

(* Every death that Hades has yet to handle is of a task whose TCB is gone *)
(* and whose process_table entry is still there, and is reported once: the *)
(* "has no task info?" branch of hades() cannot be reached, whatever       *)
(* order tasks end, are killed by the user and are killed as orphans in.   *)
DeathsAreReportedOnce ==
  /\ \A i \in DOMAIN hades_queue :
       /\ hades_queue[i] \in process_table
       /\ tcb[hades_queue[i]] = "freed"
       /\ hades = "unlist" => hades_queue[i] # dead_pid
       /\ \A j \in DOMAIN hades_queue : hades_queue[j] = hades_queue[i] => j = i
  /\ hades = "unlist" => dead_pid \in process_table /\ tcb[dead_pid] = "freed"

(* The switch hooks and the deletion hook follow a task's thread-local      *)
(* pointer to its task_info for as long as the TCB exists: the info is      *)
(* never freed before the TCB.                                              *)
InfoOutlivesTcb ==
  \A p \in Pids : tcb[p] # "freed" => task_info[p].thread # NoThread

-----------------------------------------------------------------------------
(* The thread structures. *)

Users(s) == {p \in Pids : task_info[p].thread = s}

(* The users whose reference is dropped, while Hades or Zeus frees s. *)
Dropping(s) ==
  {p \in Users(s) : \/ hades = "destroy" /\ p = dead_pid
                    \/ zeus = "destroy" /\ p = zeus_pid}

(* A thread structure lives exactly as long as somebody uses it: the count *)
(* is the number of its infos, without those whose reference was just      *)
(* dropped, and no task runs on a freed structure.                         *)
CountsAreExact ==
  \A s \in Thread :
    /\ s \in allocated => refcount[s] = Cardinality(Users(s) \ Dropping(s))
    /\ Users(s) # {} => s \in allocated

(* zeus(), "Tried to create a thread from a dying parent, even I can't do  *)
(* this": a thread is not given the structure that Hades is taking apart.  *)
(* The code does not keep this.                                            *)
NoThreadOfDyingParent ==
  ~ /\ zeus = "create" /\ command.type = "thread"
    /\ hades = "destroy"
    /\ task_info[zeus_pid].thread = task_info[dead_pid].thread

(* But that is all that can make the counts wrong: everything else that     *)
(* Zeus and Hades do to them, failed starts included, comes out even.      *)
OnlyDyingParentsMiscount == []NoThreadOfDyingParent => []CountsAreExact

-----------------------------------------------------------------------------
(* The process manager keeps the promises of ProcessService. *)
PidState(p) ==
  IF p \in FreePids THEN "free"
  ELSE IF p \in ZeusHolds THEN "starting"
  ELSE IF p \in process_table /\ tcb[p] # "freed" THEN "live"
  ELSE IF p \in process_table \union HadesHolds THEN "dead"
  ELSE "lost"

Service == INSTANCE ProcessService
             WITH Pid <- Pids, state <- [p \in Pids |-> PidState(p)]
ImplementsService == Service!Spec

-----------------------------------------------------------------------------
(* Fairness.  Hades has the highest priority on core 1 and Zeus the next:  *)
(* each is scheduled whenever it is not blocked, Hades naps after each     *)
(* death, so Zeus cannot be kept from running, and the supervisor, which   *)
(* looks at the table at most once a second, does not always hold the lock *)
(* when they want it.  The idle task of core 0 runs when drivers and       *)
(* supervisor sleep, and the compositor's task is above all the others, or *)
(* in the build without the PPA takes its turn with the applications.      *)
Fairness ==
  /\ SF_vars(Zeus)
  /\ SF_vars(Hades)
  /\ \A p \in Pids : WF_vars(IdleReap(p)) /\ SF_vars(DeleteTcb(p))
  /\ WF_vars(process_table_lock /\ task_application_is_running)

FairSpec == Spec /\ Fairness

(* A task that asks for a new task gets an answer, unless it is deleted     *)
(* while it waits or the badge reboots.                                     *)
RequestsAreAnswered ==
  \A p \in Callers :
    call[p] = "answer" ~> notified[p] # 0 \/ call[p] = "run"

(* Hades waits for room in the queue that only Hades empties. *)
HadesWaitsForItself == hades = "hook" /\ Len(hades_queue) = HadesQueueLen

(* A task that ended, and whose TLS was set, is buried: its pid leaves the  *)
(* process table, whatever Hades has to wait for but itself.               *)
EndedAreBuried ==
  \A p \in Pids :
    tcb[p] = "terminating" /\ p \in tagged ~> p \notin process_table \/ HadesWaitsForItself

-----------------------------------------------------------------------------
(* Statements of the code's comments and documents that the code does not  *)
(* keep.                                                                   *)

(* start_app() takes every answer but -1 for a started process: a pid that *)
(* is answered is not already back in the ring.                            *)
AnsweredPidIsStarted ==
  zeus = "reply" /\ zeus_pid # NoPid => zeus_pid \notin FreePids

(* "This prevents dead tasks from piling up while Zeus tries to spawn new   *)
(* ones": a task that ended, and whose TLS was set, is buried.             *)
DeadAreBuried ==
  \A p \in Pids : tcb[p] = "terminating" /\ p \in tagged ~> p \notin process_table

(* The answer to a request reaches the task that asked, and only while it  *)
(* waits: nobody finds a notification he did not ask for.                  *)
AnswersAreAskedFor ==
  \A p \in Callers : notified[p] # 0 => call[p] = "answer"

(* hades(), "any child processes/threads this process left behind": when a  *)
(* pid is given back none of them runs any more.                           *)
OrphansAreKilled ==
  \A p \in FreePids, d \in process_table : task_info[d].parent = p => ~Ready(d)
=============================================================================
