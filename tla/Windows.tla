------------------------------ MODULE Windows -------------------------------
(***************************************************************************)
(* The life of a window (badgevms/compositor/compositor.c), from           *)
(* window_create() to the free() of its memory, with everybody who takes   *)
(* part: applications that send commands through compositor_queue and wait *)
(* to be notified, the compositor that executes them between two frames,   *)
(* the user who closes the front window with FN + cross, and Hades, who    *)
(* destroys the windows that a dead process has left (badgevms/task.c).    *)
(*                                                                         *)
(* Only the compositor frees a window.  A window is named by its address,  *)
(* and an address is used once, so that a pointer that outlives its window *)
(* stays recognisable.  Processes have one thread; task and process are    *)
(* the same here, and a task is not born again.                            *)
(***************************************************************************)
EXTENDS Naturals, Sequences, FiniteSets, SequencesExt

CONSTANTS
  Task,
  Window,            \* addresses; bounds the windows ever created
  None,              \* NULL
  MaxWindows,        \* MAX_WINDOWS, 10
  QueueLen,          \* places in compositor_queue, 10
  CommandsPerFrame,  \* WINDOW_COMMANDS_PER_FRAME, 5
  KeysPerFrame,      \* KEYBOARD_EVENTS_PER_FRAME, 10
  DoubleBuffered,    \* the windows created with WINDOW_FLAG_DOUBLE_BUFFERED
  HadesQueueLen      \* places in hades_queue, 16

ASSUME WindowsAssumption ==
  /\ None \notin Task \union Window
  /\ IsFiniteSet(Task)
  /\ {MaxWindows, QueueLen, HadesQueueLen} \subseteq Nat \ {0}
  /\ {CommandsPerFrame, KeysPerFrame} \subseteq Nat
  /\ DoubleBuffered \subseteq Window

VARIABLES
  window_stack,     \* the ring from its front window on, along next
  linked,           \* the windows whose prev and next are not NULL
  cur_num_windows,
  heap,             \* the windows that are allocated
  used,             \* the addresses that were ever given out
  task_info,        \* per window: whose task_info it points to
  framebuffer,      \* the windows with framebuffers
  clean,            \* the windows whose front framebuffer is clean
  compositor_queue,
  alive,            \* the tasks that are not deleted
  terminating,      \* the tasks that ended and wait for an idle task
  infos,            \* the tasks whose task_info is not freed
  resources,        \* per task: its table of RES_WINDOW
  call,             \* per task: what it does, for which window
  notified,         \* the pairs <<task, index>> with a pending notification
  compositor,       \* where the compositor is in its loop
  processed,        \* commands executed, then keys read, in this round
  remaining,        \* the windows of this frame that are not yet drawn
  in_use,           \* the compositor's local task_info
  hades_queue, hades, dead, doomed

window_vars == <<window_stack, linked, cur_num_windows, heap, used, task_info,
                 framebuffer, clean>>
task_vars   == <<alive, terminating, infos, resources, call, notified>>
loop_vars   == <<compositor, processed, remaining, in_use>>
hades_vars  == <<hades_queue, hades, dead, doomed>>
vars == <<window_stack, linked, cur_num_windows, heap, used, task_info,
          framebuffer, clean, compositor_queue, alive, terminating, infos,
          resources, call, notified, compositor, processed, remaining, in_use, hades_queue,
          hades, dead, doomed>>

(* WINDOW_FLAGS, WINDOW_MOVE and WINDOW_RESIZE are one command here: what  *)
(* they change is DisplayDamage's subject.                                 *)
Command == {"create", "destroy", "change", "swap"}
Message == [command : Command, window : Window, caller : Task \union {None}]

(* run: in its own code.  send: before xQueueSend().  answer: waits for    *)
(* notification 0, that its command is done.  drawn: waits for             *)
(* notification 1, that its content was drawn.                             *)
Idle == [at |-> "run", command |-> "change", window |-> None]
Call == [at : {"run", "send", "answer", "drawn"}, command : Command,
         window : Window \union {None}]

TypeOK ==
  /\ window_stack \in Seq(Window) /\ linked \subseteq Window
  /\ cur_num_windows \in Nat
  /\ heap \subseteq used /\ used \subseteq Window
  /\ task_info \in [Window -> Task \union {None}]
  /\ framebuffer \subseteq Window /\ clean \subseteq Window
  /\ compositor_queue \in Seq(Message) /\ Len(compositor_queue) <= QueueLen
  /\ alive \union terminating \subseteq infos /\ infos \subseteq Task
  /\ resources \in [Task -> SUBSET Window]
  /\ call \in [Task -> Call]
  /\ notified \subseteq Task \X {0, 1}
  /\ compositor \in {"commands", "keys", "kill", "hook", "look", "draw"}
  /\ processed \in 0..CommandsPerFrame \union 0..KeysPerFrame
  /\ remaining \in Seq(Window)
  /\ in_use \in Task \union {None}
  /\ hades_queue \in Seq(Task) /\ Len(hades_queue) <= HadesQueueLen
  /\ hades \in {"receive", "destroy", "send"}
  /\ dead \in Task \union {None} /\ doomed \in Window \union {None}

Init ==
  /\ window_stack = <<>> /\ linked = {} /\ cur_num_windows = 0
  /\ heap = {} /\ used = {} /\ framebuffer = {} /\ clean = {}
  /\ task_info = [w \in Window |-> None]
  /\ compositor_queue = <<>>
  /\ alive = Task /\ terminating = {} /\ infos = Task
  /\ resources = [t \in Task |-> {}]
  /\ call = [t \in Task |-> Idle]
  /\ notified = {}
  /\ compositor = "commands" /\ processed = 0 /\ remaining = <<>> /\ in_use = None
  /\ hades_queue = <<>> /\ hades = "receive" /\ dead = None /\ doomed = None

-----------------------------------------------------------------------------
(* The ring.  A new window is linked in between the last one and the front *)
(* and becomes the front; when a window leaves, the one after it does.     *)
push_window(w) ==
  /\ window_stack' = <<w>> \o window_stack
  /\ linked' = linked \union {w}
  /\ cur_num_windows' = cur_num_windows + 1

IndexOf(w) == CHOOSE i \in DOMAIN window_stack : window_stack[i] = w
After(w)   == SubSeq(window_stack, IndexOf(w) + 1, Len(window_stack))
Before(w)  == SubSeq(window_stack, 1, IndexOf(w) - 1)
Linked(w)  == w \in linked

(* Mutant: as before "Make the guard at the top of this function actually  *)
(* work": the pointers of a window that leaves are not reset.              *)
remove_window_keeps_pointers(w) ==
  IF Linked(w)
  THEN /\ window_stack' = IF w \in ToSet(window_stack) THEN After(w) \o Before(w)
                                                       ELSE window_stack
       /\ cur_num_windows' = cur_num_windows - 1
       /\ UNCHANGED linked
  ELSE UNCHANGED <<window_stack, linked, cur_num_windows>>

(* Mutant: the only window is taken for one that is not in the ring. *)
remove_window_keeps_last(w) ==
  IF Linked(w) /\ Len(window_stack) > 1
  THEN /\ window_stack' = After(w) \o Before(w)
       /\ linked' = linked \ {w}
       /\ cur_num_windows' = cur_num_windows - 1
  ELSE UNCHANGED <<window_stack, linked, cur_num_windows>>

(* Mutant: "window_stack = prev" is missing where two windows were left. *)
remove_window_loses_other(w) ==
  IF Linked(w)
  THEN /\ window_stack' = IF Len(window_stack) = 2 THEN <<>> ELSE After(w) \o Before(w)
       /\ linked' = linked \ {w}
       /\ cur_num_windows' = cur_num_windows - 1
  ELSE UNCHANGED <<window_stack, linked, cur_num_windows>>

remove_window(w) ==
  IF Linked(w)
  THEN /\ window_stack' = After(w) \o Before(w)
       /\ linked' = linked \ {w}
       /\ cur_num_windows' = cur_num_windows - 1
  ELSE UNCHANGED <<window_stack, linked, cur_num_windows>>

-----------------------------------------------------------------------------
(* Applications. *)
Runs(t) == t \in alive /\ call[t].at = "run"

Ask(t, command, w) ==
  call' = [call EXCEPT ![t] = [at |-> "send", command |-> command, window |-> w]]

(* window_create(), up to its xQueueSend(): the window is recorded as a     *)
(* resource before the compositor knows it.                                *)
window_create(t) ==
  /\ Runs(t)
  /\ cur_num_windows < MaxWindows
  /\ \E w \in Window \ used :
       /\ heap' = heap \union {w} /\ used' = used \union {w}
       /\ task_info' = [task_info EXCEPT ![w] = t]
       /\ resources' = [resources EXCEPT ![t] = @ \union {w}]
       /\ Ask(t, "create", w)
  /\ UNCHANGED <<window_stack, linked, cur_num_windows, framebuffer, clean,
                 compositor_queue, alive, terminating, infos, notified, loop_vars, hades_vars>>

(* The handles that a task has: of the windows it has created and not      *)
(* destroyed.                                                              *)
Handles(t) == resources[t]

(* The new framebuffer is marked clean: nothing is drawn until the first   *)
(* window_present().                                                       *)
window_framebuffer_create(t, w) ==
  /\ Runs(t) /\ w \in Handles(t) \ framebuffer
  /\ framebuffer' = framebuffer \union {w}
  /\ clean' = clean \union {w}
  /\ UNCHANGED <<window_stack, linked, cur_num_windows, heap, used, task_info,
                 compositor_queue, task_vars, loop_vars, hades_vars>>

(* window_position_set(), window_size_set(), window_flags_set(). *)
window_change(t, w) ==
  /\ Runs(t) /\ w \in Handles(t)
  /\ Ask(t, "change", w)
  /\ UNCHANGED <<window_vars, compositor_queue, alive, terminating, infos, resources,
                 notified, loop_vars, hades_vars>>

(* window_present(): a double-buffered window asks for a swap and does not *)
(* wait for the drawing.                                                   *)
window_present(t, w, block) ==
  /\ Runs(t) /\ w \in Handles(t) \intersect framebuffer
  /\ IF w \in DoubleBuffered
     THEN Ask(t, "swap", w) /\ UNCHANGED clean
     ELSE /\ clean' = clean \ {w}
          /\ IF block
             THEN call' = [call EXCEPT ![t].at = "drawn", ![t].window = w]
             ELSE UNCHANGED call
  /\ UNCHANGED <<window_stack, linked, cur_num_windows, heap, used, task_info,
                 framebuffer, compositor_queue, alive, terminating, infos, resources,
                 notified, loop_vars, hades_vars>>

PresentReturns(t) ==
  /\ t \in alive /\ call[t].at = "drawn" /\ <<t, 1>> \in notified
  /\ call' = [call EXCEPT ![t] = Idle]
  /\ notified' = notified \ {<<t, 1>>}
  /\ UNCHANGED <<window_vars, compositor_queue, alive, terminating, infos, resources,
                 loop_vars, hades_vars>>

window_destroy(t, w) ==
  /\ Runs(t) /\ w \in Handles(t)
  /\ task_info' = [task_info EXCEPT ![w] = None]
  /\ Ask(t, "destroy", w)
  /\ UNCHANGED <<window_stack, linked, cur_num_windows, heap, used, framebuffer,
                 clean, compositor_queue, alive, terminating, infos, resources, notified,
                 loop_vars, hades_vars>>

(* xQueueSend(compositor_queue, ..., portMAX_DELAY) blocks while it is full. *)
Post(message) ==
  /\ Len(compositor_queue) < QueueLen
  /\ compositor_queue' = Append(compositor_queue, message)

Send(t) ==
  /\ t \in alive /\ call[t].at = "send"
  /\ Post([command |-> call[t].command, window |-> call[t].window, caller |-> t])
  /\ call' = [call EXCEPT ![t].at = "answer"]
  /\ UNCHANGED <<window_vars, alive, terminating, infos, resources, notified, loop_vars, hades_vars>>

Forgets(t) == IF call[t].command = "destroy" THEN {call[t].window} ELSE {}

(* Back from ulTaskNotifyTakeIndexed(0, ...): window_destroy() forgets the  *)
(* resource, window_present() clears the flag of the front buffer.         *)
CommandReturns(t) ==
  /\ t \in alive /\ call[t].at = "answer" /\ <<t, 0>> \in notified
  /\ notified' = notified \ {<<t, 0>>}
  /\ resources' = [resources EXCEPT ![t] = @ \ Forgets(t)]
  /\ clean' = IF call[t].command = "swap" THEN clean \ {call[t].window} ELSE clean
  /\ call' = [call EXCEPT ![t] = Idle]
  /\ UNCHANGED <<window_stack, linked, cur_num_windows, heap, used, task_info,
                 framebuffer, compositor_queue, alive, terminating, infos, loop_vars, hades_vars>>

(* vTaskDelete(): the task is on no list any more and counts as deleted,   *)
(* wherever it was, and nobody notifies it.                                *)
Stop(t) ==
  /\ alive' = alive \ {t}
  /\ call' = [call EXCEPT ![t] = Idle]
  /\ notified' = notified \ ({t} \X {0, 1})

(* vTaskPreDeletionHook(), in the context of whoever frees the TCB: it      *)
(* waits for room in hades_queue with portMAX_DELAY.                       *)
vTaskPreDeletionHook(t) ==
  /\ Len(hades_queue) < HadesQueueLen
  /\ hades_queue' = Append(hades_queue, t)

(* A task ends by itself, and is left to the idle task. *)
End(t) ==
  /\ Runs(t)
  /\ Stop(t)
  /\ terminating' = terminating \union {t}
  /\ UNCHANGED <<window_vars, compositor_queue, infos, resources, loop_vars,
                 hades_vars>>

IdleReap(t) ==
  /\ t \in terminating
  /\ vTaskPreDeletionHook(t)
  /\ terminating' = terminating \ {t}
  /\ UNCHANGED <<window_vars, compositor_queue, alive, infos, resources, call,
                 notified, loop_vars, hades, dead, doomed>>

-----------------------------------------------------------------------------
(* The compositor's loop.  Every round starts at a refresh of the display. *)

(* Mutant: the round ends before the caller of its last command is told. *)
TellUnlessLast(caller) ==
  IF caller \in alive /\ processed < CommandsPerFrame
  THEN notified' = notified \union {<<caller, 0>>}
  ELSE UNCHANGED notified

(* "if (eTaskGetState(message.caller) != eDeleted)"; there is no caller     *)
(* when Hades asks.                                                        *)
Tell(caller) ==
  IF caller \in alive
  THEN notified' = notified \union {<<caller, 0>>}
  ELSE UNCHANGED notified

Execute(m) ==
  CASE m.command = "create" ->
         push_window(m.window) /\ UNCHANGED <<heap, framebuffer, clean>>
    [] m.command = "destroy" ->
         /\ remove_window(m.window)
         /\ heap' = heap \ {m.window}
         /\ framebuffer' = framebuffer \ {m.window}
         /\ clean' = clean \ {m.window}
    [] OTHER ->
         UNCHANGED <<window_stack, linked, cur_num_windows, heap, framebuffer, clean>>

(* One command; after CommandsPerFrame + 1 of them the round goes on. *)
NextCommand ==
  /\ compositor = "commands" /\ compositor_queue # <<>>
  /\ Execute(Head(compositor_queue))
  /\ Tell(Head(compositor_queue).caller)
  /\ compositor_queue' = Tail(compositor_queue)
  /\ IF processed < CommandsPerFrame
     THEN processed' = processed + 1 /\ UNCHANGED compositor
     ELSE processed' = 0 /\ compositor' = "keys"
  /\ UNCHANGED <<used, task_info, alive, terminating, infos, resources, call, remaining,
                 in_use, hades_vars>>

(* All of this state is in RAM; a reboot starts from nothing. *)
Reboot ==
  /\ window_stack' = <<>> /\ linked' = {} /\ cur_num_windows' = 0
  /\ heap' = {} /\ used' = {} /\ framebuffer' = {} /\ clean' = {}
  /\ task_info' = [w \in Window |-> None]
  /\ compositor_queue' = <<>>
  /\ alive' = Task /\ terminating' = {} /\ infos' = Task
  /\ resources' = [t \in Task |-> {}]
  /\ call' = [t \in Task |-> Idle]
  /\ notified' = {}
  /\ compositor' = "commands" /\ processed' = 0 /\ remaining' = <<>> /\ in_use' = None
  /\ hades_queue' = <<>> /\ hades' = "receive" /\ dead' = None /\ doomed' = None

(* WINDOW_DESTROY of a window that is freed already: a fault, if the second *)
(* free() does not pass unnoticed.                                         *)
FreesTwice ==
  /\ compositor = "commands" /\ compositor_queue # <<>>
  /\ Head(compositor_queue).command = "destroy"
  /\ Head(compositor_queue).window \notin heap
  /\ Reboot

CommandsDone ==
  /\ compositor = "commands" /\ compositor_queue = <<>>
  /\ compositor' = "keys" /\ processed' = 0
  /\ UNCHANGED <<window_vars, compositor_queue, task_vars, remaining, in_use, hades_vars>>

Key ==
  /\ compositor = "keys" /\ processed < KeysPerFrame /\ window_stack # <<>>
  /\ processed' = processed + 1

ALT_TAB ==
  /\ Key
  /\ window_stack' = Append(Tail(window_stack), Head(window_stack))
  /\ UNCHANGED <<linked, cur_num_windows, heap, used, task_info, framebuffer, clean,
                 compositor_queue, task_vars, compositor, remaining, in_use, hades_vars>>

(* FN + cross: the front window leaves the ring and its owner is deleted.  *)
FN_CROSS ==
  /\ Key
  /\ LET w == Head(window_stack) IN
       /\ remove_window(w)
       /\ in_use' = task_info[w]
  /\ compositor' = "kill"
  /\ UNCHANGED <<heap, used, task_info, framebuffer, clean, compositor_queue,
                 task_vars, remaining, hades_vars>>

(* vTaskDelete() of the owner, unless there is none or it has ended. *)
Kill ==
  /\ compositor = "kill"
  /\ IF in_use \in alive
     THEN Stop(in_use) /\ compositor' = "hook" /\ UNCHANGED in_use
     ELSE compositor' = "keys" /\ in_use' = None /\ UNCHANGED <<alive, call, notified>>
  /\ UNCHANGED <<window_vars, compositor_queue, terminating, infos, resources,
                 processed, remaining, hades_vars>>

(* The deletion hook runs in the compositor, and may block it. *)
Hook ==
  /\ compositor = "hook"
  /\ vTaskPreDeletionHook(in_use)
  /\ compositor' = "keys" /\ in_use' = None
  /\ UNCHANGED <<window_vars, compositor_queue, task_vars, processed, remaining,
                 hades, dead, doomed>>

(* The last key is read; the frame is drawn from the back to the front. *)
KeysDone ==
  /\ compositor = "keys"
  /\ compositor' = IF window_stack = <<>> THEN "commands" ELSE "look"
  /\ remaining' = Reverse(window_stack) /\ processed' = 0
  /\ UNCHANGED <<window_vars, compositor_queue, task_vars, in_use, hades_vars>>

(* A window without an owner is being destroyed: it leaves the ring, and   *)
(* the frame ends.                                                         *)
DropOwnerless ==
  /\ compositor = "look" /\ task_info[Head(remaining)] = None
  /\ remove_window(Head(remaining))
  /\ compositor' = "commands" /\ remaining' = <<>>
  /\ UNCHANGED <<heap, used, task_info, framebuffer, clean, compositor_queue,
                 task_vars, processed, in_use, hades_vars>>

(* The owner is read once, and used until the window is drawn. *)
Look ==
  /\ compositor = "look" /\ task_info[Head(remaining)] # None
  /\ in_use' = task_info[Head(remaining)]
  /\ compositor' = "draw"
  /\ UNCHANGED <<window_vars, compositor_queue, task_vars, processed, remaining, hades_vars>>

(* test_and_set of the clean flag, the drawing, and the notification of    *)
(* the owner.  A window without framebuffer is passed over.                *)
Draw ==
  /\ compositor = "draw"
  /\ LET w == Head(remaining) IN
       /\ IF w \in framebuffer \ clean
          THEN /\ clean' = clean \union {w}
               /\ notified' = IF in_use \in alive THEN notified \union {<<in_use, 1>>}
                                                  ELSE notified
          ELSE UNCHANGED <<clean, notified>>
       /\ IF Len(remaining) > 1
          THEN compositor' = "look" /\ remaining' = Tail(remaining)
          ELSE compositor' = "commands" /\ remaining' = <<>>
  /\ in_use' = None
  /\ UNCHANGED <<window_stack, linked, cur_num_windows, heap, used, task_info,
                 framebuffer, compositor_queue, alive, terminating, infos, resources, call,
                 processed, hades_vars>>

-----------------------------------------------------------------------------
(* Hades, at the part of task_thread_destroy() about windows. *)
HadesReceive ==
  /\ hades = "receive" /\ hades_queue # <<>>
  /\ dead' = Head(hades_queue) /\ hades_queue' = Tail(hades_queue)
  /\ hades' = "destroy"
  /\ UNCHANGED <<window_vars, compositor_queue, task_vars, loop_vars, doomed>>

(* window_destroy_task(): the owner is cleared, then the command is sent,   *)
(* without a caller to notify.                                             *)
HadesDestroy ==
  /\ hades = "destroy"
  /\ \E w \in resources[dead] :
       /\ task_info' = [task_info EXCEPT ![w] = None]
       /\ resources' = [resources EXCEPT ![dead] = @ \ {w}]
       /\ doomed' = w
  /\ hades' = "send"
  /\ UNCHANGED <<window_stack, linked, cur_num_windows, heap, used, framebuffer, clean,
                 compositor_queue, alive, terminating, infos, call, notified, loop_vars,
                 hades_queue, dead>>

(* Mutant: Hades does not wait for room in the queue. *)
HadesSendsOnce ==
  /\ hades = "send"
  /\ compositor_queue' =
       IF Len(compositor_queue) < QueueLen
       THEN Append(compositor_queue, [command |-> "destroy", window |-> doomed, caller |-> None])
       ELSE compositor_queue
  /\ hades' = "destroy" /\ doomed' = None
  /\ UNCHANGED <<window_vars, task_vars, loop_vars, hades_queue, dead>>

HadesSend ==
  /\ hades = "send"
  /\ Post([command |-> "destroy", window |-> doomed, caller |-> None])
  /\ hades' = "destroy" /\ doomed' = None
  /\ UNCHANGED <<window_vars, task_vars, loop_vars, hades_queue, dead>>

(* free(thread), task_info_delete(), and on to the next death. *)
HadesFrees ==
  /\ hades = "destroy" /\ resources[dead] = {}
  /\ infos' = infos \ {dead}
  /\ hades' = "receive" /\ dead' = None
  /\ UNCHANGED <<window_vars, compositor_queue, alive, terminating, resources, call, notified,
                 loop_vars, hades_queue, doomed>>

-----------------------------------------------------------------------------
Compositor ==
  \/ NextCommand \/ FreesTwice \/ CommandsDone \/ ALT_TAB \/ FN_CROSS \/ Kill \/ Hook
  \/ KeysDone \/ DropOwnerless \/ Look \/ Draw

Hades == HadesReceive \/ HadesDestroy \/ HadesSend \/ HadesFrees

Begins(t) ==
  \/ window_create(t)
  \/ End(t)
  \/ \E w \in Window :
       \/ window_framebuffer_create(t, w)
       \/ window_change(t, w)
       \/ window_destroy(t, w)
       \/ \E block \in BOOLEAN : window_present(t, w, block)

Continues(t) == Send(t) \/ CommandReturns(t) \/ PresentReturns(t)

Next ==
  \/ Compositor
  \/ Hades
  \/ \E t \in Task : Begins(t) \/ Continues(t) \/ IdleReap(t)

Spec == Init /\ [][Next]_vars

(* The refresh interrupt keeps the compositor going.  Hades is above the    *)
(* applications, which share a core in turns.  Nobody has to begin a call,  *)
(* or to end.  Those who wait for room in compositor_queue are served in    *)
(* the order of priority and age, so none of them is passed for ever.       *)
Fairness ==
  /\ WF_vars(Compositor)
  /\ WF_vars(HadesReceive \/ HadesDestroy \/ HadesFrees) /\ SF_vars(HadesSend)
  /\ \A t \in Task :
       /\ SF_vars(Send(t)) /\ WF_vars(CommandReturns(t) \/ PresentReturns(t))
       /\ WF_vars(IdleReap(t))

FairSpec == Spec /\ Fairness

-----------------------------------------------------------------------------
(* compositor_window_count(), from which run_init() decides that the badge *)
(* is idle and restarts the launcher, is the number of windows on screen:  *)
(* a window that leaves early (FN + cross, or without owner in a frame) and *)
(* whose WINDOW_DESTROY comes later is counted out once.                   *)
WindowCountIsExact ==
  /\ cur_num_windows = Len(window_stack)
  /\ linked = ToSet(window_stack)

(* The compositor's ring and the frame it draws hold allocated windows     *)
(* only, although it drops windows from the ring and frees them later.     *)
OnlyLiveWindowsAreDrawn ==
  ToSet(window_stack) \union ToSet(remaining) \subseteq heap

(* FN + cross has read the owner of the window it closes. *)
Closing(t) == compositor = "kill" /\ in_use = t

(* An application that is in its own code sees each of its windows on      *)
(* screen: no command is acknowledged before it is executed, and nobody    *)
(* takes away the window of a task that lives, but for the moment between  *)
(* FN + cross and the deletion of the task.                                *)
WindowsOfRunningTasksAreShown ==
  \A t \in Task : Runs(t) /\ ~Closing(t) => resources[t] \subseteq ToSet(window_stack)

(* The compositor, deleting the task of a closed window, waits for Hades to *)
(* read a death; Hades, destroying a dead task's window, waits for the      *)
(* compositor to read a command.                                           *)
DeadlyEmbrace ==
  /\ compositor = "hook" /\ Len(hades_queue) = HadesQueueLen
  /\ hades = "send" /\ Len(compositor_queue) = QueueLen

(* Every call returns: a command is answered, with Hades and all           *)
(* applications sending into the same short queue, CommandsPerFrame + 1 of *)
(* them a frame at most, and windows that leave the ring before their      *)
(* command is executed; and a blocking window_present() sees its window    *)
(* drawn, whatever happens to the other windows of the ring meanwhile.     *)
(* Nothing but the deadly embrace keeps one from it.                       *)
CallsReturn ==
  \A t \in Task : []<>(call[t].at = "run" \/ DeadlyEmbrace)

(* The windows of a task that ended are freed, also one that was never     *)
(* shown because its task died inside window_create(), unless the          *)
(* compositor and Hades come to wait for each other: no allocated window   *)
(* stays without a task that lives.                                        *)
WindowsOfTheDeadAreFreed ==
  \A w \in Window :
    []<>(\/ w \notin heap
         \/ \E t \in alive : w \in resources[t]
         \/ DeadlyEmbrace)

-----------------------------------------------------------------------------
(* Statements of the code's comments that the code does not keep. *)

(* remove_window() at FN + cross clears the pointers of the window "so we   *)
(* don't end up deleting this window twice": a command that is queued is   *)
(* for an allocated window, and nothing follows its destruction.           *)
NoCommandAfterFree ==
  \A i \in DOMAIN compositor_queue : LET m == compositor_queue[i] IN
    /\ m.window \in heap
    /\ m.command = "destroy" =>
         \A j \in DOMAIN compositor_queue : j > i => compositor_queue[j].window # m.window

(* "eTaskGetState(task_info->handle) != eDeleted" expects the owner's       *)
(* task_info to be there for as long as the compositor draws its window.   *)
OwnerOutlivesFrame == compositor = "draw" => in_use \in infos
=============================================================================
