----------------------------- MODULE Supervisor -----------------------------
(***************************************************************************)
(* The supervisor, run_init() of badgevms/init.c, from power-on to its     *)
(* endless loop, on a badge that may lose power between any two steps.     *)
(*                                                                         *)
(* update_flash0_init() renews the startup table FLASH0:init.toml on every *)
(* boot; load_config() reads it; from then on every round of the loop      *)
(* relaunches the launcher if no window is left, starts what the table     *)
(* asks for, and collects at most one dead child.  The process manager is  *)
(* what module Tasks shows of it: a start is answered with a pid or        *)
(* refused, and the death of a child is reported once, after it has left   *)
(* the process table, or never, when the children queue is full.  A pid is *)
(* not given out again while its death waits to be collected: the ring of  *)
(* pids is longer than the queue.  That the pid of a lost death comes      *)
(* round again is left out, and so are the deaths of the launcher.         *)
(*                                                                         *)
(* NVS is read without failure: run_init() takes a failed read for an entry *)
(* that has not run.  FLASH0 and SD0 tables are one set of entries here.   *)
(* Times are ages in seconds.  An age stops counting once it is past all   *)
(* that it is compared with.                                               *)
(***************************************************************************)
EXTENDS Naturals, Sequences, FiniteSets

CONSTANTS
  App,               \* the entries of the startup table
  None,
  restart_on_failure, run_once,  \* the entries with these flags
  start_every, start_delay,      \* per entry, in seconds; 0 is none
  last_block,        \* the entries that are missing when the table lost its end
  application,       \* per entry: the application's uid, or None
  ChildrenLen,       \* places of the supervisor's queue of dead children
  Faults             \* the calls that may fail

ASSUME SupervisorAssumption ==
  /\ IsFiniteSet(App)
  /\ restart_on_failure \subseteq App /\ run_once \subseteq App
  /\ last_block \subseteq App /\ ChildrenLen \in Nat
  /\ {start_every, start_delay} \subseteq [App -> Nat]
  /\ Faults \subseteq {"nvs_open", "open", "write", "close", "rename", "load", "nvs_set"}

VARIABLES
  init_toml, init_toml_tmp,  \* the startup table and its replacement, on flash
  nvs,            \* the entries whose run-once flag is set, on flash
  boot,           \* where run_init() is
  config,         \* the entries that load_config() has found
  todo,           \* the entries that this round has not come to
  pid,            \* the entries with app->pid # 0
  should_start, nvs_write, started,  \* flags of the entries; the last is
                                     \* last_started # 0
  since_start,    \* per entry: current_time - last_started
  since_boot, since_launcher,
  running,        \* per entry: its processes in the process table
  children,       \* the supervisor's queue of dead children
  windows,        \* compositor_window_count() # 0
  hit             \* history: what has gone wrong since the table was loaded

file_vars  == <<init_toml, init_toml_tmp, nvs>>
entry_vars == <<config, pid, should_start, nvs_write, started>>
time_vars  == <<since_start, since_boot, since_launcher>>
world_vars == <<running, children, windows>>
vars == <<init_toml, init_toml_tmp, nvs, boot, config, todo, pid, should_start,
          nvs_write, started, since_start, since_boot, since_launcher,
          running, children, windows, hit>>

File      == {"absent", "partial", "whole"}
Updating  == {"nvs_open", "remove_tmp", "open", "write", "remove", "rename", "load"}
Loop      == {"launcher", "entries", "wait"}
Supervising == boot \in Loop

(* The ages that count as long: past the two seconds of the throttle and   *)
(* the period of an entry, past every start_delay, past the three seconds  *)
(* of the launcher.                                                        *)
Longest(ages) == CHOOSE age \in ages : \A other \in ages : other <= age
LongSinceStart  == [app \in App |-> Longest({2, start_every[app]})]
LongSinceBoot   == Longest({0} \union {start_delay[app] : app \in App})
LongSinceLaunch == 3

TypeOK ==
  /\ init_toml \in File /\ init_toml_tmp \in File /\ nvs \subseteq App
  /\ boot \in Updating \union Loop \union {"halted"}
  /\ config \subseteq App /\ todo \subseteq config
  /\ pid \subseteq App /\ should_start \subseteq App
  /\ nvs_write \subseteq App /\ started \subseteq App
  /\ since_start \in [App -> Nat] /\ \A app \in App : since_start[app] <= LongSinceStart[app]
  /\ since_boot \in 0..LongSinceBoot /\ since_launcher \in 0..LongSinceLaunch
  /\ running \in [App -> Nat] /\ children \in Seq(App) /\ Len(children) <= ChildrenLen
  /\ windows \in BOOLEAN
  /\ hit \subseteq Faults \union {"reset"}

(* RAM at power-on.  The clock starts at 0, or is right if a soft reset    *)
(* has kept it; entries that were never started have last_started = 0.     *)
PowerOn(ages) ==
  /\ boot' = "nvs_open" /\ config' = {} /\ todo' = {}
  /\ pid' = {} /\ should_start' = {} /\ nvs_write' = {} /\ started' = {}
  /\ since_start' = ages /\ since_boot' = 0 /\ since_launcher' = 0
  /\ running' = [app \in App |-> 0] /\ children' = <<>> /\ windows' = FALSE

Init ==
  /\ init_toml = "whole" /\ init_toml_tmp = "absent" /\ nvs = {}
  /\ boot = "nvs_open" /\ config = {} /\ todo = {}
  /\ pid = {} /\ should_start = {} /\ nvs_write = {} /\ started = {}
  /\ since_start \in [App -> {0}] /\ since_boot = 0 /\ since_launcher = 0
  /\ running = [app \in App |-> 0] /\ children = <<>> /\ windows = FALSE
  /\ hit = {}

(* Power loss or a panic, at any moment. *)
Reset ==
  /\ \E ages \in {[app \in App |-> 0], LongSinceStart} : PowerOn(ages)
  /\ hit' = IF init_toml = "whole" THEN {} ELSE hit \union {"reset"}
  /\ UNCHANGED file_vars

-----------------------------------------------------------------------------
(* update_flash0_init().  Each step is one call to the file system.        *)
Goes(step) ==
  /\ boot' = step
  /\ UNCHANGED <<nvs, todo, entry_vars, time_vars, world_vars>>

Fails(fault) == fault \in Faults /\ hit' = hit \union {fault}

OpenNvs ==
  /\ boot = "nvs_open"
  /\ \/ Goes("remove_tmp") /\ UNCHANGED hit
     \/ Fails("nvs_open") /\ Goes("halted")
  /\ UNCHANGED <<init_toml, init_toml_tmp>>

(* Mutant: as before "Write to a temp file first": the live file goes before *)
(* the new one is written.                                                 *)
RemoveLiveFirst ==
  /\ boot = "remove_tmp"
  /\ init_toml' = "absent" /\ init_toml_tmp' = "absent"
  /\ Goes("open") /\ UNCHANGED hit

RemoveTmp ==
  /\ boot = "remove_tmp"
  /\ init_toml_tmp' = "absent"
  /\ Goes("open") /\ UNCHANGED <<init_toml, hit>>

OpenTmp ==
  /\ boot = "open"
  /\ \/ init_toml_tmp' = "partial" /\ Goes("write") /\ UNCHANGED hit
     \/ Fails("open") /\ Goes("load") /\ UNCHANGED init_toml_tmp
  /\ UNCHANGED init_toml

(* fwrite() and fclose().  A short write is seen; the last block of the    *)
(* file is written by fclose(), whose result is not looked at.             *)
WriteTmp ==
  /\ boot = "write"
  /\ \/ init_toml_tmp' = "whole" /\ Goes("remove") /\ UNCHANGED hit
     \/ Fails("write") /\ Goes("load") /\ init_toml_tmp' = "absent"
     \/ Fails("close") /\ Goes("remove") /\ UNCHANGED init_toml_tmp
  /\ UNCHANGED init_toml

RemoveLive ==
  /\ boot = "remove"
  /\ init_toml' = "absent"
  /\ Goes("rename") /\ UNCHANGED <<init_toml_tmp, hit>>

RenameTmp ==
  /\ boot = "rename" /\ Goes("load")
  /\ \/ /\ init_toml' = init_toml_tmp /\ init_toml_tmp' = "absent"
        /\ hit' = IF init_toml_tmp = "whole" THEN {} ELSE hit
     \/ Fails("rename") /\ UNCHANGED <<init_toml, init_toml_tmp>>

(* load_config(): every entry is marked, but for what has run once.  A     *)
(* table that has lost its end may still parse, with fewer entries.        *)
LoadConfig ==
  /\ boot = "load" /\ init_toml # "absent"
  /\ boot' = "launcher"
  /\ config' = IF init_toml = "whole" THEN App ELSE App \ last_block
  /\ should_start' = config' \ (run_once \intersect nvs)
  /\ hit' = {}
  /\ UNCHANGED <<file_vars, todo, pid, nvs_write, started, time_vars, world_vars>>

(* "FATAL: Failed to load FLASH0:init.toml", and the end of supervision: a *)
(* table that is missing or torn, or a whole one that cannot be read.      *)
LoadFails ==
  /\ boot = "load" /\ Goes("halted")
  /\ \/ init_toml # "whole" /\ UNCHANGED hit
     \/ Fails("load")
  /\ UNCHANGED <<init_toml, init_toml_tmp>>

-----------------------------------------------------------------------------
(* The loop.  The launcher: relaunched when the last window has gone, at   *)
(* most every three seconds; whether it starts is not looked at.           *)
RoundOf(entries) ==
  /\ boot = "launcher"
  /\ since_launcher' = IF ~windows /\ since_launcher > 2 THEN 0 ELSE since_launcher
  /\ boot' = "entries" /\ todo' = entries
  /\ UNCHANGED <<file_vars, entry_vars, since_start, since_boot, world_vars, hit>>

(* Mutant: the round is over all places of the table, not config.count.    *)
WatchLauncherForAll == RoundOf(App)

WatchLauncher == RoundOf(config)

task_application_is_running(uid) ==
  uid # None /\ \E app \in App : application[app] = uid /\ running[app] > 0

Delayed(app) == since_boot < start_delay[app]

Due(app) ==
  \/ ~Delayed(app) /\ start_every[app] > 0 /\ since_start[app] >= start_every[app]
  \/ ~Delayed(app) /\ start_every[app] = 0 /\ app \in restart_on_failure
  \/ ~Delayed(app) /\ app \notin started

Throttled(app) == since_start[app] < 2

HasRun(app) == app \in run_once /\ app \in nvs

(* Mutant: maybe_start_app() without its look at app->pid. *)
MayStartAgain(app) ==
  /\ app \in should_start
  /\ ~task_application_is_running(application[app]) /\ ~HasRun(app)
  /\ Due(app) /\ ~Throttled(app)

(* maybe_start_app(), up to start_app(). *)
MayStart(app) ==
  /\ app \notin pid /\ app \in should_start
  /\ ~task_application_is_running(application[app]) /\ ~HasRun(app)
  /\ Due(app) /\ ~Throttled(app)

Done(app) ==
  /\ boot = "entries" /\ app \in todo
  /\ todo' = todo \ {app}
  /\ UNCHANGED <<file_vars, boot, config, should_start, nvs_write, since_boot, since_launcher,
                 children, windows, hit>>

Skip(app) ==
  Done(app) /\ ~MayStart(app) /\ UNCHANGED <<pid, started, since_start, running>>

(* start_app(): a refused start leaves everything as it was; a pid is       *)
(* taken for a process.                                                    *)
Refuse(app) ==
  Done(app) /\ MayStart(app) /\ UNCHANGED <<pid, started, since_start, running>>

Answered(app) ==
  /\ pid' = pid \union {app}
  /\ started' = started \union {app}
  /\ since_start' = [since_start EXCEPT ![app] = 0]

Start(app) ==
  /\ Done(app) /\ MayStart(app) /\ Answered(app)
  /\ running' = [running EXCEPT ![app] = @ + 1]

(* A start that fails late is answered with the pid that Zeus has just     *)
(* given back (AnsweredPidIsStarted in Tasks).                             *)
StartOfNothing(app) ==
  Done(app) /\ MayStart(app) /\ Answered(app) /\ UNCHANGED running

AllDone ==
  /\ boot = "entries" /\ todo = {}
  /\ boot' = "wait"
  /\ UNCHANGED <<file_vars, todo, entry_vars, time_vars, world_vars, hit>>

(* A second passes for every clock. *)
Older(age, long) == IF age < long THEN age + 1 ELSE age
Second ==
  /\ since_start' = [app \in App |-> Older(since_start[app], LongSinceStart[app])]
  /\ since_boot' = Older(since_boot, LongSinceBoot)
  /\ since_launcher' = Older(since_launcher, LongSinceLaunch)

(* wait(false, 1000) without a death. *)
WaitTimesOut ==
  /\ boot = "wait" /\ children = <<>>
  /\ Second
  /\ boot' = "launcher"
  /\ UNCHANGED <<file_vars, todo, entry_vars, world_vars, hit>>

(* Mutant: a dead application is restarted only if it asked for it and     *)
(* has no period.                                                          *)
IsPeriodicAndRestarts(app) == app \in restart_on_failure /\ start_every[app] > 0

IsPeriodic(app) == app \in restart_on_failure \/ start_every[app] > 0

Retire(app) == should_start' = IF IsPeriodic(app) THEN should_start ELSE should_start \ {app}

(* Mutant: the run-once flag is written for every entry. *)
NotesEnd(app) == app \notin nvs_write

NotesFirstEnd(app) == app \in run_once /\ app \notin nvs_write

(* A death: the entry is free again; the end of a run-once entry is noted  *)
(* in NVS, and if that fails, in nvs_set or later in nvs_commit, nothing    *)
(* more is done about it.                                                  *)
Collect ==
  /\ boot = "wait" /\ children # <<>>
  /\ boot' = "launcher"
  /\ LET app == Head(children) IN
       /\ pid' = pid \ {app}
       /\ \/ /\ NotesFirstEnd(app)
             /\ nvs' = nvs \union {app} /\ nvs_write' = nvs_write \union {app}
             /\ Retire(app)
          \/ /\ NotesFirstEnd(app) /\ "nvs_set" \in Faults
             /\ nvs' \in {nvs, nvs \union {app}}
             /\ UNCHANGED <<nvs_write, should_start>>
          \/ /\ ~NotesFirstEnd(app)
             /\ Retire(app)
             /\ UNCHANGED <<nvs, nvs_write>>
  /\ children' = Tail(children)
  /\ Second \/ UNCHANGED time_vars
  /\ UNCHANGED <<init_toml, init_toml_tmp, config, todo, started, running, windows, hit>>

-----------------------------------------------------------------------------
(* The world around. *)
(* Hades does not wait for a place: the death is lost if there is none.    *)
Die(app) ==
  /\ running[app] > 0
  /\ running' = [running EXCEPT ![app] = @ - 1]
  /\ children' = IF Len(children) < ChildrenLen THEN Append(children, app) ELSE children
  /\ UNCHANGED <<file_vars, boot, todo, entry_vars, time_vars, windows, hit>>

WindowsChange ==
  /\ Supervising
  /\ windows' = ~windows
  /\ UNCHANGED <<file_vars, boot, todo, entry_vars, time_vars, running, children, hit>>

(* The time arrives over the network and jumps ahead. *)
ClockIsSet ==
  /\ boot = "wait"
  /\ since_start' = LongSinceStart /\ since_boot' = LongSinceBoot
  /\ since_launcher' = LongSinceLaunch
  /\ UNCHANGED <<file_vars, boot, todo, entry_vars, world_vars, hit>>

-----------------------------------------------------------------------------
UpdateFlash0Init ==
  OpenNvs \/ RemoveTmp \/ OpenTmp \/ WriteTmp \/ RemoveLive \/ RenameTmp \/
  LoadConfig \/ LoadFails

Entry(app) == Skip(app) \/ Refuse(app) \/ Start(app) \/ StartOfNothing(app)

Round == WatchLauncher \/ (\E app \in App : Entry(app)) \/ AllDone \/ WaitTimesOut \/ Collect

World == (\E app \in App : Die(app)) \/ WindowsChange \/ ClockIsSet

Next == UpdateFlash0Init \/ Round \/ World \/ Reset

Spec == Init /\ [][Next]_vars

(* The supervisor's loop goes on; a start that is tried again and again    *)
(* succeeds some time.  Nothing is assumed of deaths, windows, clocks and  *)
(* resets.                                                                 *)
Fairness ==
  /\ WF_vars(UpdateFlash0Init) /\ WF_vars(Round)
  /\ \A app \in App : SF_vars(Start(app))

FairSpec == Spec /\ Fairness

-----------------------------------------------------------------------------
(* "this exact failure mode could permanently halt boot supervision": with *)
(* the replacement written first, a failed open or a short write no longer *)
(* halts the supervisor.  What still does: NVS that cannot be opened, a    *)
(* failed close, rename or read, or a reset between remove and rename and then a *)
(* failed open or write on the next boot, which removes the copy first.    *)
HaltHasCause ==
  boot = "halted" =>
    \/ hit \intersect {"nvs_open", "close", "rename", "load"} # {}
    \/ "reset" \in hit /\ hit \intersect {"open", "write"} # {}

(* An entry has at most one process, counting those whose death is not yet *)
(* collected, and an application, whatever entries name it, runs once at a *)
(* time.                                                                   *)
Deaths(app) == {i \in DOMAIN children : children[i] = app}
OneInstance ==
  \A app \in App :
    /\ running[app] + Cardinality(Deaths(app)) <= 1
    /\ \A other \in App \ {app} :
         application[app] # None /\ application[other] = application[app] =>
           running[app] + running[other] <= 1

(* The flag in NVS is the last word on a run-once entry, across resets: it  *)
(* is set only for such entries, and once it is set the entry never runs.   *)
RunOnceIsFinal ==
  /\ nvs \subseteq run_once
  /\ \A app \in nvs : running[app] = 0

(* Whatever dies, the loop brings it back: an entry that is to be          *)
(* restarted runs again and again while the supervisor does, unless another *)
(* entry of the same application keeps it out, or the table takes a pid    *)
(* for it that no process has: of a failed start, or of a lost death; and while no window is left the launcher is *)
(* launched again and again.                                               *)
KeptOut(app) ==
  \E other \in App \ {app} :
    application[app] # None /\ application[other] = application[app] /\ running[other] > 0
HasStalePid(app) == app \in pid /\ running[app] = 0 /\ Deaths(app) = {}

SupervisionWorks ==
  <>[]Supervising =>
    /\ \A app \in App \ run_once :
         app \in restart_on_failure \/ start_every[app] > 0 =>
           []<>(running[app] > 0 \/ KeptOut(app) \/ HasStalePid(app) \/ app \notin config)
    /\ []<>(windows \/ since_launcher = 0)
=============================================================================
