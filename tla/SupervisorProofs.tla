-------------------------- MODULE SupervisorProofs --------------------------
(***************************************************************************)
(* The types of the supervisor's state, what halts it, that an entry and   *)
(* an application have one process, and that run-once is final: for every  *)
(* startup table, every set of faults, and resets at every step.           *)
(***************************************************************************)
EXTENDS Supervisor, SequenceTheorems, FiniteSetTheorems, WellFoundedInduction, TLAPS

-----------------------------------------------------------------------------
(* A finite set of ages has a longest one: a smallest subset without one   *)
(* would have one as soon as it lost an element.                           *)
LEMMA LongestExists ==
  ASSUME NEW ages, IsFiniteSet(ages), ages \subseteq Nat, ages # {}
  PROVE  Longest(ages) \in ages /\ \A age \in ages : age <= Longest(ages)
<1> DEFINE HasLongest(set) == \E age \in set : \A other \in set : other <= age
           Bad == {set \in SUBSET ages : set # {} /\ ~HasLongest(set)}
<1>1. HasLongest(ages)
  <2>1. SUFFICES ASSUME ages \in Bad PROVE FALSE
    OBVIOUS
  <2>2. Bad \subseteq FiniteSubsetsOf(ages)
    BY FS_FiniteSubsetsOfFinite, Zenon
  <2>3. PICK set \in Bad : \A smaller \in Bad : <<smaller, set>> \notin StrictSubsetOrdering(ages)
    <3> HIDE DEF Bad
    <3> QED
      BY <2>1, <2>2, FS_StrictSubsetOrderingWellFounded, WFMin, Zenon
  <2>4. PICK age \in set : TRUE
    OBVIOUS
  <2>5. set \ {age} \notin Bad
    BY <2>3, <2>4 DEF StrictSubsetOrdering
  <2>6. CASE set = {age}
    BY <2>4, <2>6
  <2>7. CASE set # {age}
    <3>1. PICK other \in set \ {age} : \A third \in set \ {age} : third <= other
      BY <2>4, <2>5, <2>7
    <3>2. age \in Nat /\ other \in Nat /\ set \subseteq Nat
      BY <2>4
    <3>3. CASE age <= other
      <4>1. \A third \in set : third <= other
        BY <3>1, <3>3
      <4> QED
        BY <4>1
    <3>4. CASE other <= age
      <4>1. \A third \in set : third <= age
        BY <3>1, <3>2, <3>4
      <4> QED
        BY <4>1, <2>4
    <3> QED
      BY <3>2, <3>3, <3>4
  <2> QED
    BY <2>6, <2>7
<1> QED
  BY <1>1 DEF Longest

LEMMA LongAges ==
  /\ LongSinceStart \in [App -> Nat] /\ LongSinceBoot \in Nat
  /\ LongSinceLaunch \in Nat
<1>1. \A app \in App : Longest({2, start_every[app]}) \in Nat
  <2> SUFFICES ASSUME NEW app \in App PROVE Longest({2, start_every[app]}) \in Nat
    OBVIOUS
  <2>1. {2, start_every[app]} \subseteq Nat
    BY SupervisorAssumption
  <2>2. IsFiniteSet({2} \union {start_every[app]})
    BY FS_Singleton, FS_AddElement, Zenon
  <2>3. {2} \union {start_every[app]} = {2, start_every[app]}
    OBVIOUS
  <2> QED
    BY <2>1, <2>2, <2>3, LongestExists
<1>2. LongSinceBoot \in Nat
  <2> DEFINE delays == {start_delay[app] : app \in App}
  <2>1. {0} \union delays \subseteq Nat
    BY SupervisorAssumption
  <2>2. IsFiniteSet(delays)
    <3> DEFINE delay == [app \in App |-> start_delay[app]]
    <3>1. delay \in Surjection(App, delays)
      BY DEF Surjection
    <3> QED
      BY <3>1, SupervisorAssumption, FS_Surjection
  <2>3. IsFiniteSet({0} \union delays)
    BY <2>2, FS_Singleton, FS_Union
  <2> QED
    BY <2>1, <2>3, LongestExists DEF LongSinceBoot
<1> QED
  BY <1>1, <1>2 DEF LongSinceStart, LongSinceLaunch

(* No round is under way before the table is loaded: the new table need    *)
(* not have the entries of an old one.                                     *)
TypeInv == TypeOK /\ (boot \in Updating => todo = {})

LEMMA InitTypes == Init => TypeInv
<1> SUFFICES ASSUME Init PROVE TypeInv
  OBVIOUS
<1>1. since_start \in [App -> Nat] /\ \A app \in App : since_start[app] <= LongSinceStart[app]
  BY LongAges DEF Init
<1>2. since_boot \in 0..LongSinceBoot /\ since_launcher \in 0..LongSinceLaunch
  BY LongAges DEF Init
<1>3. children \in Seq(App)
  BY EmptySeq DEF Init
<1>4. Len(children) <= ChildrenLen
  BY EmptySeq, SupervisorAssumption DEF Init
<1> QED
  BY <1>1, <1>2, <1>3, <1>4 DEF Init, TypeInv, TypeOK, File, Updating

(* The ages stay below their limits. *)
LEMMA SecondKeepsTypes ==
  ASSUME TypeInv, Second
  PROVE  /\ since_start' \in [App -> Nat]
         /\ \A app \in App : since_start'[app] <= LongSinceStart[app]
         /\ since_boot' \in 0..LongSinceBoot /\ since_launcher' \in 0..LongSinceLaunch
BY LongAges DEF TypeInv, TypeOK, Second, Older

LEMMA NextTypes == TypeInv /\ [Next]_vars => TypeInv'
<1> SUFFICES ASSUME TypeInv, [Next]_vars PROVE TypeInv'
  OBVIOUS
<1> USE DEF TypeInv, TypeOK, Updating, Loop
<1>1. CASE UpdateFlash0Init
  <2>1. CASE LoadConfig
    BY <2>1 DEF LoadConfig, file_vars, time_vars, world_vars
  <2>2. CASE ~LoadConfig
    <3>1. /\ boot' \in Updating \union {"halted"} /\ todo' = todo /\ boot \in Updating
          /\ init_toml' \in File /\ init_toml_tmp' \in File
          /\ hit' \subseteq Faults \union {"reset"}
      BY <1>1, <2>2
      DEF UpdateFlash0Init, OpenNvs, RemoveTmp, OpenTmp, WriteTmp, RemoveLive, RenameTmp,
          LoadFails, Goes, Fails, File
    <3>2. UNCHANGED <<nvs, todo, entry_vars, time_vars, world_vars>>
      BY <1>1, <2>2
      DEF UpdateFlash0Init, OpenNvs, RemoveTmp, OpenTmp, WriteTmp, RemoveLive, RenameTmp,
          LoadFails, Goes
    <3> QED
      BY <3>1, <3>2 DEF entry_vars, time_vars, world_vars
  <2> QED
    BY <2>1, <2>2
<1>2. CASE WatchLauncher
  BY <1>2 DEF WatchLauncher, RoundOf, file_vars, entry_vars, world_vars, LongSinceLaunch
<1>3. ASSUME NEW app \in App, Entry(app) PROVE TypeInv'
  <2>1. /\ todo' \subseteq todo /\ boot \in Loop
        /\ UNCHANGED <<file_vars, boot, config, should_start, nvs_write, since_boot,
                       since_launcher, children, windows, hit>>
    BY <1>3 DEF Entry, Skip, Refuse, Start, StartOfNothing, Done
  <2>2. /\ pid' \in {pid, pid \union {app}} /\ started' \in {started, started \union {app}}
        /\ since_start' \in {since_start, [since_start EXCEPT ![app] = 0]}
        /\ running' \in {running, [running EXCEPT ![app] = @ + 1]}
    BY <1>3 DEF Entry, Skip, Refuse, Start, StartOfNothing, Answered
  <2>3. since_start' \in [App -> Nat] /\ \A a \in App : since_start'[a] <= LongSinceStart[a]
    <3>1. CASE since_start' = since_start
      BY <3>1
    <3>2. CASE since_start' = [since_start EXCEPT ![app] = 0]
      <4>1. \A a \in App : LongSinceStart[a] \in Nat
        BY LongAges
      <4>2. \A a \in App : since_start'[a] = IF a = app THEN 0 ELSE since_start[a]
        BY <3>2
      <4> QED
        BY <3>2, <4>1, <4>2
    <3> QED
      BY <2>2, <3>1, <3>2
  <2>4. running' \in [App -> Nat]
    BY <2>2
  <2> QED
    BY <2>1, <2>2, <2>3, <2>4 DEF file_vars
<1>4. CASE AllDone
  BY <1>4 DEF AllDone, file_vars, entry_vars, time_vars, world_vars
<1>5. CASE WaitTimesOut
  BY <1>5, SecondKeepsTypes DEF WaitTimesOut, file_vars, entry_vars, world_vars
<1>6. CASE Collect
  <2>1. /\ children' \in Seq(App) /\ Head(children) \in App
        /\ Len(children') <= ChildrenLen
    BY <1>6, HeadTailProperties, SupervisorAssumption DEF Collect
  <2>2. /\ pid' \subseteq pid /\ nvs' \subseteq nvs \union {Head(children)}
        /\ nvs_write' \subseteq nvs_write \union {Head(children)}
        /\ should_start' \subseteq should_start
    BY <1>6 DEF Collect, Retire
  <2>3. /\ since_start' \in [App -> Nat]
        /\ \A app \in App : since_start'[app] <= LongSinceStart[app]
        /\ since_boot' \in 0..LongSinceBoot /\ since_launcher' \in 0..LongSinceLaunch
    BY <1>6, SecondKeepsTypes DEF Collect, time_vars
  <2>4. /\ boot' = "launcher" /\ boot = "wait"
        /\ UNCHANGED <<init_toml, init_toml_tmp, config, todo, started, running, windows, hit>>
    BY <1>6 DEF Collect
  <2> QED
    BY <2>1, <2>2, <2>3, <2>4
<1>7. ASSUME NEW app \in App, Die(app) PROVE TypeInv'
  <2>1. /\ children' \in Seq(App) /\ running' \in [App -> Nat]
        /\ Len(children') <= ChildrenLen
    BY <1>7, AppendProperties, SupervisorAssumption DEF Die
  <2> QED
    BY <1>7, <2>1 DEF Die, file_vars, entry_vars, time_vars
<1>8. CASE WindowsChange
  BY <1>8 DEF WindowsChange, file_vars, entry_vars, time_vars
<1>9. CASE ClockIsSet
  BY <1>9, LongAges DEF ClockIsSet, file_vars, entry_vars, world_vars
<1>10. CASE Reset
  <2>1. /\ since_start' \in [App -> Nat]
        /\ \A app \in App : since_start'[app] <= LongSinceStart[app]
        /\ since_boot' \in 0..LongSinceBoot /\ since_launcher' \in 0..LongSinceLaunch
    BY <1>10, LongAges DEF Reset, PowerOn
  <2>2. /\ children' \in Seq(App) /\ running' \in [App -> Nat]
        /\ Len(children') <= ChildrenLen
    BY <1>10, EmptySeq, SupervisorAssumption DEF Reset, PowerOn
  <2> QED
    BY <1>10, <2>1, <2>2 DEF Reset, PowerOn, file_vars
<1>11. CASE UNCHANGED vars
  BY <1>11 DEF vars
<1> QED
  BY <1>1, <1>2, <1>3, <1>4, <1>5, <1>6, <1>7, <1>8, <1>9, <1>10, <1>11
  DEF Next, Round, World

(* Every age the loop decides by stays within what it is compared with,    *)
(* the round never leaves the entries of the table that was loaded, and a  *)
(* reset never meets a table of another boot.                              *)
THEOREM TypeCorrect == Spec => []TypeOK
<1>1. TypeInv => TypeOK
  BY DEF TypeInv
<1> QED
  BY InitTypes, NextTypes, <1>1, PTL DEF Spec

-----------------------------------------------------------------------------
(* Why the table may be missing or torn: what the last boot left, or what  *)
(* this one has done.                                                      *)
Lost      == {"close", "rename"} \intersect hit # {} \/ "reset" \in hit
HaltCause ==
  \/ hit \intersect {"nvs_open", "close", "rename", "load"} # {}
  \/ "reset" \in hit /\ hit \intersect {"open", "write"} # {}

(* Until the old table is removed it is whole, or its loss has a reason. *)
OldIsWhole ==
  boot \in {"nvs_open", "remove_tmp", "open", "write", "remove"} =>
    init_toml = "whole" \/ Lost

(* A replacement that is about to be put in place is whole, or its close   *)
(* has failed.                                                             *)
NewIsWhole == boot \in {"remove", "rename"} => init_toml_tmp = "whole" \/ "close" \in hit

LoadedIsWhole == boot = "load" => init_toml = "whole" \/ HaltCause

FilesInv ==
  /\ hit \subseteq Faults \union {"reset"}
  /\ OldIsWhole /\ NewIsWhole /\ LoadedIsWhole /\ HaltHasCause

LEMMA InitFiles == Init => FilesInv
BY DEF Init, FilesInv, OldIsWhole, NewIsWhole, LoadedIsWhole, HaltHasCause

LEMMA NextFiles == FilesInv /\ [Next]_vars => FilesInv'
<1> SUFFICES ASSUME FilesInv, [Next]_vars PROVE FilesInv'
  OBVIOUS
<1> USE DEF FilesInv, OldIsWhole, NewIsWhole, LoadedIsWhole, HaltHasCause, Lost, HaltCause
<1>1. CASE OpenNvs
  BY <1>1 DEF OpenNvs, Goes, Fails
<1>2. CASE RemoveTmp
  BY <1>2 DEF RemoveTmp, Goes
<1>3. CASE OpenTmp
  BY <1>3 DEF OpenTmp, Goes, Fails
<1>4. CASE WriteTmp
  BY <1>4 DEF WriteTmp, Goes, Fails
<1>5. CASE RemoveLive
  BY <1>5 DEF RemoveLive, Goes
<1>6. CASE RenameTmp
  BY <1>6 DEF RenameTmp, Goes, Fails
<1>7. CASE LoadConfig
  BY <1>7 DEF LoadConfig
<1>8. CASE LoadFails
  BY <1>8 DEF LoadFails, Goes, Fails
<1>9. CASE Round
  <2>1. boot \in Loop /\ boot' \in Loop /\ UNCHANGED hit
    BY <1>9
    DEF Round, WatchLauncher, RoundOf, Entry, Skip, Refuse, Start, StartOfNothing, Done,
        AllDone, WaitTimesOut, Collect, Loop
  <2> QED
    BY <2>1 DEF Loop
<1>10. CASE World
  <2>1. UNCHANGED <<boot, init_toml, init_toml_tmp, hit>>
    BY <1>10 DEF World, Die, WindowsChange, ClockIsSet, file_vars
  <2> QED
    BY <2>1
<1>11. CASE Reset
  BY <1>11 DEF Reset, PowerOn, file_vars
<1>12. CASE UNCHANGED vars
  BY <1>12 DEF vars
<1> QED
  BY <1>1, <1>2, <1>3, <1>4, <1>5, <1>6, <1>7, <1>8, <1>9, <1>10, <1>11, <1>12
  DEF Next, UpdateFlash0Init

(* Supervision ends for the causes of HaltHasCause only: a failed open or  *)
(* a short write alone does not halt it, whenever the badge is reset.      *)
THEOREM HaltsForACause == Spec => []HaltHasCause
<1>1. FilesInv => HaltHasCause
  BY DEF FilesInv
<1> QED
  BY InitFiles, NextFiles, <1>1, PTL DEF Spec

-----------------------------------------------------------------------------
WorldTypeOK ==
  /\ running \in [App -> Nat] /\ children \in Seq(App)
  /\ pid \subseteq App

(* A process is running, or its death waits to be collected, not both, and *)
(* there is one of them at most.                                           *)
OneLife ==
  /\ \A app \in App : running[app] <= 1
  /\ \A app \in App : running[app] > 0 => Deaths(app) = {}
  /\ \A i, j \in DOMAIN children : children[i] = children[j] => i = j

(* The table knows of every process. *)
FreeIsIdle == \A app \in App \ pid : running[app] = 0 /\ Deaths(app) = {}

OneOfApplication ==
  \A app \in App : \A other \in App \ {app} :
    application[app] # None /\ application[other] = application[app] =>
      running[app] = 0 \/ running[other] = 0

LivesInv == WorldTypeOK /\ OneLife /\ FreeIsIdle /\ OneOfApplication /\ RunOnceIsFinal

LEMMA LivesInvHolds == LivesInv => OneInstance /\ RunOnceIsFinal
<1> SUFFICES ASSUME LivesInv PROVE OneInstance
  BY DEF LivesInv
<1>1. ASSUME NEW app \in App PROVE running[app] + Cardinality(Deaths(app)) <= 1
  <2>1. CASE Deaths(app) = {}
    BY <2>1, FS_EmptySet DEF LivesInv, WorldTypeOK, OneLife
  <2>2. CASE Deaths(app) # {}
    <3>1. PICK i \in DOMAIN children : children[i] = app
      BY <2>2 DEF Deaths
    <3>2. Deaths(app) = {i}
      BY <3>1 DEF Deaths, LivesInv, OneLife
    <3>3. running[app] = 0
      BY <2>2 DEF LivesInv, OneLife, WorldTypeOK
    <3>4. Cardinality(Deaths(app)) = 1
      BY <3>2, FS_Singleton
    <3> QED
      BY <3>3, <3>4
  <2> QED
    BY <2>1, <2>2
<1>2. ASSUME NEW app \in App, NEW other \in App \ {app},
             application[app] # None, application[other] = application[app]
      PROVE  running[app] + running[other] <= 1
  BY <1>2 DEF LivesInv, WorldTypeOK, OneLife, OneOfApplication
<1> QED
  BY <1>1, <1>2 DEF OneInstance

LEMMA InitLives == Init => LivesInv
<1> SUFFICES ASSUME Init PROVE LivesInv
  OBVIOUS
<1>1. \A app \in App : Deaths(app) = {}
  BY DEF Init, Deaths
<1> QED
  BY <1>1
  DEF Init, LivesInv, WorldTypeOK, OneLife, FreeIsIdle, OneOfApplication, RunOnceIsFinal

(* What most steps leave alone. *)
lives_vars == <<running, children, pid, nvs>>

LEMMA SameLives == LivesInv /\ UNCHANGED lives_vars => LivesInv'
BY DEF lives_vars, LivesInv, WorldTypeOK, OneLife, FreeIsIdle, OneOfApplication,
       RunOnceIsFinal, Deaths

LEMMA StartKeepsLives ==
  ASSUME LivesInv, NEW app \in App, Start(app) \/ StartOfNothing(app)
  PROVE  LivesInv'
<1> USE DEF LivesInv, WorldTypeOK
<1>1. /\ UNCHANGED <<children, nvs>>
      /\ pid' = pid \union {app}
      /\ running' \in {running, [running EXCEPT ![app] = @ + 1]}
  BY DEF Start, StartOfNothing, Done, Answered, file_vars
<1>2. /\ running[app] = 0 /\ Deaths(app) = {}
      /\ app \notin run_once \intersect nvs
      /\ \A other \in App :
           application[app] # None /\ application[other] = application[app] =>
             running[other] = 0
  <2>1. /\ app \notin pid /\ ~HasRun(app)
        /\ ~task_application_is_running(application[app])
    BY DEF Start, StartOfNothing, MayStart
  <2>2. running[app] = 0 /\ Deaths(app) = {}
    BY <2>1 DEF FreeIsIdle
  <2> QED
    BY <2>1, <2>2 DEF HasRun, task_application_is_running
<1>3. \A other \in App : Deaths(other)' = Deaths(other)
  BY <1>1 DEF Deaths
<1>4. /\ running' \in [App -> Nat]
      /\ running'[app] \in {0, 1}
      /\ \A other \in App \ {app} : running'[other] = running[other]
  BY <1>1, <1>2
<1>5. WorldTypeOK'
  BY <1>1, <1>4
<1>6. OneLife'
  <2>1. \A other \in App : running'[other] <= 1 /\ (running'[other] > 0 => Deaths(other) = {})
    BY <1>2, <1>4 DEF OneLife
  <2> QED
    BY <1>1, <1>3, <2>1 DEF OneLife
<1>7. FreeIsIdle'
  BY <1>1, <1>3, <1>4 DEF FreeIsIdle
<1>8. OneOfApplication'
  BY <1>2, <1>4 DEF OneOfApplication
<1>9. RunOnceIsFinal'
  <2>1. nvs \subseteq run_once /\ nvs \subseteq App /\ app \notin nvs
    BY <1>2, SupervisorAssumption DEF RunOnceIsFinal
  <2> QED
    BY <1>1, <1>4, <2>1 DEF RunOnceIsFinal
<1> QED
  BY <1>5, <1>6, <1>7, <1>8, <1>9

LEMMA DieKeepsLives ==
  ASSUME LivesInv, NEW app \in App, Die(app)
  PROVE  LivesInv'
<1> USE DEF LivesInv, WorldTypeOK
<1>1. /\ running[app] > 0
      /\ running' = [running EXCEPT ![app] = @ - 1]
      /\ children' \in {children, Append(children, app)}
      /\ UNCHANGED <<nvs, pid>>
  BY DEF Die, file_vars, entry_vars
<1>2. running[app] = 1 /\ Deaths(app) = {}
  BY <1>1 DEF OneLife
<1>3. /\ running' \in [App -> Nat] /\ running'[app] = 0
      /\ \A other \in App \ {app} : running'[other] = running[other]
  BY <1>1, <1>2
<1>4. /\ children' \in Seq(App)
      /\ \A i \in DOMAIN children' :
           \/ i \in DOMAIN children /\ children'[i] = children[i]
           \/ i = Len(children) + 1 /\ i \notin DOMAIN children /\ children'[i] = app
  <2>1. CASE children' = children
    BY <2>1
  <2>2. CASE children' = Append(children, app)
    BY <2>2
  <2> QED
    BY <1>1, <2>1, <2>2
<1>5. \A other \in App \ {app} : Deaths(other) = {} => Deaths(other)' = {}
  BY <1>4 DEF Deaths
<1>6. app \in pid
  BY <1>2 DEF FreeIsIdle
<1>7. OneLife'
  <2>1. \A other \in App : running'[other] > 0 => Deaths(other)' = {}
    <3>1. ASSUME NEW other \in App, running'[other] > 0 PROVE Deaths(other)' = {}
      <4>1. other # app /\ running[other] > 0
        BY <1>3, <3>1
      <4> QED
        BY <1>5, <4>1 DEF OneLife
    <3> QED
      BY <3>1
  <2>2. \A i \in DOMAIN children : children[i] # app
    BY <1>2 DEF Deaths
  <2>3. \A i, j \in DOMAIN children' : children'[i] = children'[j] => i = j
    BY <1>4, <2>2 DEF OneLife
  <2> QED
    BY <1>3, <2>1, <2>3 DEF OneLife
<1>8. FreeIsIdle'
  BY <1>1, <1>3, <1>5, <1>6 DEF FreeIsIdle
<1>9. OneOfApplication' /\ RunOnceIsFinal'
  BY <1>1, <1>3 DEF OneOfApplication, RunOnceIsFinal
<1> QED
  BY <1>1, <1>3, <1>4, <1>7, <1>8, <1>9

LEMMA CollectKeepsLives ==
  ASSUME LivesInv, Collect
  PROVE  LivesInv'
<1> USE DEF LivesInv, WorldTypeOK
<1>0. PICK app \in App : app = Head(children)
  BY DEF Collect
<1>1. /\ children # <<>> /\ children' = Tail(children) /\ pid' = pid \ {app}
      /\ UNCHANGED running
  BY <1>0 DEF Collect
<1>2. \/ nvs' = nvs
      \/ app \in run_once /\ nvs' = nvs \union {app}
  BY <1>0 DEF Collect, NotesFirstEnd
<1>3. /\ children' \in Seq(App)
      /\ DOMAIN children = 1..Len(children) /\ Len(children) > 0
      /\ DOMAIN children' = 1..(Len(children) - 1)
      /\ \A i \in DOMAIN children' :
           i + 1 \in DOMAIN children /\ i + 1 # 1 /\ children'[i] = children[i + 1]
      /\ 1 \in DOMAIN children /\ children[1] = app
  BY <1>0, <1>1
<1>4. 1 \in Deaths(app) /\ running[app] = 0
  BY <1>3 DEF Deaths, OneLife
<1>5. \A other \in App : Deaths(other) = {} => Deaths(other)' = {}
  BY <1>3 DEF Deaths
<1>6. Deaths(app)' = {}
  BY <1>3 DEF Deaths, OneLife
<1>7. OneLife'
  <2>1. \A i, j \in DOMAIN children' : children'[i] = children'[j] => i + 1 = j + 1
    BY <1>3 DEF OneLife
  <2>2. \A i, j \in DOMAIN children' : i + 1 = j + 1 => i = j
    BY <1>3
  <2> QED
    BY <1>1, <1>5, <2>1, <2>2 DEF OneLife
<1>8. FreeIsIdle'
  BY <1>1, <1>4, <1>5, <1>6 DEF FreeIsIdle
<1>9. OneOfApplication' /\ RunOnceIsFinal'
  BY <1>1, <1>2, <1>4 DEF OneOfApplication, RunOnceIsFinal
<1> QED
  BY <1>1, <1>3, <1>7, <1>8, <1>9

LEMMA ResetKeepsLives ==
  ASSUME LivesInv, Reset
  PROVE  LivesInv'
<1>1. /\ running' = [app \in App |-> 0] /\ children' = <<>> /\ pid' = {}
      /\ nvs' = nvs
  BY DEF Reset, PowerOn, file_vars
<1>2. \A app \in App : Deaths(app)' = {}
  BY <1>1 DEF Deaths
<1>3. nvs \subseteq App /\ RunOnceIsFinal
  BY SupervisorAssumption DEF LivesInv, RunOnceIsFinal
<1>4. WorldTypeOK' /\ OneLife'
  BY <1>1, <1>2 DEF WorldTypeOK, OneLife
<1>5. FreeIsIdle' /\ OneOfApplication' /\ RunOnceIsFinal'
  BY <1>1, <1>2, <1>3 DEF FreeIsIdle, OneOfApplication, RunOnceIsFinal
<1> QED
  BY <1>4, <1>5 DEF LivesInv

LEMMA NextLives == LivesInv /\ [Next]_vars => LivesInv'
<1> SUFFICES ASSUME LivesInv, [Next]_vars PROVE LivesInv'
  OBVIOUS
<1>1. CASE UpdateFlash0Init
  <2>1. UNCHANGED lives_vars
    BY <1>1
    DEF UpdateFlash0Init, OpenNvs, RemoveTmp, OpenTmp, WriteTmp, RemoveLive, RenameTmp,
        LoadConfig, LoadFails, Goes, file_vars, entry_vars, world_vars, lives_vars
  <2> QED
    BY <2>1, SameLives
<1>2. CASE WatchLauncher \/ AllDone \/ WaitTimesOut \/ WindowsChange \/ ClockIsSet
  <2>1. UNCHANGED lives_vars
    BY <1>2
    DEF WatchLauncher, RoundOf, AllDone, WaitTimesOut, WindowsChange, ClockIsSet,
        file_vars, entry_vars, world_vars, lives_vars
  <2> QED
    BY <2>1, SameLives
<1>3. ASSUME NEW app \in App, Skip(app) \/ Refuse(app) PROVE LivesInv'
  <2>1. UNCHANGED lives_vars
    BY <1>3 DEF Skip, Refuse, Done, file_vars, lives_vars
  <2> QED
    BY <2>1, SameLives
<1>4. ASSUME NEW app \in App, Start(app) \/ StartOfNothing(app) PROVE LivesInv'
  BY <1>4, StartKeepsLives
<1>5. CASE Collect
  BY <1>5, CollectKeepsLives
<1>6. ASSUME NEW app \in App, Die(app) PROVE LivesInv'
  BY <1>6, DieKeepsLives
<1>7. CASE Reset
  BY <1>7, ResetKeepsLives
<1>8. CASE UNCHANGED vars
  BY <1>8, SameLives DEF vars, lives_vars
<1> QED
  BY <1>1, <1>2, <1>3, <1>4, <1>5, <1>6, <1>7, <1>8 DEF Next, Round, Entry, World

(* An entry has one process at most, counting the dead that are not        *)
(* collected, and so has an application; and an entry whose run-once flag  *)
(* is in flash never runs, resets and stale pids included.                 *)
THEOREM OneProcessEach == Spec => [](OneInstance /\ RunOnceIsFinal)
<1> QED
  BY InitLives, NextLives, LivesInvHolds, PTL DEF Spec

(* The flag in flash is the last word: whatever the order of deaths,       *)
(* failed writes and resets, only run-once entries are ever flagged, and a *)
(* flagged entry has no process.                                           *)
THEOREM RunOnceStaysFinal == Spec => []RunOnceIsFinal
<1> QED
  BY OneProcessEach, PTL
=============================================================================
