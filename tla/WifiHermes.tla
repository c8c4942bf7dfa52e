----------------------------- MODULE WifiHermes -----------------------------
(***************************************************************************)
(* The Wi-Fi service of badgevms/drivers/wifi.c.                           *)
(*                                                                         *)
(* Applications send commands to one task, Hermes, and wait for the        *)
(* answer.  Hermes drives ESP-IDF's Wi-Fi driver, which dials, scans and   *)
(* loses links at its own pace and reports it as events.  event_handler()  *)
(* runs in the event task: it keeps connection_status, sets the bits that  *)
(* Hermes waits for, and dials again on its own.                           *)
(*                                                                         *)
(* The event task outranks Hermes on the same core, so its handler is one  *)
(* step.  Time is not modelled: a wait may time out whenever it waits.  Of  *)
(* a scan there is only that it ends.                                      *)
(***************************************************************************)
EXTENDS Naturals, Sequences

CONSTANTS
  Task,           \* the applications
  Mortal,         \* bound: those that may be deleted
  Asks,           \* bound: what each of them may ask for
  QueueLen,       \* places of hermes_queue
  DialRetries,    \* retries of hermes_do_connect()
  HangUpRetries,  \* retries of hermes_do_disconnect()
  MaxRetryNum,    \* limit of s_retry_num
  MaxEvents,      \* bound: events that wait for the event task
  Faults          \* the calls that may fail

ASSUME WifiAssumption ==
  /\ Mortal \subseteq Task
  /\ Asks \in [Task -> SUBSET {"CONNECT", "DISCONNECT", "SCAN", "READ"}]
  /\ {QueueLen, MaxEvents} \subseteq Nat \ {0}
  /\ {DialRetries, HangUpRetries, MaxRetryNum} \subseteq Nat
  /\ Faults \subseteq {"disconnect", "set_mode", "set_config"}

VARIABLES
  connection_status, connection_status_want,
  bits,           \* wifi_event_group
  s_retry_num,
  hermes_queue,
  hermes,         \* where Hermes is, in what, for whom, with retries left
  call,           \* what an application is doing
  alive,          \* the applications that are not deleted
  mutex,          \* status.mutex: the application that holds it, if one does
  link,           \* the driver's station: "down", "dialing" or "up"
  events,         \* events on their way to event_handler()
  refused         \* history: the driver has refused to end the link that is up

status_vars == <<connection_status, connection_status_want, bits, s_retry_num>>
task_vars   == <<call, alive, mutex>>
driver_vars == <<link, events, refused>>
vars == <<connection_status, connection_status_want, bits, s_retry_num, hermes_queue,
          hermes, call, alive, mutex, link, events, refused>>

Status   == {"ERROR", "DISCONNECTED", "CONNECTED", "WRONG_CREDENTIALS"}
Bit      == {"CONNECTED", "DISCONNECTED", "FAIL", "AUTH_ERR"}
Command  == {"CONNECT", "DISCONNECT", "SCAN"}
Message  == [caller : Task, command : Command]
Event    == {"STA_START", "STA_DISCONNECTED", "AUTH_FAIL", "GOT_IP"}

Idle     == [at |-> "idle"]
Working  == [at : {"begin", "hang_up", "hung_up", "dial", "dialed", "store"},
             message : Message, retries : 0..(DialRetries + HangUpRetries)]
            \union [at : {"answer"}, caller : Task]
Call     == {Idle} \union [at : {"send", "wait"}, command : Command]
                   \union [at : {"take", "look"}, command : Command \union {"READ"}]

TypeOK ==
  /\ connection_status \in Status /\ connection_status_want \in Status
  /\ bits \subseteq Bit /\ s_retry_num \in 0..MaxRetryNum
  /\ hermes_queue \in Seq(Message) /\ Len(hermes_queue) <= QueueLen
  /\ hermes = Idle \/ hermes \in Working
  /\ call \in [Task -> Call] /\ alive \subseteq Task /\ mutex \subseteq Task
  /\ link \in {"down", "dialing", "up"}
  /\ events \in Seq(Event)
  /\ refused \in BOOLEAN

(* wifi_create().  connection_status_want is what zeroed memory says,      *)
(* WIFI_ERROR, and esp_wifi_start() has announced the station.             *)
Init ==
  /\ connection_status = "DISCONNECTED" /\ connection_status_want = "ERROR"
  /\ bits = {} /\ s_retry_num = 0
  /\ hermes_queue = <<>> /\ hermes = Idle
  /\ call = [task \in Task |-> Idle] /\ alive = Task /\ mutex = {}
  /\ link = "down" /\ events = <<"STA_START">>
  /\ refused = FALSE

-----------------------------------------------------------------------------
(* ESP-IDF's driver, as wifi.c uses it: a connect is ignored unless the    *)
(* station is down, a disconnect ends a link or an attempt and reports it. *)
esp_wifi_connect == link' = IF link = "down" THEN "dialing" ELSE link

Post(event) == Len(events) < MaxEvents /\ events' = Append(events, event)

esp_wifi_disconnect ==
  IF link = "down" THEN UNCHANGED <<link, events>>
                   ELSE link' = "down" /\ Post("STA_DISCONNECTED")

Driver(is_now) ==
  link' = is_now /\ refused' = FALSE
  /\ UNCHANGED <<status_vars, hermes_queue, hermes, task_vars>>

DialSucceeds == link = "dialing" /\ Driver("up") /\ Post("GOT_IP")
DialFails    ==
  link = "dialing" /\ Driver("down") /\ \E event \in {"STA_DISCONNECTED", "AUTH_FAIL"} : Post(event)
LinkIsLost   == link = "up" /\ Driver("down") /\ Post("STA_DISCONNECTED")

-----------------------------------------------------------------------------
(* event_handler(), one case per event.                                    *)
Handle(event) ==
  /\ events # <<>> /\ Head(events) = event /\ events' = Tail(events)
  /\ UNCHANGED <<connection_status_want, hermes_queue, hermes, task_vars, refused>>

OnStart ==
  /\ Handle("STA_START") /\ esp_wifi_connect
  /\ UNCHANGED <<connection_status, bits, s_retry_num>>

OnRequestedDisconnect ==
  /\ \E event \in {"STA_DISCONNECTED", "AUTH_FAIL"} : Handle(event)
  /\ connection_status_want = "DISCONNECTED"
  /\ connection_status' = "DISCONNECTED"
  /\ bits' = bits \union {"DISCONNECTED"}
  /\ UNCHANGED <<s_retry_num, link>>

OnWrongCredentials ==
  /\ Handle("AUTH_FAIL") /\ connection_status_want # "DISCONNECTED"
  /\ connection_status' = "WRONG_CREDENTIALS"
  /\ bits' = bits \union {"AUTH_ERR"}
  /\ UNCHANGED <<s_retry_num, link>>

Unexpected == Handle("STA_DISCONNECTED") /\ connection_status_want # "DISCONNECTED"

(* Mutant: the status is left alone while the handler dials again.         *)
RedialsQuietly ==
  /\ Unexpected /\ s_retry_num < MaxRetryNum
  /\ esp_wifi_connect /\ s_retry_num' = s_retry_num + 1
  /\ UNCHANGED <<bits, connection_status>>

(* Mutant: one retry more than places in the count.                         *)
RedialsOnceMore ==
  /\ Unexpected /\ s_retry_num <= MaxRetryNum
  /\ esp_wifi_connect /\ s_retry_num' = s_retry_num + 1
  /\ connection_status' = "DISCONNECTED"
  /\ UNCHANGED bits

(* Mutant: the retries of the handler are not counted.                     *)
RedialsForever ==
  /\ Unexpected /\ s_retry_num < MaxRetryNum
  /\ esp_wifi_connect /\ connection_status' = "DISCONNECTED"
  /\ UNCHANGED <<bits, s_retry_num>>

Redials ==
  /\ Unexpected /\ s_retry_num < MaxRetryNum
  /\ esp_wifi_connect /\ s_retry_num' = s_retry_num + 1
  /\ connection_status' = "DISCONNECTED"
  /\ UNCHANGED bits

GivesUp ==
  /\ Unexpected /\ s_retry_num >= MaxRetryNum
  /\ s_retry_num' = 0 /\ connection_status' = "ERROR"
  /\ bits' = bits \union {"FAIL"}
  /\ UNCHANGED link

OnGotIp ==
  /\ Handle("GOT_IP")
  /\ s_retry_num' = 0 /\ connection_status' = "CONNECTED"
  /\ bits' = bits \union {"CONNECTED"}
  /\ UNCHANGED link

event_handler ==
  OnStart \/ OnRequestedDisconnect \/ OnWrongCredentials \/ Redials \/ GivesUp \/
  OnGotIp

-----------------------------------------------------------------------------
(* Hermes.  A step goes up to the next call of the driver or the next wait. *)
Sends(command) == [at |-> "send", command |-> command]
Takes(command) == [at |-> "take", command |-> command]
Waits(command) == [at |-> "wait", command |-> command]

Doing(command, at) == hermes.at = at /\ hermes.message.command = command
Finish == hermes' = [at |-> "answer", caller |-> hermes.message.caller]
GoTo(at) == hermes' = [hermes EXCEPT !.at = at]
Retry(at) == hermes' = [hermes EXCEPT !.at = at, !.retries = @ - 1]
HermesStep == UNCHANGED <<task_vars, hermes_queue, s_retry_num>>

Receive ==
  /\ hermes = Idle /\ hermes_queue # <<>>
  /\ hermes' = [at |-> "begin", message |-> Head(hermes_queue), retries |-> 0]
  /\ hermes_queue' = Tail(hermes_queue)
  /\ UNCHANGED <<status_vars, task_vars, driver_vars>>

BeginConnect ==
  /\ Doing("CONNECT", "begin")
  /\ connection_status_want' = "CONNECTED"
  /\ IF connection_status = "CONNECTED" THEN Finish ELSE GoTo("hang_up")
  /\ HermesStep /\ UNCHANGED <<connection_status, bits, driver_vars>>

BeginDisconnect ==
  /\ Doing("DISCONNECT", "begin")
  /\ connection_status_want' = "DISCONNECTED"
  /\ \/ /\ connection_status = "CONNECTED"
        /\ connection_status' = "DISCONNECTED"
        /\ hermes' = [hermes EXCEPT !.at = "hang_up", !.retries = HangUpRetries]
     \/ /\ connection_status # "CONNECTED"
        /\ Finish /\ UNCHANGED connection_status
  /\ HermesStep /\ UNCHANGED <<bits, driver_vars>>

(* esp_wifi_disconnect(), before a dial and as the disconnect itself.       *)
HangUp ==
  /\ hermes.at = "hang_up"
  /\ \/ /\ esp_wifi_disconnect /\ refused' = FALSE
        /\ hermes' = IF hermes.message.command = "CONNECT"
                       THEN [hermes EXCEPT !.at = "dial", !.retries = DialRetries]
                       ELSE [hermes EXCEPT !.at = "hung_up"]
     \/ /\ "disconnect" \in Faults /\ refused' = (link = "up")
        /\ Finish /\ UNCHANGED <<link, events>>
     \/ /\ hermes.message.command = "CONNECT" /\ "set_mode" \in Faults
        /\ esp_wifi_disconnect /\ refused' = FALSE /\ Finish
  /\ HermesStep /\ UNCHANGED <<connection_status, connection_status_want, bits>>

(* Any of the three bits ends the wait and is cleared, or the time is up.  *)
HungUp ==
  /\ Doing("DISCONNECT", "hung_up")
  /\ \/ bits' = bits \ {"CONNECTED", "DISCONNECTED", "FAIL"}
     \/ bits \intersect {"CONNECTED", "DISCONNECTED", "FAIL"} = {} /\ UNCHANGED bits
  /\ IF "DISCONNECTED" \notin bits /\ hermes.retries > 0
       THEN Retry("hang_up") ELSE Finish
  /\ HermesStep /\ UNCHANGED <<connection_status, connection_status_want, driver_vars>>

Dial ==
  /\ Doing("CONNECT", "dial")
  /\ \/ esp_wifi_connect /\ GoTo("dialed")
     \/ /\ "set_config" \in Faults
        /\ IF hermes.retries > 0 THEN Retry("dial") /\ UNCHANGED link
                                 ELSE esp_wifi_connect /\ GoTo("dialed")
  /\ HermesStep /\ UNCHANGED <<connection_status, connection_status_want, bits, events, refused>>

(* Mutant: the retries of a dial are not counted.                          *)
DialedAgain ==
  /\ Doing("CONNECT", "dialed")
  /\ IF bits \intersect {"AUTH_ERR", "CONNECTED"} = {}
       THEN GoTo("dial") ELSE Finish
  /\ HermesStep /\ UNCHANGED <<connection_status, connection_status_want, bits, driver_vars>>

(* The wait is for all three bits, so it ends with the time, and no bit is *)
(* cleared.                                                                *)
Dialed ==
  /\ Doing("CONNECT", "dialed")
  /\ IF bits \intersect {"AUTH_ERR", "CONNECTED"} = {} /\ hermes.retries > 0
       THEN Retry("dial") ELSE Finish
  /\ HermesStep /\ UNCHANGED <<connection_status, connection_status_want, bits, driver_vars>>

(* hermes_do_scan(): refused if the last one was just now, not started, or  *)
(* stopped after 10 s; else its results are stored, under status.mutex.    *)
BeginScan ==
  /\ Doing("SCAN", "begin")
  /\ GoTo("store") \/ Finish
  /\ HermesStep /\ UNCHANGED <<connection_status, connection_status_want, bits, driver_vars>>

Store ==
  /\ Doing("SCAN", "store") /\ mutex = {} /\ Finish
  /\ HermesStep /\ UNCHANGED <<connection_status, connection_status_want, bits, driver_vars>>

(* A caller that asked for a scan goes on to read how much was found.      *)
Answer ==
  /\ hermes.at = "answer" /\ hermes' = Idle
  /\ LET caller == hermes.caller IN
       call' = IF caller \notin alive THEN call
               ELSE [call EXCEPT ![caller] =
                       IF @ = Waits("SCAN") THEN Takes("READ") ELSE Idle]
  /\ UNCHANGED <<status_vars, hermes_queue, alive, mutex, driver_vars>>

Hermes ==
  Receive \/ BeginConnect \/ BeginDisconnect \/ BeginScan \/ HangUp \/ HungUp \/
  Dial \/ Dialed \/ Store \/ Answer

-----------------------------------------------------------------------------
(* The applications.                                                       *)
TaskStep == UNCHANGED <<status_vars, hermes, driver_vars>>

(* wifi_connect() and wifi_disconnect() look at the status, under          *)
(* status.mutex, before they send, and some calls end there;               *)
(* wifi_scan_get_num_results() sends at once.  READ is what only looks:    *)
(* wifi_get_connection_station(), wifi_scan_get_result().                  *)
Ask(task, command) ==
  /\ task \in alive /\ call[task] = Idle
  /\ call' = [call EXCEPT ![task] = IF command = "SCAN" THEN Sends(command) ELSE Takes(command)]
  /\ TaskStep /\ UNCHANGED <<hermes_queue, alive, mutex>>

Take(task) ==
  /\ task \in alive /\ call[task].at = "take"
  /\ mutex = {} /\ mutex' = {task}
  /\ call' = [call EXCEPT ![task].at = "look"]
  /\ TaskStep /\ UNCHANGED <<hermes_queue, alive>>

Needed(command) ==
  \/ command = "CONNECT" /\ connection_status # "CONNECTED"
  \/ command = "DISCONNECT" /\ connection_status # "DISCONNECTED"

Look(task) ==
  /\ task \in alive /\ call[task].at = "look" /\ mutex' = {}
  /\ LET command == call[task].command IN
       call' = [call EXCEPT ![task] = IF Needed(command) THEN Sends(command) ELSE Idle]
  /\ TaskStep /\ UNCHANGED <<hermes_queue, alive>>

Send(task) ==
  /\ task \in alive /\ call[task].at = "send"
  /\ Len(hermes_queue) < QueueLen
  /\ hermes_queue' = Append(hermes_queue, [caller |-> task, command |-> call[task].command])
  /\ call' = [call EXCEPT ![task].at = "wait"]
  /\ TaskStep /\ UNCHANGED <<alive, mutex>>

(* The application is deleted, whatever it waits for; a mutex that it      *)
(* holds stays locked.                                                     *)
Die(task) ==
  /\ task \in alive \intersect Mortal /\ alive' = alive \ {task}
  /\ call' = [call EXCEPT ![task] = Idle]
  /\ TaskStep /\ UNCHANGED <<hermes_queue, mutex>>

Next ==
  \/ event_handler \/ Hermes
  \/ DialSucceeds \/ DialFails \/ LinkIsLost
  \/ \E task \in Task :
       Take(task) \/ Look(task) \/ Send(task) \/ Die(task) \/
       \E command \in Asks[task] : Ask(task, command)

Spec == Init /\ [][Next]_vars

(* The event task, the driver, Hermes and the holder of the mutex go on; a *)
(* place in the queue, and the mutex, go to the one that has waited longest. *)
Fairness ==
  /\ WF_vars(event_handler) /\ SF_vars(Hermes)
  /\ WF_vars(DialSucceeds \/ DialFails)
  /\ WF_vars(\E task \in Task : Look(task))
  /\ \A task \in Task : SF_vars(Take(task) \/ Send(task))

FairSpec == Spec /\ Fairness

-----------------------------------------------------------------------------
(* What connection_status says of the link is true but for the events on   *)
(* their way: it says CONNECTED only of a link that is up; and a link that *)
(* is up is called CONNECTED, unless Hermes is about to end it or the      *)
(* driver has refused to.                                                  *)
StatusTellsTheLink ==
  events = <<>> =>
    /\ connection_status = "CONNECTED" => link = "up"
    /\ link = "up" =>
         \/ connection_status = "CONNECTED"
         \/ refused
         \/ Doing("DISCONNECT", "hang_up")

(* status.mutex was held by an application that has been deleted.          *)
LockedForGood == mutex # {} /\ mutex \intersect alive = {}

(* Every call of wifi.c returns, whatever the driver reports and however   *)
(* often Hermes and the handler dial, or an application was deleted in the *)
(* few lines that hold status.mutex.                                       *)
CallersAreAnswered ==
  \A task \in Task : []<>(call[task] = Idle \/ LockedForGood)

(* The handler's own dialling ends: once Hermes rests and no attempt       *)
(* succeeds, the station is left alone, with no retry under way.           *)
RetriesEnd ==
  <>[](hermes = Idle /\ link # "up") => <>[](link = "down" /\ events = <<>>)

(* Stated, not checked as an invariant: a disconnect that has been         *)
(* answered leaves no link.  It fails, see the findings: hermes_do_disconnect *)
(* does nothing while an attempt is under way.                             *)
DisconnectIsHonoured ==
  connection_status_want = "DISCONNECTED" /\ hermes = Idle /\ ~refused => link # "up"

(* Stated, not checked: every call returns, also after such a deletion. It *)
(* fails: Hermes itself waits for status.mutex, and so does every call.    *)
CallersAreAlwaysAnswered ==
  \A task \in Task : []<>(call[task] = Idle)
=============================================================================
