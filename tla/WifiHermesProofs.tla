-------------------------- MODULE WifiHermesProofs --------------------------
(***************************************************************************)
(* connection_status follows the link, whatever the driver reports, loses  *)
(* and refuses, for every number of applications, retries and places in    *)
(* the queues.                                                             *)
(***************************************************************************)
EXTENDS WifiHermes, TLAPS

-----------------------------------------------------------------------------
(* The parts of TypeOK that different steps keep. *)
StatusTypeOK ==
  /\ connection_status \in Status /\ connection_status_want \in Status
  /\ bits \subseteq Bit /\ s_retry_num \in 0..MaxRetryNum
QueueTypeOK == hermes_queue \in Seq(Message) /\ Len(hermes_queue) <= QueueLen
Busy == [at : {"begin", "hang_up", "hung_up", "dial", "dialed", "store"},
         message : Message, retries : 0..(DialRetries + HangUpRetries)]
HermesTypeOK == hermes = Idle \/ hermes \in Working
TaskTypeOK   == call \in [Task -> Call] /\ alive \subseteq Task /\ mutex \subseteq Task
DriverTypeOK ==
  link \in {"down", "dialing", "up"} /\ events \in Seq(Event) /\ refused \in BOOLEAN

LEMMA TypeParts ==
  TypeOK <=> /\ StatusTypeOK /\ QueueTypeOK /\ HermesTypeOK /\ TaskTypeOK
             /\ DriverTypeOK
BY DEF TypeOK, StatusTypeOK, QueueTypeOK, HermesTypeOK, TaskTypeOK, DriverTypeOK

(* Hermes at work has a message and retries left. *)
LEMMA BusyOrNot ==
  ASSUME HermesTypeOK
  PROVE  /\ hermes.at \notin {"idle", "answer"} => hermes \in Busy
         /\ hermes.at = "answer" => hermes.caller \in Task
         /\ Busy \subseteq Working
BY DEF HermesTypeOK, Working, Busy, Idle

LEMMA StepsOfBusy ==
  ASSUME hermes \in Busy,
         NEW to \in {"begin", "hang_up", "hung_up", "dial", "dialed", "store"},
         NEW left \in 0..(DialRetries + HangUpRetries)
  PROVE  /\ [hermes EXCEPT !.at = to] \in Busy
         /\ [hermes EXCEPT !.at = to, !.retries = left] \in Busy
         /\ [at |-> "answer", caller |-> hermes.message.caller] \in Working
BY DEF Busy, Working, Message

LEMMA InitType == Init => TypeOK
<1> SUFFICES ASSUME Init PROVE TypeOK
  OBVIOUS
<1>1. refused \in BOOLEAN /\ call \in [Task -> Call]
  BY DEF Init, Call
<1> QED
  BY <1>1, WifiAssumption DEF Init, TypeOK, Status, Bit, Event, Idle

LEMMA DriverType ==
  ASSUME TypeOK, DialSucceeds \/ DialFails \/ LinkIsLost
  PROVE  TypeOK'
<1>1. UNCHANGED <<status_vars, hermes_queue, hermes, task_vars>> /\ refused' = FALSE
  BY DEF DialSucceeds, DialFails, LinkIsLost, Driver
<1>2. /\ link' \in {"down", "up"}
      /\ \E event \in Event : events' = Append(events, event)
  BY DEF DialSucceeds, DialFails, LinkIsLost, Driver, Post, Event
<1>3. DriverTypeOK'
  <2>1. link' \in {"down", "dialing", "up"} /\ events' \in Seq(Event)
    BY <1>2 DEF TypeOK
  <2>2. refused' \in BOOLEAN
    BY <1>1
  <2> QED
    BY <2>1, <2>2 DEF DriverTypeOK
<1> QED
  BY <1>1, <1>3 DEF DriverTypeOK, TypeOK, status_vars, task_vars

LEMMA HandlerType ==
  ASSUME TypeOK, event_handler
  PROVE  TypeOK'
<1> USE DEF event_handler, OnStart, OnRequestedDisconnect, OnWrongCredentials, Redials,
            GivesUp, OnGotIp, Unexpected, Handle
<1>1. /\ events # <<>> /\ events' = Tail(events)
      /\ link' = link \/ esp_wifi_connect
      /\ UNCHANGED <<connection_status_want, hermes_queue, hermes, task_vars, refused>>
  OBVIOUS
<1>2. DriverTypeOK'
  BY <1>1 DEF DriverTypeOK, TypeOK, esp_wifi_connect
<1>3. /\ connection_status' \in Status \union {connection_status}
      /\ \E bit \in Bit : bits' \in {bits, bits \union {bit}}
      /\ \/ s_retry_num' \in {s_retry_num, 0}
         \/ s_retry_num < MaxRetryNum /\ s_retry_num' = s_retry_num + 1
  BY DEF Status, Bit
<1>4. StatusTypeOK'
  BY <1>1, <1>3, WifiAssumption DEF StatusTypeOK, TypeOK
<1> QED
  BY <1>1, <1>2, <1>4 DEF DriverTypeOK, StatusTypeOK, TypeOK, task_vars

LEMMA HermesType ==
  ASSUME TypeOK, Hermes
  PROVE  TypeOK'
<1>t. /\ HermesTypeOK /\ QueueTypeOK /\ DriverTypeOK /\ StatusTypeOK /\ TaskTypeOK
  BY DEF TypeOK, HermesTypeOK, QueueTypeOK, DriverTypeOK, StatusTypeOK, TaskTypeOK
<1>n. {0, DialRetries, HangUpRetries} \subseteq 0..(DialRetries + HangUpRetries)
  BY WifiAssumption
<1>1. CASE Receive
  <2>1. Head(hermes_queue) \in Message /\ QueueTypeOK'
    BY <1>1, <1>t, WifiAssumption DEF Receive, QueueTypeOK
  <2>2. HermesTypeOK'
    BY <1>1, <1>n, <2>1 DEF Receive, HermesTypeOK, Working
  <2> QED
    BY <1>1, <2>1, <2>2
    DEF Receive, TypeOK, QueueTypeOK, HermesTypeOK, status_vars, task_vars, driver_vars
<1>2. CASE Answer
  <2>1. hermes' = Idle /\ call' \in [Task -> Call]
    BY <1>2, <1>t DEF Answer, TaskTypeOK, Call, Takes
  <2> QED
    BY <1>2, <2>1 DEF Answer, TypeOK, status_vars, driver_vars
<1>3. ASSUME ~Receive, ~Answer PROVE TypeOK'
  <2> DEFINE Worker == BeginConnect \/ BeginDisconnect \/ BeginScan \/ HangUp \/ HungUp \/
                       Dial \/ Dialed \/ Store
  <2>1. Worker
    BY <1>3 DEF Hermes
  <2>2. hermes \in Busy
    BY <2>1, <1>t, BusyOrNot
    DEF BeginConnect, BeginDisconnect, BeginScan, HangUp, HungUp, Dial, Dialed, Store, Doing
  <2>3. hermes.retries \in 0..(DialRetries + HangUpRetries)
    BY <2>2 DEF Busy
  <2>4. \/ hermes' = [at |-> "answer", caller |-> hermes.message.caller]
        \/ \E to \in {"begin", "hang_up", "hung_up", "dial", "dialed", "store"} :
             \/ hermes' = [hermes EXCEPT !.at = to]
             \/ \E left \in 0..(DialRetries + HangUpRetries) :
                  hermes' = [hermes EXCEPT !.at = to, !.retries = left]
    <3>1. CASE BeginConnect \/ BeginScan \/ Store
      BY <3>1 DEF BeginConnect, BeginScan, Store, Finish, GoTo
    <3>2. CASE BeginDisconnect
      BY <3>2, <1>n DEF BeginDisconnect, Finish
    <3>4. CASE HangUp
      BY <3>4, <1>n DEF HangUp, Finish
    <3>3. CASE HungUp \/ Dial \/ Dialed
      <4>1. hermes.retries > 0 => hermes.retries - 1 \in 0..(DialRetries + HangUpRetries)
        BY <2>3, <1>n
      <4> QED
        BY <3>3, <4>1 DEF HungUp, Dial, Dialed, Finish, GoTo, Retry
    <3> QED
      BY <2>1, <3>1, <3>2, <3>3, <3>4
  <2>5. HermesTypeOK'
    <3>1. [at |-> "answer", caller |-> hermes.message.caller] \in Working
      BY <2>2, <1>n, StepsOfBusy
    <3>2. ASSUME NEW to \in {"begin", "hang_up", "hung_up", "dial", "dialed", "store"}
          PROVE  /\ [hermes EXCEPT !.at = to] \in Busy
                 /\ \A left \in 0..(DialRetries + HangUpRetries) :
                      [hermes EXCEPT !.at = to, !.retries = left] \in Busy
      BY <2>2, <1>n, StepsOfBusy
    <3> QED
      BY <2>4, <3>1, <3>2, <1>t, BusyOrNot DEF HermesTypeOK
  <2>6. UNCHANGED <<task_vars, hermes_queue, s_retry_num>>
    BY <2>1
    DEF BeginConnect, BeginDisconnect, BeginScan, HangUp, HungUp, Dial, Dialed, Store,
        HermesStep
  <2>7. StatusTypeOK'
    BY <2>1, <2>6, <1>t
    DEF BeginConnect, BeginDisconnect, BeginScan, HangUp, HungUp, Dial, Dialed, Store,
        StatusTypeOK, Status, Bit
  <2>8. DriverTypeOK'
    <3>1. link' \in {"down", "dialing", "up"} /\ events' \in Seq(Event)
      BY <2>1, <1>t
      DEF BeginConnect, BeginDisconnect, BeginScan, HangUp, HungUp, Dial, Dialed, Store,
          driver_vars, DriverTypeOK, esp_wifi_disconnect, esp_wifi_connect, Post, Event
    <3>2. refused' \in {refused, FALSE, link = "up"}
      BY <2>1
      DEF BeginConnect, BeginDisconnect, BeginScan, HangUp, HungUp, Dial, Dialed, Store,
          driver_vars
    <3>3. refused' \in BOOLEAN
      BY <3>2, <1>t DEF DriverTypeOK
    <3> QED
      BY <3>1, <3>3 DEF DriverTypeOK
  <2> QED
    BY <2>5, <2>6, <2>7, <2>8
    DEF TypeOK, StatusTypeOK, DriverTypeOK, HermesTypeOK, task_vars
<1> QED
  BY <1>1, <1>2, <1>3

(* The steps of an application. *)
Moves(task) ==
  \/ Take(task) \/ Look(task) \/ Send(task) \/ Die(task)
  \/ \E command \in Asks[task] : Ask(task, command)

LEMMA TaskType ==
  ASSUME TypeOK, NEW task \in Task,
         Moves(task)
  PROVE  TypeOK'
<1>t. TaskTypeOK /\ QueueTypeOK
  BY DEF TypeOK, TaskTypeOK, QueueTypeOK
<1>1. UNCHANGED <<status_vars, hermes, driver_vars>>
  BY DEF Moves, Take, Look, Send, Die, Ask, TaskStep
<1>2. TaskTypeOK' /\ QueueTypeOK'
  <2>1. CASE Send(task)
    <3>1. call[task] \in [at : {"send", "wait"}, command : Command]
      BY <2>1, <1>t DEF Send, TaskTypeOK, Call, Idle
    <3>2. [call[task] EXCEPT !.at = "wait"] \in Call
      BY <3>1 DEF Call
    <3>3. [caller |-> task, command |-> call[task].command] \in Message
      BY <3>1 DEF Message
    <3> QED
      BY <2>1, <1>t, <3>2, <3>3, WifiAssumption DEF Send, TaskTypeOK, QueueTypeOK
  <2>2. CASE Die(task)
    BY <2>2, <1>t DEF Die, TaskTypeOK, QueueTypeOK, Call
  <2>3. ASSUME NEW command \in Asks[task], Ask(task, command)
        PROVE  TaskTypeOK' /\ QueueTypeOK'
    <3>1. command \in Command \union {"READ"}
      BY <2>3, WifiAssumption DEF Command
    <3>2. Takes(command) \in Call /\ (command = "SCAN" => Sends(command) \in Call)
      BY <3>1 DEF Call, Takes, Sends, Command
    <3> QED
      BY <2>3, <3>2, <1>t DEF Ask, TaskTypeOK, QueueTypeOK
  <2>4. CASE Take(task)
    <3>1. call[task] \in [at : {"take", "look"}, command : Command \union {"READ"}]
      BY <2>4, <1>t DEF Take, TaskTypeOK, Call, Idle
    <3>2. [call[task] EXCEPT !.at = "look"] \in Call
      BY <3>1 DEF Call
    <3> QED
      BY <2>4, <3>2, <1>t DEF Take, TaskTypeOK, QueueTypeOK
  <2>5. CASE Look(task)
    <3>1. Needed(call[task].command) => Sends(call[task].command) \in Call
      BY DEF Needed, Sends, Call, Command
    <3>2. Idle \in Call
      BY DEF Call
    <3> QED
      BY <2>5, <3>1, <3>2, <1>t DEF Look, TaskTypeOK, QueueTypeOK
  <2> QED
    BY <2>1, <2>2, <2>3, <2>4, <2>5 DEF Moves
<1> QED
  BY <1>1, <1>2 DEF TypeOK, TaskTypeOK, QueueTypeOK, status_vars, driver_vars

LEMMA NextType == TypeOK /\ [Next]_vars => TypeOK'
<1> SUFFICES ASSUME TypeOK, [Next]_vars PROVE TypeOK'
  OBVIOUS
<1>1. CASE UNCHANGED vars
  BY <1>1 DEF vars, TypeOK
<1> QED
  BY <1>1, DriverType, HandlerType, HermesType, TaskType DEF Next, Moves

(* The types of the Wi-Fi service: in particular the handler's count of    *)
(* retries stays within its limit, and the queue within its places.        *)
THEOREM TypeCorrect == Spec => []TypeOK
<1> QED
  BY InitType, NextType, PTL DEF Spec

-----------------------------------------------------------------------------
(* The youngest event tells whether the link is up. *)
LastEventTells == events # <<>> => (link = "up" <=> events[Len(events)] = "GOT_IP")

(* The station is announced once, before anything else. *)
StartIsFirst ==
  \A i \in DOMAIN events :
    events[i] = "STA_START" => i = 1 /\ connection_status # "CONNECTED"

LinkInv == TypeOK /\ LastEventTells /\ StartIsFirst /\ StatusTellsTheLink

LEMMA InitLink == Init => LinkInv
<1> SUFFICES ASSUME Init PROVE LinkInv
  OBVIOUS
<1>1. TypeOK
  BY InitType
<1>2. LastEventTells /\ StartIsFirst /\ StatusTellsTheLink
  BY DEF Init, LastEventTells, StartIsFirst, StatusTellsTheLink
<1> QED
  BY <1>1, <1>2 DEF LinkInv

(* An event is posted when the link comes up or goes down, and tells which. *)
LEMMA PostKeepsLink ==
  ASSUME LinkInv, NEW event \in Event, event # "STA_START",
         events' = Append(events, event),
         link' = "up" <=> event = "GOT_IP",
         connection_status' = connection_status
  PROVE  LastEventTells' /\ StartIsFirst' /\ StatusTellsTheLink'
<1>1. events \in Seq(Event)
  BY DEF LinkInv, TypeOK
<1>2. /\ events' # <<>> /\ Len(events') = Len(events) + 1
      /\ events'[Len(events) + 1] = event
      /\ DOMAIN events' = DOMAIN events \union {Len(events) + 1}
      /\ \A i \in DOMAIN events : events'[i] = events[i]
  BY <1>1
<1>3. LastEventTells'
  BY <1>2 DEF LastEventTells
<1>4. StartIsFirst'
  BY <1>2 DEF StartIsFirst, LinkInv
<1> QED
  BY <1>2, <1>3, <1>4 DEF StatusTellsTheLink

LEMMA DriverKeepsLink ==
  ASSUME LinkInv, DialSucceeds \/ DialFails \/ LinkIsLost
  PROVE  LastEventTells' /\ StartIsFirst' /\ StatusTellsTheLink'
<1>1. PICK event \in Event :
        /\ event # "STA_START" /\ events' = Append(events, event)
        /\ link' = "up" <=> event = "GOT_IP"
        /\ connection_status' = connection_status
  BY DEF DialSucceeds, DialFails, LinkIsLost, Driver, Post, Event, status_vars
<1> QED
  BY <1>1, PostKeepsLink

LEMMA HandlerKeepsLink ==
  ASSUME LinkInv, event_handler
  PROVE  LastEventTells' /\ StartIsFirst' /\ StatusTellsTheLink'
<1> USE DEF event_handler, OnStart, OnRequestedDisconnect, OnWrongCredentials, Redials,
            GivesUp, OnGotIp, Unexpected, Handle
<1>1. events \in Seq(Event) /\ events # <<>> /\ events' = Tail(events)
  BY DEF LinkInv, TypeOK
<1>2. link' = "up" <=> link = "up"
  BY DEF esp_wifi_connect
<1>3. /\ events[1] = "GOT_IP" => connection_status' = "CONNECTED"
      /\ events[1] = "STA_START" => connection_status' = connection_status
      /\ events[1] \in {"STA_DISCONNECTED", "AUTH_FAIL"} => connection_status' # "CONNECTED"
      /\ events[1] \in {"GOT_IP", "STA_START", "STA_DISCONNECTED", "AUTH_FAIL"}
  BY <1>1 DEF Event
<1>4. /\ Len(events) > 0 /\ DOMAIN events = 1..Len(events)
      /\ Len(events') = Len(events) - 1 /\ DOMAIN events' = 1..(Len(events) - 1)
      /\ \A i \in DOMAIN events' : i + 1 \in DOMAIN events /\ events'[i] = events[i + 1]
  BY <1>1
<1>5. CASE Len(events) = 1
  <2>1. events' = <<>> /\ DOMAIN events' = {}
    BY <1>1, <1>4, <1>5
  <2>2. link' = "up" <=> events[1] = "GOT_IP"
    BY <1>1, <1>2, <1>5 DEF LinkInv, LastEventTells
  <2>3. connection_status' = "CONNECTED" <=> events[1] = "GOT_IP"
    BY <1>3, <1>4 DEF LinkInv, StartIsFirst
  <2> QED
    BY <2>1, <2>2, <2>3 DEF LastEventTells, StartIsFirst, StatusTellsTheLink
<1>6. CASE Len(events) > 1
  <2>0. Len(events') \in DOMAIN events' /\ Len(events') + 1 = Len(events)
    BY <1>1, <1>4, <1>6
  <2>1. events' # <<>> /\ events'[Len(events')] = events[Len(events)]
    BY <1>4, <2>0
  <2>2. LastEventTells'
    BY <1>1, <1>2, <2>1 DEF LinkInv, LastEventTells
  <2>3. \A i \in DOMAIN events' : events'[i] # "STA_START"
    BY <1>4 DEF LinkInv, StartIsFirst
  <2> QED
    BY <2>1, <2>2, <2>3 DEF StartIsFirst, StatusTellsTheLink
<1> QED
  BY <1>4, <1>5, <1>6

(* Ending a link posts an event; ending nothing changes nothing. *)
LEMMA HangUpKeepsLink ==
  ASSUME LinkInv, HangUp
  PROVE  LastEventTells' /\ StartIsFirst' /\ StatusTellsTheLink'
<1>1. connection_status' = connection_status
  BY DEF HangUp, HermesStep
<1>2. CASE UNCHANGED <<link, events>> /\ (link = "up" => refused')
  BY <1>1, <1>2 DEF LinkInv, LastEventTells, StartIsFirst, StatusTellsTheLink
<1>3. CASE link' = "down" /\ events' = Append(events, "STA_DISCONNECTED")
  BY <1>1, <1>3, PostKeepsLink DEF Event
<1> QED
  BY <1>2, <1>3 DEF HangUp, esp_wifi_disconnect, Post

LEMMA HermesKeepsLink ==
  ASSUME LinkInv, Hermes
  PROVE  LastEventTells' /\ StartIsFirst' /\ StatusTellsTheLink'
<1> USE DEF LinkInv, LastEventTells, StartIsFirst, StatusTellsTheLink
<1>1. CASE HangUp
  BY <1>1, HangUpKeepsLink
<1>2. CASE BeginDisconnect
  <2>1. UNCHANGED <<link, events, refused>> /\ connection_status' # "CONNECTED"
    BY <1>2 DEF BeginDisconnect, HermesStep, driver_vars
  <2>2. CASE connection_status = "CONNECTED"
    <3>1. hermes' = [hermes EXCEPT !.at = "hang_up", !.retries = HangUpRetries]
      BY <1>2, <2>2 DEF BeginDisconnect
    <3>2. hermes \in Busy /\ hermes.message.command = "DISCONNECT"
      BY <1>2, TypeParts, BusyOrNot DEF BeginDisconnect, Doing
    <3>3. Doing("DISCONNECT", "hang_up")'
      BY <3>1, <3>2 DEF Doing, Busy
    <3> QED
      BY <2>1, <3>3
  <2>3. CASE connection_status # "CONNECTED"
    <3>1. connection_status' = connection_status /\ hermes.at = "begin"
      BY <1>2, <2>3 DEF BeginDisconnect, Doing
    <3> QED
      BY <2>1, <3>1 DEF Doing
  <2> QED
    BY <2>2, <2>3
<1>3. CASE Receive \/ BeginConnect \/ BeginScan \/ HungUp \/ Dial \/ Dialed \/ Store \/ Answer
  <2>1. /\ UNCHANGED <<connection_status, events, refused>>
        /\ link' = "up" <=> link = "up"
        /\ hermes.at # "hang_up"
    BY <1>3
    DEF Receive, BeginConnect, BeginScan, HungUp, Dial, Dialed, Store, Answer, HermesStep,
        Doing, Idle, driver_vars, status_vars, esp_wifi_connect
  <2> QED
    BY <2>1 DEF Doing
<1> QED
  BY <1>1, <1>2, <1>3 DEF Hermes

LEMMA NextLink == LinkInv /\ [Next]_vars => LinkInv'
<1> SUFFICES ASSUME LinkInv, [Next]_vars PROVE LinkInv'
  OBVIOUS
<1>1. TypeOK'
  BY NextType DEF LinkInv
<1>2. LastEventTells' /\ StartIsFirst' /\ StatusTellsTheLink'
  <2>1. ASSUME NEW task \in Task,
               Moves(task)
        PROVE  LastEventTells' /\ StartIsFirst' /\ StatusTellsTheLink'
    <3>1. UNCHANGED <<connection_status, link, events, refused, hermes>>
      BY <2>1 DEF Moves, Take, Look, Send, Die, Ask, TaskStep, status_vars, driver_vars
    <3> QED
      BY <3>1 DEF LinkInv, LastEventTells, StartIsFirst, StatusTellsTheLink, Doing
  <2>2. CASE UNCHANGED vars
    BY <2>2 DEF vars, LinkInv, LastEventTells, StartIsFirst, StatusTellsTheLink, Doing
  <2> QED
    BY <2>1, <2>2, DriverKeepsLink, HandlerKeepsLink, HermesKeepsLink DEF Next, Moves
<1> QED
  BY <1>1, <1>2 DEF LinkInv

(* But for events on their way, the status that applications read says     *)
(* CONNECTED exactly when the station is; a disconnect that has begun, or  *)
(* that the driver refuses, is the one exception.                          *)
THEOREM StatusIsTrue == Spec => []StatusTellsTheLink
<1>1. LinkInv => StatusTellsTheLink
  BY DEF LinkInv
<1> QED
  BY InitLink, NextLink, <1>1, PTL DEF Spec
=============================================================================
