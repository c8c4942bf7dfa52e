--------------------------- MODULE WindowsProofs ----------------------------
(***************************************************************************)
(* The safety properties of Windows for every number of tasks and windows, *)
(* every length of both queues and every number of commands and keys per   *)
(* frame, also where a window is freed twice: the number of windows is     *)
(* exact, only allocated windows are drawn, and a running task sees its    *)
(* windows.                                                                *)
(***************************************************************************)
EXTENDS Windows, SequenceTheorems, TLAPS

Calls(t)   == call[t].at \in {"send", "answer"}
Queued     == {compositor_queue[i] : i \in DOMAIN compositor_queue}
Injective(s) == \A i, j \in DOMAIN s : s[i] = s[j] => i = j

(* The types the proofs need. *)
TypeInv ==
  /\ window_stack \in Seq(Window) /\ linked \subseteq Window
  /\ cur_num_windows \in Nat
  /\ used \subseteq Window
  /\ compositor_queue \in Seq(Message)
  /\ alive \subseteq Task /\ terminating \subseteq Task
  /\ resources \in [Task -> SUBSET Window]
  /\ call \in [Task -> Call]
  /\ hades_queue \in Seq(Task)
  /\ hades # "receive" => dead \in Task
  /\ hades = "send" => doomed \in Window

(* Every address belongs to one task and is used once; a task is in a call *)
(* for a window it has.                                                    *)
OwnersInv ==
  /\ \A t \in Task : resources[t] \subseteq used
  /\ \A t, u \in Task, w \in Window : w \in resources[t] /\ w \in resources[u] => t = u
  /\ \A t \in Task : call[t].at # "run" => call[t].window \in resources[t]
  /\ linked \subseteq used /\ heap \subseteq used
  /\ \A m \in Queued : m.window \in used
  /\ hades = "send" => doomed \in used

CreatedOnce == \A i, j \in DOMAIN compositor_queue :
  /\ compositor_queue[i].command = "create" /\ compositor_queue[j].command = "create"
  /\ compositor_queue[i].window = compositor_queue[j].window
  => i = j

(* The ring, and the windows that are about to enter it. *)
RingInv ==
  /\ WindowCountIsExact
  /\ Injective(window_stack)
  /\ CreatedOnce
  /\ \A m \in Queued : m.command = "create" => m.window \notin linked
  /\ \A t \in Task : call[t].at = "send" /\ call[t].command = "create" =>
       /\ call[t].window \notin linked
       /\ \A m \in Queued : m.command = "create" => m.window # call[t].window

(* The dead are in no call, and Hades hears of the dead only. *)
DeathInv ==
  /\ \A t \in Task \ alive : call[t].at = "run"
  /\ \A t \in terminating : t \notin alive
  /\ compositor = "hook" => in_use \in Task \ alive
  /\ \A i \in DOMAIN hades_queue : hades_queue[i] \notin alive
  /\ hades # "receive" => dead \notin alive

Counted  == OwnersInv /\ RingInv
CountInv == TypeInv /\ Counted /\ DeathInv

(* A queued command of a living task is the one it waits for. *)
AnswerInv ==
  /\ \A t \in Task : <<t, 0>> \in notified => call[t].at = "answer"
  /\ \A i \in DOMAIN compositor_queue : LET m == compositor_queue[i] IN
       m.caller \in alive =>
         /\ call[m.caller].at = "answer" /\ <<m.caller, 0>> \notin notified
         /\ call[m.caller].command = m.command /\ call[m.caller].window = m.window
         /\ \A j \in DOMAIN compositor_queue : compositor_queue[j].caller = m.caller => j = i

(* A window that is on its way to be destroyed is in the resources of the   *)
(* task that asked for it, or of none.                                     *)
DestroyerInv ==
  /\ \A m \in Queued : m.command = "destroy" =>
       \A t \in Task : m.window \in resources[t] => t = m.caller
  /\ hades = "send" => \A t \in Task : doomed \notin resources[t]

(* A window that is on its way into the ring is allocated, and no command   *)
(* before it frees it.                                                     *)
HeapInv ==
  /\ \A i \in DOMAIN compositor_queue : compositor_queue[i].command = "create" =>
       /\ compositor_queue[i].window \in heap
       /\ \A j \in DOMAIN compositor_queue :
            j < i /\ compositor_queue[j].command = "destroy" =>
              compositor_queue[j].window # compositor_queue[i].window
  /\ \A t \in Task : call[t].at = "send" /\ call[t].command = "create" =>
       call[t].window \in heap

Posted == AnswerInv /\ DestroyerInv /\ HeapInv

(* What is drawn is in the ring, or was when the frame began. *)
FrameInv ==
  /\ linked \subseteq heap
  /\ remaining \in Seq(Window) /\ ToSet(remaining) \subseteq heap
  /\ compositor \in {"look", "draw"} <=> remaining # <<>>

(* A task that lives owns each of its windows and sees it on screen, but    *)
(* for the one it is creating or destroying.                               *)
InCall(t, command, w) ==
  call[t].at \in {"send", "answer"} /\ call[t].command = command /\ call[t].window = w

Owns(t, w) == task_info[w] = t \/ (task_info[w] = None /\ InCall(t, "destroy", w))

Sees(t, w) ==
  \/ w \in linked
  \/ Closing(t)
  \/ InCall(t, "destroy", w)
  \/ InCall(t, "create", w) /\ <<t, 0>> \notin notified

ShownTo(t) == \A w \in resources[t] : Owns(t, w) /\ Sees(t, w)

ShownInv ==
  /\ task_info \in [Window -> Task \union {None}]
  /\ \A t \in alive : ShownTo(t)

-----------------------------------------------------------------------------
(* Sequences.  A ring is an injective sequence, and what matters of it is   *)
(* its length and its set of windows.                                       *)
LEMMA TailIs ==
  ASSUME NEW S, NEW s \in Seq(S), s # <<>>
  PROVE  /\ Head(s) = s[1] /\ 1 \in DOMAIN s /\ Head(s) \in S
         /\ Tail(s) \in Seq(S) /\ Len(Tail(s)) = Len(s) - 1
         /\ \A i \in DOMAIN Tail(s) : /\ i + 1 \in DOMAIN s /\ i + 1 # 1
                                      /\ Tail(s)[i] = s[i + 1]
OBVIOUS

LEMMA AppendIs ==
  ASSUME NEW S, NEW s \in Seq(S), NEW x \in S
  PROVE  /\ Append(s, x) \in Seq(S)
         /\ DOMAIN Append(s, x) = DOMAIN s \union {Len(s) + 1}
         /\ Append(s, x)[Len(s) + 1] = x
         /\ \A i \in DOMAIN s : Append(s, x)[i] = s[i] /\ i \in Nat /\ i < Len(s) + 1
OBVIOUS

LEMMA SubSeqIs ==
  ASSUME NEW S, NEW s \in Seq(S), NEW a \in 1..(Len(s) + 1), NEW b \in (a - 1)..Len(s)
  PROVE  /\ SubSeq(s, a, b) \in Seq(S) /\ Len(SubSeq(s, a, b)) = b - a + 1
         /\ \A i \in 1..(b - a + 1) : SubSeq(s, a, b)[i] = s[a + i - 1]
OBVIOUS

(* A new window in front. *)
LEMMA Pushed ==
  ASSUME NEW n \in Nat, NEW s, NEW r, NEW w,
         DOMAIN s = 1..n, DOMAIN r = 1..(n + 1), Injective(s), w \notin ToSet(s),
         \A i \in 1..(n + 1) : r[i] = IF i = 1 THEN w ELSE s[i - 1]
  PROVE  ToSet(r) = ToSet(s) \union {w} /\ Injective(r)
<1>1. ToSet(s) = {s[i] : i \in 1..n} /\ ToSet(r) = {r[i] : i \in 1..(n + 1)}
  BY DEF ToSet
<1>2. ASSUME NEW i \in 1..n PROVE s[i] \in ToSet(r) /\ s[i] # w
  <2>1. i + 1 \in 1..(n + 1) /\ r[i + 1] = s[i]
    OBVIOUS
  <2> QED
    BY <1>1, <2>1
<1>3. ASSUME NEW j \in 1..(n + 1) PROVE r[j] \in ToSet(s) \union {w}
  <2>1. j = 1 \/ (j - 1 \in 1..n /\ r[j] = s[j - 1])
    OBVIOUS
  <2> QED
    BY <1>1, <2>1
<1>4. w \in ToSet(r)
  <2>1. 1 \in 1..(n + 1) /\ r[1] = w
    OBVIOUS
  <2> QED
    BY <1>1, <2>1
<1>5. ToSet(r) = ToSet(s) \union {w}
  BY <1>1, <1>2, <1>3, <1>4
<1>6. \A i, j \in 1..n : s[i] = s[j] => i = j
  BY Zenon DEF Injective
<1>7. \A i, j \in 1..(n + 1) : r[i] = r[j] => i = j
  BY <1>2, <1>6
<1> QED
  BY <1>5, <1>7 DEF Injective

(* The front window goes to the back. *)
LEMMA Rotated ==
  ASSUME NEW n \in Nat \ {0}, NEW s, NEW r, DOMAIN s = 1..n, DOMAIN r = 1..n,
         Injective(s), \A i \in 1..n : r[i] = IF i = n THEN s[1] ELSE s[i + 1]
  PROVE  ToSet(r) = ToSet(s) /\ Injective(r)
<1>1. \A i, j \in 1..n : s[i] = s[j] => i = j
  BY Zenon DEF Injective
<1>2. ASSUME NEW i \in 1..n PROVE \E j \in 1..n : s[i] = r[j]
  <2>1. CASE i = 1
    BY <2>1
  <2>2. CASE i # 1
    <3>1. i - 1 \in 1..n /\ i - 1 # n /\ (i - 1) + 1 = i
      BY <2>2
    <3> QED
      BY <3>1
  <2> QED
    BY <2>1, <2>2
<1>3. ASSUME NEW j \in 1..n PROVE \E i \in 1..n : r[j] = s[i]
  OBVIOUS
<1>4. ASSUME NEW i \in 1..n, NEW j \in 1..n, r[i] = r[j] PROVE i = j
  BY <1>1, <1>4
<1>5. ToSet(r) = ToSet(s)
  <2>1. ToSet(s) = {s[i] : i \in 1..n} /\ ToSet(r) = {r[i] : i \in 1..n}
    BY DEF ToSet
  <2>2. \A i \in 1..n : s[i] \in ToSet(r)
    BY <1>2, <2>1
  <2>3. \A i \in 1..n : r[i] \in ToSet(s)
    BY <1>3, <2>1
  <2> QED
    BY <2>1, <2>2, <2>3
<1> QED
  BY <1>4, <1>5 DEF Injective

(* The ring as the frame begins, from the back to the front. *)
LEMMA Reversed ==
  ASSUME NEW n \in Nat, NEW s, NEW r, DOMAIN s = 1..n, DOMAIN r = 1..n,
         \A i \in 1..n : r[i] = s[n - i + 1]
  PROVE  ToSet(r) = ToSet(s)
<1>1. \A i \in 1..n : n - i + 1 \in 1..n /\ n - (n - i + 1) + 1 = i
  OBVIOUS
<1>2. \A i \in 1..n : \E j \in 1..n : s[i] = r[j]
  BY <1>1
<1>3. \A j \in 1..n : \E i \in 1..n : r[j] = s[i]
  BY <1>1
<1>4. ToSet(s) = {s[i] : i \in 1..n} /\ ToSet(r) = {r[i] : i \in 1..n}
  BY DEF ToSet
<1> QED
  BY <1>2, <1>3, <1>4

(* A ring without its kth window, from the one after it on. *)
LEMMA Without ==
  ASSUME NEW n \in Nat, NEW k \in 1..n, NEW s, NEW r,
         DOMAIN s = 1..n, DOMAIN r = 1..(n - 1), Injective(s),
         \A i \in 1..(n - 1) : r[i] = IF i <= n - k THEN s[k + i] ELSE s[i - (n - k)]
  PROVE  ToSet(r) = ToSet(s) \ {s[k]} /\ Injective(r)
<1>1. \A i, j \in 1..n : s[i] = s[j] => i = j
  BY Zenon DEF Injective
<1>2. ASSUME NEW i \in 1..n, i # k PROVE \E j \in 1..(n - 1) : s[i] = r[j]
  <2>1. CASE i < k
    <3>1. /\ i + (n - k) \in 1..(n - 1) /\ ~(i + (n - k) <= n - k)
          /\ (i + (n - k)) - (n - k) = i
      BY <2>1
    <3> QED
      BY <3>1
  <2>2. CASE i > k
    <3>1. i - k \in 1..(n - 1) /\ i - k <= n - k /\ k + (i - k) = i
      BY <2>2
    <3> QED
      BY <3>1
  <2> QED
    BY <1>2, <2>1, <2>2
<1>3. ASSUME NEW j \in 1..(n - 1) PROVE \E i \in 1..n : i # k /\ r[j] = s[i]
  <2>1. CASE j <= n - k
    <3>1. k + j \in 1..n /\ k + j # k
      BY <2>1
    <3> QED
      BY <2>1, <3>1
  <2>2. CASE ~(j <= n - k)
    <3>1. j - (n - k) \in 1..n /\ j - (n - k) # k
      BY <2>2
    <3> QED
      BY <2>2, <3>1
  <2> QED
    BY <2>1, <2>2
<1>4. ASSUME NEW i \in 1..(n - 1), NEW j \in 1..(n - 1), r[i] = r[j] PROVE i = j
  <2> DEFINE f(m) == IF m <= n - k THEN k + m ELSE m - (n - k)
  <2>1. /\ f(i) \in 1..n /\ f(j) \in 1..n
        /\ r[i] = s[f(i)] /\ r[j] = s[f(j)]
    OBVIOUS
  <2>2. f(i) = f(j)
    BY <1>1, <1>4, <2>1
  <2> QED
    BY <2>2
<1>5. ToSet(s) = {s[i] : i \in 1..n} /\ ToSet(r) = {r[i] : i \in 1..(n - 1)}
  BY DEF ToSet
<1>6. ToSet(r) = ToSet(s) \ {s[k]}
  BY <1>1, <1>2, <1>3, <1>5
<1> QED
  BY <1>4, <1>6 DEF Injective

LEMMA PushRing ==
  ASSUME NEW S, NEW s \in Seq(S), Injective(s), NEW w \in S, w \notin ToSet(s)
  PROVE  /\ <<w>> \o s \in Seq(S) /\ Injective(<<w>> \o s) /\ Len(<<w>> \o s) = Len(s) + 1
         /\ ToSet(<<w>> \o s) = ToSet(s) \union {w}
<1> DEFINE n == Len(s)
           r == <<w>> \o s
<1>1. /\ r \in Seq(S) /\ Len(r) = n + 1 /\ n \in Nat
      /\ DOMAIN s = 1..n /\ DOMAIN r = 1..(n + 1)
      /\ \A i \in 1..(n + 1) : r[i] = IF i = 1 THEN w ELSE s[i - 1]
  OBVIOUS
<1> HIDE DEF n, r
<1>2. ToSet(r) = ToSet(s) \union {w} /\ Injective(r)
  BY <1>1, Pushed, Zenon
<1> QED
  BY <1>1, <1>2 DEF n, r

LEMMA RotateRing ==
  ASSUME NEW S, NEW s \in Seq(S), s # <<>>, Injective(s)
  PROVE  LET r == Append(Tail(s), Head(s)) IN
         r \in Seq(S) /\ Injective(r) /\ Len(r) = Len(s) /\ ToSet(r) = ToSet(s)
<1> DEFINE n == Len(s)
           r == Append(Tail(s), Head(s))
<1>1. /\ r \in Seq(S) /\ Len(r) = n /\ n \in Nat \ {0}
      /\ DOMAIN s = 1..n /\ DOMAIN r = 1..n
      /\ \A i \in 1..n : r[i] = IF i = n THEN s[1] ELSE s[i + 1]
  OBVIOUS
<1> HIDE DEF n, r
<1>2. ToSet(r) = ToSet(s) /\ Injective(r)
  BY <1>1, Rotated, Zenon
<1> QED
  BY <1>1, <1>2 DEF n, r

LEMMA ReverseRing ==
  ASSUME NEW S, NEW s \in Seq(S)
  PROVE  /\ Reverse(s) \in Seq(S) /\ ToSet(Reverse(s)) = ToSet(s)
         /\ s = <<>> <=> Reverse(s) = <<>>
<1> DEFINE n == Len(s)
           r == Reverse(s)
<1>1. /\ r \in Seq(S) /\ Len(r) = n /\ n \in Nat
      /\ DOMAIN s = 1..n /\ DOMAIN r = 1..n
      /\ \A i \in 1..n : r[i] = s[n - i + 1]
  BY DEF Reverse
<1>2. s = <<>> <=> r = <<>>
  BY <1>1
<1> HIDE DEF n, r
<1>3. ToSet(r) = ToSet(s)
  BY <1>1, Reversed, Zenon
<1> QED
  BY <1>1, <1>2, <1>3 DEF n, r

(* remove_window() takes out one window of the ring, or does nothing. *)
LEMMA RemoveWindow ==
  ASSUME NEW w, window_stack \in Seq(Window), Injective(window_stack),
         WindowCountIsExact, remove_window(w)
  PROVE  /\ window_stack' \in Seq(Window) /\ Injective(window_stack)'
         /\ WindowCountIsExact' /\ linked' = linked \ {w}
<1>1. CASE w \notin linked
  <2>1. UNCHANGED <<window_stack, linked, cur_num_windows>>
    BY <1>1 DEF remove_window, Linked
  <2> QED
    BY <1>1, <2>1 DEF WindowCountIsExact, Injective
<1>2. CASE w \in linked
  <2> DEFINE s == window_stack
             n == Len(window_stack)
             k == IndexOf(w)
             r == After(w) \o Before(w)
  <2>1. k \in 1..n /\ s[k] = w
    <3>1. \E i \in DOMAIN s : s[i] = w
      BY <1>2 DEF WindowCountIsExact, ToSet
    <3> QED
      BY <3>1 DEF IndexOf
  <2>2. /\ n \in Nat /\ n # 0 /\ DOMAIN s = 1..n
        /\ After(w) = SubSeq(s, k + 1, n) /\ Before(w) = SubSeq(s, 1, k - 1)
    BY <2>1 DEF After, Before
  <2> HIDE DEF k
  <2> HIDE DEF n
  <2>3. /\ After(w) \in Seq(Window) /\ Len(After(w)) = n - k
        /\ \A i \in 1..(n - k) : After(w)[i] = s[k + i]
    BY <2>1, <2>2, SubSeqIs
  <2>4. /\ Before(w) \in Seq(Window) /\ Len(Before(w)) = k - 1
        /\ \A i \in 1..(k - 1) : Before(w)[i] = s[i]
    BY <2>1, <2>2, SubSeqIs
  <2>5. /\ r \in Seq(Window) /\ Len(r) = n - 1 /\ DOMAIN r = 1..(n - 1)
        /\ \A i \in 1..(n - 1) : r[i] = IF i <= n - k THEN s[k + i] ELSE s[i - (n - k)]
    BY <2>1, <2>2, <2>3, <2>4
  <2> HIDE DEF r
  <2>6. ToSet(r) = ToSet(s) \ {w} /\ Injective(r)
    <3>1. k \in 1..n /\ DOMAIN s = 1..n /\ Injective(s)
      BY <2>1, <2>2
    <3>2. ToSet(r) = ToSet(s) \ {s[k]} /\ Injective(r)
      BY <2>2, <2>5, <3>1, Without, Zenon
    <3> QED
      BY <2>1, <3>2
  <2>10. /\ window_stack' = r /\ linked' = linked \ {w}
         /\ cur_num_windows' = cur_num_windows - 1
    BY <1>2 DEF remove_window, Linked, r
  <2>11. Injective(window_stack)'
    BY <2>6, <2>10 DEF Injective
  <2>12. WindowCountIsExact'
    <3>1. n = cur_num_windows /\ ToSet(s) = linked
      BY DEF WindowCountIsExact, n
    <3> QED
      BY <2>5, <2>6, <2>10, <3>1 DEF WindowCountIsExact
  <2> QED
    BY <2>5, <2>10, <2>11, <2>12
<1> QED
  BY <1>1, <1>2

-----------------------------------------------------------------------------
(* The number of windows. *)
LEMMA InitCount == Init => CountInv
<1> SUFFICES ASSUME Init PROVE CountInv
  OBVIOUS
<1>1. TypeInv
  BY DEF Init, TypeInv, Idle, Call, Command
<1>2. OwnersInv
  BY DEF Init, OwnersInv, Queued, Idle
<1>3. RingInv
  BY DEF Init, RingInv, WindowCountIsExact, Injective, CreatedOnce, Queued, Idle, ToSet
<1>4. DeathInv
  BY DEF Init, DeathInv
<1> QED
  BY <1>1, <1>2, <1>3, <1>4 DEF CountInv, Counted

(* A reboot. *)
LEMMA RebootIsInit == Reboot => Init'
BY DEF Reboot, Init

(* The types of what Stop(), the deletion hook, Ask() and Post() change. *)
LEMMA StopType ==
  ASSUME TypeInv, NEW t \in Task, Stop(t)
  PROVE  /\ alive' \subseteq Task /\ call' \in [Task -> Call]
         /\ \A u \in Task : call'[u] = IF u = t THEN Idle ELSE call[u]
BY DEF TypeInv, Stop, Idle, Call, Command

LEMMA HookType ==
  ASSUME TypeInv, NEW t \in Task, vTaskPreDeletionHook(t)
  PROVE  /\ hades_queue' \in Seq(Task)
         /\ DOMAIN hades_queue' = DOMAIN hades_queue \union {Len(hades_queue) + 1}
         /\ hades_queue'[Len(hades_queue) + 1] = t
         /\ \A i \in DOMAIN hades_queue : hades_queue'[i] = hades_queue[i]
<1>1. hades_queue \in Seq(Task) /\ hades_queue' = Append(hades_queue, t)
  BY DEF TypeInv, vTaskPreDeletionHook
<1> QED
  BY <1>1, AppendIs

LEMMA AskType ==
  ASSUME TypeInv, NEW t \in Task, NEW c \in Command, NEW w \in Window, Ask(t, c, w)
  PROVE  /\ call' \in [Task -> Call]
         /\ \A u \in Task : call'[u] = IF u = t THEN [at |-> "send", command |-> c, window |-> w]
                                               ELSE call[u]
BY DEF TypeInv, Ask, Call, Command

LEMMA PostIs ==
  ASSUME TypeInv, NEW m \in Message, Post(m)
  PROVE  /\ compositor_queue' \in Seq(Message)
         /\ DOMAIN compositor_queue' = DOMAIN compositor_queue \union {Len(compositor_queue) + 1}
         /\ compositor_queue'[Len(compositor_queue) + 1] = m
         /\ \A i \in DOMAIN compositor_queue :
              compositor_queue'[i] = compositor_queue[i] /\ i \in Nat /\ i < Len(compositor_queue) + 1
         /\ Queued' = Queued \union {m}
<1>1. compositor_queue \in Seq(Message) /\ compositor_queue' = Append(compositor_queue, m)
  BY DEF TypeInv, Post
<1>2. /\ compositor_queue' \in Seq(Message)
      /\ DOMAIN compositor_queue' = DOMAIN compositor_queue \union {Len(compositor_queue) + 1}
      /\ compositor_queue'[Len(compositor_queue) + 1] = m
      /\ \A i \in DOMAIN compositor_queue :
           compositor_queue'[i] = compositor_queue[i] /\ i \in Nat /\ i < Len(compositor_queue) + 1
  BY <1>1, AppendIs
<1>3. Queued' = Queued \union {m}
  BY <1>2 DEF Queued
<1> QED
  BY <1>2, <1>3

LEMMA HeadIs ==
  ASSUME TypeInv, compositor_queue # <<>>, compositor_queue' = Tail(compositor_queue)
  PROVE  /\ Head(compositor_queue) = compositor_queue[1] /\ 1 \in DOMAIN compositor_queue
         /\ Head(compositor_queue) \in Message /\ Head(compositor_queue) \in Queued
         /\ compositor_queue' \in Seq(Message) /\ Queued' \subseteq Queued
         /\ \A i \in DOMAIN compositor_queue' :
              /\ i \in Nat /\ i + 1 \in DOMAIN compositor_queue /\ i + 1 # 1
              /\ compositor_queue'[i] = compositor_queue[i + 1]
<1>1. compositor_queue \in Seq(Message)
  BY DEF TypeInv
<1>2. /\ Head(compositor_queue) = compositor_queue[1] /\ 1 \in DOMAIN compositor_queue
      /\ Head(compositor_queue) \in Message /\ compositor_queue' \in Seq(Message)
      /\ \A i \in DOMAIN compositor_queue' :
           /\ i \in Nat /\ i + 1 \in DOMAIN compositor_queue /\ i + 1 # 1
           /\ compositor_queue'[i] = compositor_queue[i + 1]
  BY <1>1, TailIs
<1>3. Head(compositor_queue) \in Queued /\ Queued' \subseteq Queued
  BY <1>2 DEF Queued
<1> QED
  BY <1>2, <1>3

(* The executed command, and what it does to the ring. *)
LEMMA ExecuteIs ==
  ASSUME CountInv, NextCommand
  PROVE  LET m == Head(compositor_queue) IN
         /\ m \in Message /\ m \in Queued /\ compositor_queue' = Tail(compositor_queue)
         /\ compositor_queue # <<>>
         /\ window_stack' \in Seq(Window) /\ Injective(window_stack)' /\ WindowCountIsExact'
         /\ m.command = "create" => linked' = linked \union {m.window} /\ heap' = heap
         /\ m.command = "destroy" => linked' = linked \ {m.window} /\ heap' = heap \ {m.window}
         /\ m.command \notin {"create", "destroy"} =>
              UNCHANGED <<window_stack, linked, heap>>
<1> DEFINE m == Head(compositor_queue)
<1>1. /\ compositor_queue # <<>> /\ compositor_queue' = Tail(compositor_queue) /\ Execute(m)
  BY DEF NextCommand
<1>2. m \in Message /\ m \in Queued
  BY <1>1, HeadIs DEF CountInv
<1>3. m.window \in Window /\ m.command \in Command
  BY <1>2 DEF Message
<1> HIDE DEF m
<1>4. /\ window_stack \in Seq(Window) /\ Injective(window_stack) /\ WindowCountIsExact
  BY DEF CountInv, Counted, TypeInv, RingInv
<1>5. CASE m.command = "create"
  <2>1. m.window \notin ToSet(window_stack)
    BY <1>2, <1>5 DEF CountInv, Counted, RingInv, WindowCountIsExact
  <2>2. /\ window_stack' = <<m.window>> \o window_stack
        /\ linked' = linked \union {m.window} /\ cur_num_windows' = cur_num_windows + 1
        /\ heap' = heap
    BY <1>1, <1>5 DEF Execute, push_window
  <2>3. /\ window_stack' \in Seq(Window) /\ Injective(window_stack')
        /\ Len(window_stack') = Len(window_stack) + 1
        /\ ToSet(window_stack') = ToSet(window_stack) \union {m.window}
    BY <1>3, <1>4, <2>1, <2>2, PushRing
  <2>4. WindowCountIsExact'
    BY <1>4, <2>2, <2>3 DEF WindowCountIsExact
  <2>5. Injective(window_stack)'
    BY <2>3 DEF Injective
  <2> QED
    BY <1>1, <1>2, <1>5, <2>2, <2>3, <2>4, <2>5 DEF m
<1>6. CASE m.command = "destroy"
  <2>1. remove_window(m.window) /\ heap' = heap \ {m.window}
    BY <1>1, <1>6 DEF Execute
  <2>2. /\ window_stack' \in Seq(Window) /\ Injective(window_stack)'
        /\ WindowCountIsExact' /\ linked' = linked \ {m.window}
    BY <1>4, <2>1, RemoveWindow
  <2> QED
    BY <1>1, <1>2, <1>6, <2>1, <2>2 DEF m
<1>7. CASE m.command \notin {"create", "destroy"}
  <2>1. UNCHANGED <<window_stack, linked, cur_num_windows, heap>>
    BY <1>1, <1>7 DEF Execute
  <2>2. Injective(window_stack)' /\ WindowCountIsExact'
    BY <1>4, <2>1 DEF Injective, WindowCountIsExact
  <2> QED
    BY <1>1, <1>2, <1>4, <1>7, <2>1, <2>2 DEF m
<1> QED
  BY <1>5, <1>6, <1>7

LEMMA ExactNext ==
  ASSUME window_stack' \in Seq(Window), WindowCountIsExact'
  PROVE  cur_num_windows' \in Nat /\ linked' \subseteq Window
BY DEF WindowCountIsExact, ToSet

LEMMA CompositorType == CountInv /\ Compositor => TypeInv'
<1> SUFFICES ASSUME CountInv, Compositor PROVE TypeInv'
  OBVIOUS
<1>1. /\ TypeInv /\ window_stack \in Seq(Window)
      /\ Injective(window_stack) /\ WindowCountIsExact
  BY DEF CountInv, Counted, TypeInv, RingInv
<1>2. CASE NextCommand
  <2>1. /\ window_stack' \in Seq(Window) /\ WindowCountIsExact'
        /\ compositor_queue # <<>> /\ compositor_queue' = Tail(compositor_queue)
    BY <1>2, ExecuteIs
  <2>2. cur_num_windows' \in Nat /\ linked' \subseteq Window
    BY <2>1, ExactNext
  <2>3. compositor_queue' \in Seq(Message)
    BY <1>1, <2>1, HeadIs
  <2> QED
    BY <1>1, <1>2, <2>1, <2>2, <2>3 DEF NextCommand, TypeInv, hades_vars
<1>3. CASE CommandsDone \/ KeysDone \/ Look \/ Draw
  BY <1>1, <1>3 DEF CommandsDone, KeysDone, Look, Draw, TypeInv, window_vars, task_vars, hades_vars
<1>4. CASE ALT_TAB
  <2>1. window_stack # <<>> /\ window_stack' = Append(Tail(window_stack), Head(window_stack))
    BY <1>4 DEF ALT_TAB, Key
  <2>2. window_stack' \in Seq(Window)
    BY <1>1, <2>1, RotateRing
  <2> QED
    BY <1>1, <1>4, <2>2 DEF ALT_TAB, TypeInv, task_vars, hades_vars
<1>5. CASE FN_CROSS \/ DropOwnerless
  <2>1. PICK w : remove_window(w)
    BY <1>5 DEF FN_CROSS, DropOwnerless
  <2>2. window_stack' \in Seq(Window) /\ WindowCountIsExact'
    BY <1>1, <2>1, RemoveWindow
  <2>3. cur_num_windows' \in Nat /\ linked' \subseteq Window
    BY <2>2, ExactNext
  <2> QED
    BY <1>1, <1>5, <2>2, <2>3 DEF FN_CROSS, DropOwnerless, TypeInv, task_vars, hades_vars
<1>6. CASE Kill
  <2>1. alive' \subseteq Task /\ call' \in [Task -> Call]
    <3>1. CASE in_use \in alive
      <4>1. in_use \in Task /\ Stop(in_use)
        BY <1>1, <1>6, <3>1 DEF Kill, TypeInv
      <4> QED
        BY <1>1, <4>1, StopType
    <3>2. CASE in_use \notin alive
      BY <1>1, <1>6, <3>2 DEF Kill, TypeInv
    <3> QED
      BY <3>1, <3>2
  <2> QED
    BY <1>1, <1>6, <2>1 DEF Kill, TypeInv, window_vars, hades_vars
<1>7. CASE Hook
  <2>1. in_use \in Task /\ vTaskPreDeletionHook(in_use)
    BY <1>7 DEF Hook, CountInv, DeathInv
  <2>2. hades_queue' \in Seq(Task)
    BY <1>1, <2>1, HookType
  <2> QED
    BY <1>1, <1>7, <2>2 DEF Hook, TypeInv, window_vars, task_vars
<1>8. CASE FreesTwice
  <2>1. Init'
    BY <1>8, RebootIsInit DEF FreesTwice
  <2>2. Init' => CountInv'
    BY InitCount, PTL
  <2> QED
    BY <2>1, <2>2 DEF CountInv
<1> QED
  BY <1>2, <1>3, <1>4, <1>5, <1>6, <1>7, <1>8 DEF Compositor

LEMMA HadesType == CountInv /\ Hades => TypeInv'
<1> SUFFICES ASSUME TypeInv, Hades PROVE TypeInv'
  BY DEF CountInv
<1>1. CASE HadesReceive
  <2>1. dead' \in Task /\ hades_queue' \in Seq(Task)
    BY <1>1 DEF HadesReceive, TypeInv
  <2> QED
    BY <1>1, <2>1 DEF HadesReceive, TypeInv, window_vars, task_vars, loop_vars
<1>2. CASE HadesDestroy
  BY <1>2 DEF HadesDestroy, TypeInv, loop_vars
<1>3. CASE HadesSend
  <2>1. [command |-> "destroy", window |-> doomed, caller |-> None] \in Message
    BY <1>3 DEF HadesSend, TypeInv, Message, Command
  <2>2. compositor_queue' \in Seq(Message)
    BY <1>3, <2>1, PostIs DEF HadesSend
  <2> QED
    BY <1>3, <2>2 DEF HadesSend, TypeInv, window_vars, task_vars, loop_vars
<1>4. CASE HadesFrees
  BY <1>4 DEF HadesFrees, TypeInv, window_vars, loop_vars
<1> QED
  BY <1>1, <1>2, <1>3, <1>4 DEF Hades

LEMMA TaskType ==
  ASSUME CountInv, NEW t \in Task, Begins(t) \/ Continues(t) \/ IdleReap(t)
  PROVE  TypeInv'
<1> SUFFICES ASSUME TypeInv PROVE TypeInv'
  BY DEF CountInv
<1>1. CASE window_create(t)
  <2>1. PICK w \in Window \ used :
          /\ used' = used \union {w}
          /\ resources' = [resources EXCEPT ![t] = @ \union {w}]
          /\ Ask(t, "create", w)
    BY <1>1 DEF window_create
  <2>2. call' \in [Task -> Call]
    BY <2>1, AskType DEF Command
  <2> QED
    BY <1>1, <2>1, <2>2 DEF window_create, TypeInv, loop_vars, hades_vars
<1>2. CASE End(t)
  BY <1>2, StopType DEF End, TypeInv, window_vars, loop_vars, hades_vars
<1>3. ASSUME NEW w \in Window, window_framebuffer_create(t, w) PROVE TypeInv'
  BY <1>3 DEF window_framebuffer_create, TypeInv, task_vars, loop_vars, hades_vars
<1>4. ASSUME NEW w \in Window, window_change(t, w) PROVE TypeInv'
  <2>1. call' \in [Task -> Call]
    BY <1>4, AskType DEF window_change, Command
  <2> QED
    BY <1>4, <2>1 DEF window_change, TypeInv, window_vars, loop_vars, hades_vars
<1>5. ASSUME NEW w \in Window, window_destroy(t, w) PROVE TypeInv'
  <2>1. call' \in [Task -> Call]
    BY <1>5, AskType DEF window_destroy, Command
  <2> QED
    BY <1>5, <2>1 DEF window_destroy, TypeInv, loop_vars, hades_vars
<1>6. ASSUME NEW w \in Window, NEW block \in BOOLEAN, window_present(t, w, block) PROVE TypeInv'
  <2>1. call' \in [Task -> Call]
    <3>1. CASE w \in DoubleBuffered
      BY <1>6, <3>1, AskType DEF window_present, Command
    <3>2. CASE w \notin DoubleBuffered
      <4>1. call' = call \/ call' = [call EXCEPT ![t].at = "drawn", ![t].window = w]
        BY <1>6, <3>2 DEF window_present
      <4>2. call \in [Task -> Call]
        BY DEF TypeInv
      <4>3. [call EXCEPT ![t].at = "drawn", ![t].window = w] \in [Task -> Call]
        BY <4>2 DEF Call
      <4> QED
        BY <4>1, <4>2, <4>3
    <3> QED
      BY <3>1, <3>2
  <2> QED
    BY <1>6, <2>1 DEF window_present, TypeInv, loop_vars, hades_vars
<1>7. CASE Send(t)
  <2>1. call[t].window \in Window
    BY <1>7, WindowsAssumption DEF Send, CountInv, Counted, OwnersInv, TypeInv
  <2>2. [command |-> call[t].command, window |-> call[t].window, caller |-> t] \in Message
    BY <2>1 DEF TypeInv, Call, Message
  <2>3. compositor_queue' \in Seq(Message)
    BY <1>7, <2>2, PostIs DEF Send
  <2> QED
    BY <1>7, <2>3 DEF Send, TypeInv, Call, window_vars, loop_vars, hades_vars
<1>8. CASE CommandReturns(t)
  BY <1>8 DEF CommandReturns, TypeInv, Idle, Call, Command, loop_vars, hades_vars
<1>9. CASE PresentReturns(t)
  BY <1>9 DEF PresentReturns, TypeInv, Idle, Call, Command, window_vars, loop_vars, hades_vars
<1>10. CASE IdleReap(t)
  <2>1. hades_queue' \in Seq(Task)
    BY <1>10, HookType DEF IdleReap
  <2> QED
    BY <1>10, <2>1 DEF IdleReap, TypeInv, window_vars, loop_vars
<1> QED
  BY <1>1, <1>2, <1>3, <1>4, <1>5, <1>6, <1>7, <1>8, <1>9, <1>10 DEF Begins, Continues

LEMMA NextType == CountInv /\ [Next]_vars => TypeInv'
<1>1. CountInv /\ UNCHANGED vars => TypeInv'
  BY DEF CountInv, TypeInv, vars
<1> QED
  BY <1>1, CompositorType, HadesType, TaskType DEF Next

(* Steps that create no window and queue no command.  Windows may leave     *)
(* the ring or a task's resources, and commands the queue.                 *)
LEMMA CountFrame ==
  ASSUME CountInv, TypeInv',
         Injective(window_stack)', WindowCountIsExact', linked' \subseteq linked,
         used' = used, heap' \subseteq heap,
         Queued' \subseteq Queued, CreatedOnce',
         \A t \in Task : resources'[t] \subseteq resources[t],
         \A t \in Task : \/ call'[t].at = "run"
                         \/ /\ call'[t].window \in resources'[t]
                            /\ call'[t].at = "send" /\ call'[t].command = "create" => call'[t] = call[t],
         hades' = "send" => doomed' \in used
  PROVE  Counted'
<1>1. OwnersInv'
  BY DEF CountInv, Counted, TypeInv, OwnersInv
<1>2. RingInv'
  BY DEF CountInv, Counted, TypeInv, RingInv
<1> QED
  BY <1>1, <1>2 DEF Counted

(* A command that is queued, by its caller or by Hades. *)
LEMMA CountOfPost ==
  ASSUME CountInv, TypeInv', NEW m \in Message, Post(m), m.window \in used,
         UNCHANGED <<window_stack, linked, cur_num_windows, used, heap>>,
         resources' = resources,
         hades' = "send" => hades = "send" /\ doomed' = doomed,
         m.command = "create" => \E t \in Task : call[t].at = "send" /\ call[t].command = "create"
                                                /\ call[t].window = m.window /\ call'[t].at # "send",
         \A t \in Task : \/ call'[t] = call[t]
                         \/ call'[t].at # "send" /\ call'[t].window \in resources[t]
  PROVE  Counted'
<1> DEFINE k == Len(compositor_queue) + 1
<1>1. /\ Queued' = Queued \union {m}
      /\ DOMAIN compositor_queue' = DOMAIN compositor_queue \union {k}
      /\ compositor_queue'[k] = m
      /\ \A i \in DOMAIN compositor_queue : compositor_queue'[i] = compositor_queue[i]
  BY PostIs DEF CountInv
<1>2. OwnersInv'
  BY <1>1 DEF CountInv, Counted, TypeInv, OwnersInv
<1>3. ASSUME m.command = "create"
      PROVE  /\ m.window \notin linked
             /\ \A n \in Queued : n.command = "create" => n.window # m.window
             /\ \A t \in Task : call'[t].at = "send" /\ call'[t].command = "create"
                               => call'[t].window # m.window
  <2>1. PICK t \in Task : /\ call[t].at = "send" /\ call[t].command = "create"
                          /\ call[t].window = m.window /\ call'[t].at # "send"
    BY <1>3
  <2>2. ASSUME NEW u \in Task, call'[u].at = "send", call'[u].window = m.window PROVE FALSE
    <3>1. u # t /\ call'[u] = call[u]
      BY <2>1, <2>2
    <3>2. m.window \in resources[t] /\ m.window \in resources[u] /\ m.window \in Window
      BY <2>1, <2>2, <3>1 DEF CountInv, Counted, OwnersInv, Message
    <3> QED
      BY <3>1, <3>2 DEF CountInv, Counted, OwnersInv
  <2> QED
    BY <2>1, <2>2 DEF CountInv, Counted, RingInv
<1>4. CreatedOnce'
  <2>1. ASSUME NEW i \in DOMAIN compositor_queue
        PROVE  compositor_queue[i] \in Queued
    BY DEF Queued
  <2> HIDE DEF k
  <2> QED
    BY <1>1, <1>3, <2>1 DEF CountInv, Counted, RingInv, CreatedOnce
<1>5. Injective(window_stack)' /\ WindowCountIsExact'
  BY DEF CountInv, Counted, RingInv, Injective, WindowCountIsExact
<1>6. RingInv'
  <2>1. \A n \in Queued' : n.command = "create" => n.window \notin linked'
    BY <1>1, <1>3 DEF CountInv, Counted, RingInv
  <2>2. ASSUME NEW t \in Task, call'[t].at = "send", call'[t].command = "create"
        PROVE  /\ call'[t].window \notin linked'
               /\ \A n \in Queued' : n.command = "create" => n.window # call'[t].window
    <3>1. call'[t] = call[t]
      BY <2>2
    <3> QED
      BY <1>1, <1>3, <2>2, <3>1 DEF CountInv, Counted, RingInv
  <2> QED
    BY <1>4, <1>5, <2>1, <2>2 DEF RingInv
<1> QED
  BY <1>2, <1>6 DEF Counted

LEMMA CreatedOnceTail ==
  ASSUME CountInv, compositor_queue # <<>>, compositor_queue' = Tail(compositor_queue)
  PROVE  CreatedOnce'
<1>1. \A i \in DOMAIN compositor_queue' :
        /\ i \in Nat /\ i + 1 \in DOMAIN compositor_queue
        /\ compositor_queue'[i] = compositor_queue[i + 1]
  BY HeadIs DEF CountInv
<1>2. SUFFICES ASSUME NEW i \in DOMAIN compositor_queue', NEW j \in DOMAIN compositor_queue',
                      compositor_queue'[i].command = "create",
                      compositor_queue'[j].command = "create",
                      compositor_queue'[i].window = compositor_queue'[j].window
               PROVE  i = j
  BY DEF CreatedOnce
<1>3. i + 1 = j + 1
  BY <1>1, <1>2 DEF CountInv, Counted, RingInv, CreatedOnce
<1> QED
  BY <1>1, <1>3

LEMMA CreateCount ==
  ASSUME CountInv, TypeInv', NextCommand, Head(compositor_queue).command = "create"
  PROVE  Counted'
<1> DEFINE m == Head(compositor_queue)
<1>1. /\ m \in Message /\ m \in Queued /\ compositor_queue' = Tail(compositor_queue)
      /\ compositor_queue # <<>>
      /\ Injective(window_stack)' /\ WindowCountIsExact'
      /\ linked' = linked \union {m.window} /\ heap' = heap
  BY ExecuteIs
<1>2. /\ Queued' \subseteq Queued /\ m = compositor_queue[1] /\ 1 \in DOMAIN compositor_queue
      /\ \A i \in DOMAIN compositor_queue' :
           /\ i \in Nat /\ i + 1 \in DOMAIN compositor_queue /\ i + 1 # 1
           /\ compositor_queue'[i] = compositor_queue[i + 1]
  BY <1>1, HeadIs DEF CountInv
<1>3. UNCHANGED <<used, call, resources, hades, doomed>>
  BY DEF NextCommand, hades_vars
<1>4. m.command = "create"
  OBVIOUS
<1> HIDE DEF m
<1>5. CreatedOnce'
  BY <1>1, CreatedOnceTail
<1>6. \A n \in Queued' : n.command = "create" => n.window \notin linked'
  <2> SUFFICES ASSUME NEW i \in DOMAIN compositor_queue', compositor_queue'[i].command = "create"
               PROVE  compositor_queue'[i].window \notin linked'
    BY DEF Queued
  <2>1. /\ compositor_queue'[i] = compositor_queue[i + 1] /\ i + 1 # 1
        /\ i + 1 \in DOMAIN compositor_queue
    BY <1>2
  <2>2. compositor_queue[i + 1].window # m.window
    BY <1>2, <1>4, <2>1 DEF CountInv, Counted, RingInv, CreatedOnce
  <2>3. compositor_queue'[i] \in Queued
    BY <1>2 DEF Queued
  <2> QED
    BY <1>1, <2>1, <2>2, <2>3 DEF CountInv, Counted, RingInv
<1>7. RingInv'
  BY <1>1, <1>2, <1>3, <1>4, <1>5, <1>6 DEF CountInv, Counted, RingInv
<1>8. OwnersInv'
  BY <1>1, <1>2, <1>3 DEF CountInv, Counted, OwnersInv
<1> QED
  BY <1>7, <1>8 DEF Counted

LEMMA CompositorCount == CountInv /\ TypeInv' /\ Compositor => Counted'
<1> SUFFICES ASSUME CountInv, TypeInv', Compositor PROVE Counted'
  OBVIOUS
<1>1. /\ window_stack \in Seq(Window) /\ Injective(window_stack) /\ WindowCountIsExact
      /\ CreatedOnce
  BY DEF CountInv, Counted, TypeInv, RingInv
<1>2. \A t \in Task : \/ call[t].at = "run"
                      \/ call[t].window \in resources[t]
  BY DEF CountInv, Counted, OwnersInv
<1>3. hades = "send" => doomed \in used
  BY DEF CountInv, Counted, OwnersInv
<1>4. CASE NextCommand
  <2>1. CASE Head(compositor_queue).command = "create"
    BY <1>4, <2>1, CreateCount
  <2>2. CASE Head(compositor_queue).command # "create"
    <3>1. /\ compositor_queue # <<>> /\ compositor_queue' = Tail(compositor_queue)
          /\ Injective(window_stack)' /\ WindowCountIsExact'
          /\ linked' \subseteq linked /\ heap' \subseteq heap
      BY <1>4, <2>2, ExecuteIs
    <3>2. Queued' \subseteq Queued
      BY <3>1, HeadIs DEF CountInv
    <3>3. CreatedOnce'
      BY <3>1, CreatedOnceTail
    <3>4. UNCHANGED <<used, call, resources, hades, doomed>>
      BY <1>4 DEF NextCommand, hades_vars
    <3> QED
      BY <1>2, <1>3, <3>1, <3>2, <3>3, <3>4, CountFrame
  <2> QED
    BY <2>1, <2>2
<1>5. CASE CommandsDone \/ Hook \/ KeysDone \/ Look \/ Draw
  <2>1. UNCHANGED <<window_stack, linked, cur_num_windows, heap, compositor_queue, used,
                    call, resources, hades, doomed>>
    BY <1>5 DEF CommandsDone, Hook, KeysDone, Look, Draw, window_vars, task_vars, hades_vars
  <2>2. Injective(window_stack)' /\ WindowCountIsExact' /\ CreatedOnce' /\ Queued' = Queued
    BY <1>1, <2>1 DEF Injective, WindowCountIsExact, CreatedOnce, Queued
  <2> QED
    BY <1>2, <1>3, <2>1, <2>2, CountFrame
<1>6. CASE ALT_TAB
  <2>1. /\ window_stack # <<>> /\ window_stack' = Append(Tail(window_stack), Head(window_stack))
        /\ UNCHANGED <<linked, cur_num_windows, heap, compositor_queue, used, call, resources,
                       hades, doomed>>
    BY <1>6 DEF ALT_TAB, Key, task_vars, hades_vars
  <2>2. /\ Injective(window_stack') /\ Len(window_stack') = Len(window_stack)
        /\ ToSet(window_stack') = ToSet(window_stack)
    BY <1>1, <2>1, RotateRing
  <2>3. Injective(window_stack)' /\ WindowCountIsExact' /\ CreatedOnce' /\ Queued' = Queued
    BY <1>1, <2>1, <2>2 DEF Injective, WindowCountIsExact, CreatedOnce, Queued
  <2> QED
    BY <1>2, <1>3, <2>1, <2>3, CountFrame
<1>7. CASE FN_CROSS \/ DropOwnerless
  <2>1. PICK w : remove_window(w)
    BY <1>7 DEF FN_CROSS, DropOwnerless
  <2>2. UNCHANGED <<heap, compositor_queue, used, call, resources, hades, doomed>>
    BY <1>7 DEF FN_CROSS, DropOwnerless, task_vars, hades_vars
  <2>3. Injective(window_stack)' /\ WindowCountIsExact' /\ linked' \subseteq linked
    BY <1>1, <2>1, RemoveWindow
  <2>4. CreatedOnce' /\ Queued' = Queued
    BY <1>1, <2>2 DEF CreatedOnce, Queued
  <2> QED
    BY <1>2, <1>3, <2>2, <2>3, <2>4, CountFrame
<1>8. CASE Kill
  <2>1. UNCHANGED <<window_stack, linked, cur_num_windows, heap, compositor_queue, used,
                    resources, hades, doomed>>
    BY <1>8 DEF Kill, window_vars, hades_vars
  <2>2. \A t \in Task : call'[t] = call[t] \/ call'[t].at = "run"
    <3>1. CASE in_use \in alive
      <4>1. in_use \in Task /\ Stop(in_use)
        BY <1>8, <3>1 DEF Kill, CountInv, TypeInv
      <4> QED
        BY <4>1, StopType DEF CountInv, Idle
    <3>2. CASE in_use \notin alive
      BY <1>8, <3>2 DEF Kill
    <3> QED
      BY <3>1, <3>2
  <2>3. Injective(window_stack)' /\ WindowCountIsExact' /\ CreatedOnce' /\ Queued' = Queued
    BY <1>1, <2>1 DEF Injective, WindowCountIsExact, CreatedOnce, Queued
  <2> QED
    BY <1>2, <1>3, <2>1, <2>2, <2>3, CountFrame
<1>9. CASE FreesTwice
  <2>1. Init'
    BY <1>9, RebootIsInit DEF FreesTwice
  <2>2. Init' => CountInv'
    BY InitCount, PTL
  <2> QED
    BY <2>1, <2>2 DEF CountInv
<1> QED
  BY <1>4, <1>5, <1>6, <1>7, <1>8, <1>9 DEF Compositor

LEMMA HadesCount == CountInv /\ TypeInv' /\ Hades => Counted'
<1> SUFFICES ASSUME CountInv, TypeInv', Hades PROVE Counted'
  OBVIOUS
<1>1. /\ Injective(window_stack) /\ WindowCountIsExact /\ CreatedOnce
      /\ \A t \in Task : call[t].at = "run" \/ call[t].window \in resources[t]
  BY DEF CountInv, Counted, RingInv, OwnersInv
<1>2. CASE HadesReceive \/ HadesFrees
  <2>1. UNCHANGED <<window_stack, linked, cur_num_windows, heap, compositor_queue, used,
                    call, resources>> /\ hades' # "send"
    BY <1>2 DEF HadesReceive, HadesFrees, window_vars, task_vars
  <2>2. Injective(window_stack)' /\ WindowCountIsExact' /\ CreatedOnce' /\ Queued' = Queued
    BY <1>1, <2>1 DEF Injective, WindowCountIsExact, CreatedOnce, Queued
  <2> QED
    BY <1>1, <2>1, <2>2, CountFrame
<1>3. CASE HadesDestroy
  <2>1. PICK w \in resources[dead] :
          resources' = [resources EXCEPT ![dead] = @ \ {w}] /\ doomed' = w
    BY <1>3 DEF HadesDestroy
  <2>2. /\ UNCHANGED <<window_stack, linked, cur_num_windows, heap, compositor_queue, used, call>>
        /\ hades = "destroy"
    BY <1>3 DEF HadesDestroy
  <2>3. dead \in Task /\ call[dead].at = "run"
    BY <2>2 DEF CountInv, TypeInv, DeathInv
  <2>4. doomed' \in used
    BY <2>1, <2>3 DEF CountInv, Counted, OwnersInv
  <2>5. \A t \in Task : /\ resources'[t] \subseteq resources[t]
                        /\ t # dead => resources'[t] = resources[t]
    BY <2>1 DEF CountInv, TypeInv
  <2>6. Injective(window_stack)' /\ WindowCountIsExact' /\ CreatedOnce' /\ Queued' = Queued
    BY <1>1, <2>2 DEF Injective, WindowCountIsExact, CreatedOnce, Queued
  <2>7. \A t \in Task : \/ call'[t].at = "run"
                        \/ /\ call'[t].window \in resources'[t]
                           /\ call'[t].at = "send" /\ call'[t].command = "create" => call'[t] = call[t]
    BY <1>1, <2>2, <2>3, <2>5
  <2> QED
    BY <2>2, <2>4, <2>5, <2>6, <2>7, CountFrame
<1>4. CASE HadesSend
  <2> DEFINE m == [command |-> "destroy", window |-> doomed, caller |-> None]
  <2>1. /\ Post(m) /\ hades = "send" /\ hades' = "destroy"
        /\ UNCHANGED <<window_stack, linked, cur_num_windows, heap, used, call, resources>>
    BY <1>4 DEF HadesSend, window_vars, task_vars
  <2>2. m \in Message /\ m.window \in used /\ m.command # "create"
    BY <2>1 DEF CountInv, Counted, OwnersInv, TypeInv, Message, Command
  <2> HIDE DEF m
  <2>3. \A t \in Task : \/ call'[t] = call[t]
                        \/ call'[t].at # "send" /\ call'[t].window \in resources[t]
    BY <2>1
  <2>4. /\ hades' = "send" => hades = "send" /\ doomed' = doomed
        /\ m.command = "create" => \E t \in Task : call[t].at = "send" /\ call[t].command = "create"
                                                 /\ call[t].window = m.window /\ call'[t].at # "send"
    BY <2>1, <2>2
  <2> QED
    BY <2>1, <2>2, <2>3, <2>4, CountOfPost
<1> QED
  BY <1>2, <1>3, <1>4 DEF Hades

LEMMA CreateWindowCount ==
  ASSUME CountInv, TypeInv', NEW t \in Task, window_create(t)
  PROVE  Counted'
<1>1. PICK w \in Window \ used :
        /\ heap' = heap \union {w} /\ used' = used \union {w}
        /\ resources' = [resources EXCEPT ![t] = @ \union {w}]
        /\ Ask(t, "create", w)
  BY DEF window_create
<1>2. /\ \A u \in Task : resources'[u] = IF u = t THEN resources[t] \union {w} ELSE resources[u]
      /\ \A u \in Task : call'[u] = IF u = t THEN [at |-> "send", command |-> "create", window |-> w]
                                            ELSE call[u]
  BY <1>1, AskType DEF CountInv, TypeInv, Command
<1>3. UNCHANGED <<window_stack, linked, cur_num_windows, compositor_queue, hades, doomed>>
  BY DEF window_create, hades_vars
<1>4. /\ \A u \in Task : w \notin resources[u]
      /\ w \notin linked /\ \A m \in Queued : m.window # w
  BY <1>1 DEF CountInv, Counted, OwnersInv
<1>5. Queued' = Queued /\ CreatedOnce' /\ Injective(window_stack)' /\ WindowCountIsExact'
  BY <1>3 DEF CountInv, Counted, RingInv, Injective, WindowCountIsExact, CreatedOnce, Queued
<1>6. OwnersInv'
  <2>1. \A u, v \in Task, x \in Window : x \in resources'[u] /\ x \in resources'[v] => u = v
    BY <1>1, <1>2, <1>4 DEF CountInv, Counted, OwnersInv
  <2>2. \A u \in Task : call'[u].at # "run" => call'[u].window \in resources'[u]
    BY <1>2 DEF CountInv, Counted, OwnersInv
  <2> QED
    BY <1>1, <1>2, <1>3, <1>5, <2>1, <2>2 DEF CountInv, Counted, OwnersInv
<1>7. RingInv'
  BY <1>1, <1>2, <1>3, <1>4, <1>5 DEF CountInv, Counted, RingInv
<1> QED
  BY <1>6, <1>7 DEF Counted

LEMMA TaskCount ==
  ASSUME CountInv, TypeInv', NEW t \in Task, Begins(t) \/ Continues(t) \/ IdleReap(t)
  PROVE  Counted'
<1>1. /\ Injective(window_stack) /\ WindowCountIsExact /\ CreatedOnce
      /\ \A u \in Task : call[u].at = "run" \/ call[u].window \in resources[u]
      /\ hades = "send" => doomed \in used
  BY DEF CountInv, Counted, RingInv, OwnersInv
<1>2. CASE window_create(t)
  BY <1>2, CreateWindowCount
<1>3. CASE Send(t)
  <2> DEFINE m == [command |-> call[t].command, window |-> call[t].window, caller |-> t]
  <2>1. /\ Post(m) /\ call[t].at = "send" /\ call' = [call EXCEPT ![t].at = "answer"]
        /\ UNCHANGED <<window_stack, linked, cur_num_windows, heap, used, resources, hades, doomed>>
    BY <1>3 DEF Send, window_vars, hades_vars
  <2>2. call[t].window \in resources[t] /\ resources[t] \subseteq used /\ used \subseteq Window
    BY <2>1 DEF CountInv, Counted, OwnersInv, TypeInv
  <2>3. m \in Message /\ m.window \in used
    BY <2>2 DEF CountInv, TypeInv, Message, Call
  <2>4. /\ m.command = call[t].command /\ m.window = call[t].window
        /\ \A u \in Task : IF u = t THEN call'[u].at = "answer" /\ call'[u].window = call[t].window
                                    ELSE call'[u] = call[u]
    BY <2>1 DEF CountInv, TypeInv, Call
  <2> HIDE DEF m
  <2>5. m.command = "create" => \E u \in Task : call[u].at = "send" /\ call[u].command = "create"
                                             /\ call[u].window = m.window /\ call'[u].at # "send"
    BY <2>1, <2>4
  <2>6. \A u \in Task : \/ call'[u] = call[u]
                        \/ call'[u].at # "send" /\ call'[u].window \in resources[u]
    BY <2>2, <2>4
  <2>7. hades' = "send" => hades = "send" /\ doomed' = doomed
    BY <2>1
  <2> QED
    BY <2>1, <2>3, <2>5, <2>6, <2>7, CountOfPost
<1>4. CASE \E w \in Window : \/ window_framebuffer_create(t, w) \/ window_change(t, w)
                             \/ window_destroy(t, w)
                             \/ \E block \in BOOLEAN : window_present(t, w, block)
  <2>1. UNCHANGED <<window_stack, linked, cur_num_windows, heap, compositor_queue, used,
                    resources, hades, doomed>>
    BY <1>4 DEF window_framebuffer_create, window_change, window_destroy, window_present,
                window_vars, task_vars, hades_vars
  <2>2. \A u \in Task :
          \/ call'[u] = call[u]
          \/ /\ call'[u].window \in resources[u]
             /\ ~(call'[u].at = "send" /\ call'[u].command = "create")
    <3>1. PICK w \in Window : \/ window_framebuffer_create(t, w) \/ window_change(t, w)
                              \/ window_destroy(t, w)
                              \/ \E block \in BOOLEAN : window_present(t, w, block)
      BY <1>4
    <3>2. CASE window_framebuffer_create(t, w)
      BY <3>2 DEF window_framebuffer_create, task_vars
    <3>3. ASSUME NEW c \in Command \ {"create"}, Ask(t, c, w), w \in resources[t]
          PROVE  \A u \in Task : call'[u] = call[u] \/ /\ call'[u].window \in resources[u]
                                                       /\ call'[u].command # "create"
      <4>1. \A u \in Task : call'[u] = IF u = t THEN [at |-> "send", command |-> c, window |-> w]
                                             ELSE call[u]
        BY <3>3, AskType DEF CountInv
      <4> QED
        BY <3>3, <4>1
    <3>4. CASE window_change(t, w) \/ window_destroy(t, w)
      BY <3>3, <3>4 DEF window_change, window_destroy, Handles, Command
    <3>5. CASE \E block \in BOOLEAN : window_present(t, w, block)
      <4>1. PICK block \in BOOLEAN : window_present(t, w, block)
        BY <3>5
      <4>2. CASE w \in DoubleBuffered
        BY <3>3, <4>1, <4>2 DEF window_present, Handles, Command
      <4>3. CASE w \notin DoubleBuffered
        <5>1. /\ call' = call \/ call' = [call EXCEPT ![t].at = "drawn", ![t].window = w]
              /\ w \in resources[t]
          BY <4>1, <4>3 DEF window_present, Handles
        <5> QED
          BY <5>1 DEF CountInv, TypeInv, Call
      <4> QED
        BY <4>2, <4>3
    <3> QED
      BY <3>1, <3>2, <3>4, <3>5
  <2>3. Injective(window_stack)' /\ WindowCountIsExact' /\ CreatedOnce' /\ Queued' = Queued
    BY <1>1, <2>1 DEF Injective, WindowCountIsExact, CreatedOnce, Queued
  <2> QED
    BY <1>1, <2>1, <2>2, <2>3, CountFrame
<1>5. CASE End(t) \/ CommandReturns(t) \/ PresentReturns(t)
  <2>1. /\ UNCHANGED <<window_stack, linked, cur_num_windows, heap, compositor_queue, used,
                      hades, doomed>>
        /\ call' = [call EXCEPT ![t] = Idle]
        /\ \E gone : resources' = [resources EXCEPT ![t] = @ \ gone]
    <3>1. CASE End(t) \/ PresentReturns(t)
      <4>1. resources' = [resources EXCEPT ![t] = @ \ {}]
        BY <3>1 DEF End, PresentReturns, CountInv, TypeInv
      <4> QED
        BY <3>1, <4>1 DEF End, PresentReturns, Stop, window_vars, hades_vars
    <3>2. CASE CommandReturns(t)
      BY <3>2 DEF CommandReturns, hades_vars
    <3> QED
      BY <1>5, <3>1, <3>2
  <2>2. \A u \in Task : /\ resources'[u] \subseteq resources[u]
                        /\ IF u = t THEN call'[u].at = "run"
                                    ELSE call'[u] = call[u] /\ resources'[u] = resources[u]
    BY <2>1 DEF CountInv, TypeInv, Idle
  <2>3. Injective(window_stack)' /\ WindowCountIsExact' /\ CreatedOnce' /\ Queued' = Queued
    BY <1>1, <2>1 DEF Injective, WindowCountIsExact, CreatedOnce, Queued
  <2> QED
    BY <1>1, <2>1, <2>2, <2>3, CountFrame
<1>6. CASE IdleReap(t)
  <2>1. UNCHANGED <<window_stack, linked, cur_num_windows, heap, compositor_queue, used,
                    call, resources, hades, doomed>>
    BY <1>6 DEF IdleReap, window_vars
  <2>2. Injective(window_stack)' /\ WindowCountIsExact' /\ CreatedOnce' /\ Queued' = Queued
    BY <1>1, <2>1 DEF Injective, WindowCountIsExact, CreatedOnce, Queued
  <2> QED
    BY <1>1, <2>1, <2>2, CountFrame
<1> QED
  BY <1>2, <1>3, <1>4, <1>5, <1>6 DEF Begins, Continues

(* Who dies leaves his call, and nobody is born. *)
LEMMA NextDeath == CountInv /\ [Next]_vars => DeathInv'
<1> SUFFICES ASSUME CountInv, [Next]_vars PROVE DeathInv'
  OBVIOUS
<1>1. /\ TypeInv /\ DeathInv
  BY DEF CountInv
<1>2. ASSUME NEW t \in alive, Stop(t), UNCHANGED <<hades_queue, hades, dead>>,
             terminating' \subseteq terminating \union {t},
             compositor' = "hook" => in_use' = t \/ (compositor = "hook" /\ in_use' = in_use)
      PROVE  DeathInv'
  <2>1. /\ \A u \in Task : call'[u] = IF u = t THEN Idle ELSE call[u]
        /\ alive' = alive \ {t} /\ t \in Task
    BY <1>1, <1>2, StopType DEF TypeInv, Stop
  <2> QED
    BY <1>1, <1>2, <2>1 DEF DeathInv, Idle
<1>3. ASSUME NEW t \in Task \ alive, vTaskPreDeletionHook(t),
             UNCHANGED <<alive, call, hades, dead>>, terminating' \subseteq terminating,
             compositor' = "hook" => compositor = "hook" /\ in_use' = in_use
      PROVE  DeathInv'
  <2>1. /\ DOMAIN hades_queue' = DOMAIN hades_queue \union {Len(hades_queue) + 1}
        /\ hades_queue'[Len(hades_queue) + 1] = t
        /\ \A i \in DOMAIN hades_queue : hades_queue'[i] = hades_queue[i]
    BY <1>1, <1>3, HookType
  <2> QED
    BY <1>1, <1>3, <2>1 DEF DeathInv
<1>4. ASSUME UNCHANGED <<alive, terminating, hades_queue, dead>>, hades' # "receive" => hades # "receive",
             compositor' = "hook" => compositor = "hook" /\ in_use' = in_use,
             \A t \in Task : call'[t] = call[t] \/ call'[t].at = "run" \/ t \in alive
      PROVE  DeathInv'
  BY <1>1, <1>4 DEF DeathInv
<1>5. CASE Compositor
  <2>1. CASE Kill
    <3>1. CASE in_use \in alive
      BY <1>2, <2>1, <3>1 DEF Kill, hades_vars
    <3>2. CASE in_use \notin alive
      BY <1>4, <2>1, <3>2 DEF Kill, hades_vars
    <3> QED
      BY <3>1, <3>2
  <2>2. CASE Hook
    <3>1. in_use \in Task \ alive
      BY <1>1, <2>2 DEF Hook, DeathInv
    <3> QED
      BY <1>3, <2>2, <3>1 DEF Hook, task_vars
  <2>3. CASE FreesTwice
    <3>1. Init'
      BY <2>3, RebootIsInit DEF FreesTwice
    <3>2. Init' => CountInv'
      BY InitCount, PTL
    <3> QED
      BY <3>1, <3>2 DEF CountInv
  <2>4. CASE ~Kill /\ ~Hook /\ ~FreesTwice
    <3>1. /\ UNCHANGED <<alive, terminating, hades_queue, dead, hades, call>>
          /\ compositor' # "hook" \/ (compositor' = compositor /\ in_use' = in_use)
      BY <1>5, <2>4 DEF Compositor, NextCommand, CommandsDone, ALT_TAB, FN_CROSS, KeysDone,
        DropOwnerless, Look, Draw, task_vars, hades_vars
    <3> QED
      BY <1>4, <3>1
  <2> QED
    BY <2>1, <2>2, <2>3, <2>4
<1>6. CASE Hades
  <2>1. CASE HadesReceive
    <3>1. /\ hades_queue # <<>> /\ hades_queue \in Seq(Task)
          /\ dead' = Head(hades_queue) /\ hades_queue' = Tail(hades_queue)
          /\ UNCHANGED <<alive, terminating, call, compositor, in_use>>
      BY <1>1, <2>1 DEF HadesReceive, TypeInv, task_vars, loop_vars
    <3>2. /\ dead' = hades_queue[1] /\ 1 \in DOMAIN hades_queue
          /\ \A i \in DOMAIN hades_queue' : /\ i + 1 \in DOMAIN hades_queue
                                            /\ hades_queue'[i] = hades_queue[i + 1]
      BY <3>1, TailIs
    <3> QED
      BY <1>1, <3>1, <3>2 DEF DeathInv
  <2>2. CASE HadesDestroy \/ HadesSend
    BY <1>4, <2>2 DEF HadesDestroy, HadesSend, task_vars, loop_vars
  <2>3. CASE HadesFrees
    BY <1>1, <2>3 DEF HadesFrees, DeathInv, loop_vars
  <2> QED
    BY <1>6, <2>1, <2>2, <2>3 DEF Hades
<1>7. ASSUME NEW t \in Task, Begins(t) \/ Continues(t) \/ IdleReap(t) PROVE DeathInv'
  <2>1. CASE End(t)
    BY <1>2, <2>1 DEF End, Runs, hades_vars, loop_vars
  <2>2. CASE IdleReap(t)
    <3>1. t \in Task \ alive
      BY <1>1, <2>2 DEF IdleReap, DeathInv
    <3> QED
      BY <1>3, <2>2, <3>1 DEF IdleReap, loop_vars
  <2>3. CASE ~End(t) /\ ~IdleReap(t)
    <3>1. UNCHANGED <<alive, terminating, hades_queue, dead, hades, compositor, in_use>>
      BY <1>7, <2>3 DEF Begins, Continues, window_create, window_framebuffer_create, window_change,
        window_destroy, window_present, Send, CommandReturns, PresentReturns, task_vars, loop_vars, hades_vars
    <3>2. call' = call \/ (t \in alive /\ \E c : call' = [call EXCEPT ![t] = c])
      BY <1>7, <2>3 DEF Begins, Continues, window_create, window_framebuffer_create, window_change,
        window_destroy, window_present, Send, CommandReturns, PresentReturns, Runs, Ask, task_vars
    <3>3. \A u \in Task : call'[u] = call[u] \/ u \in alive
      BY <1>1, <3>2 DEF TypeInv
    <3> QED
      BY <1>4, <3>1, <3>3
  <2> QED
    BY <2>1, <2>2, <2>3
<1>8. CASE UNCHANGED vars
  BY <1>4, <1>8 DEF vars
<1> QED
  BY <1>5, <1>6, <1>7, <1>8 DEF Next

LEMMA NextCount == CountInv /\ [Next]_vars => CountInv'
<1> SUFFICES ASSUME CountInv, [Next]_vars PROVE CountInv'
  OBVIOUS
<1>1. TypeInv' /\ DeathInv'
  BY NextType, NextDeath
<1>2. CASE Next
  BY <1>1, <1>2, CompositorCount, HadesCount, TaskCount DEF Next, CountInv
<1>3. CASE UNCHANGED vars
  BY <1>1, <1>3 DEF vars, CountInv, Counted, OwnersInv, RingInv, WindowCountIsExact, Injective,
    CreatedOnce, Queued
<1> QED
  BY <1>2, <1>3

LEMMA Counting == Spec => []CountInv
<1> QED
  BY InitCount, NextCount, PTL DEF Spec

(* compositor_window_count() is the number of windows in the ring, for any  *)
(* number of tasks, windows and commands, and however early a window has   *)
(* left the ring.                                                          *)
THEOREM CountIsExact == Spec => []WindowCountIsExact
<1>1. CountInv => WindowCountIsExact
  BY DEF CountInv, Counted, RingInv
<1> QED
  BY <1>1, Counting, PTL

-----------------------------------------------------------------------------
(* What is queued. *)
LEMMA InitPosted == Init => Posted
BY DEF Init, Posted, AnswerInv, DestroyerInv, HeapInv, Queued, Idle

(* Steps of one task that queue nothing: it is not waiting for a command   *)
(* that is still queued, or it dies.                                       *)
LEMMA FrameOfTask ==
  ASSUME CountInv, Posted, NEW t \in Task,
         UNCHANGED <<compositor_queue, hades, doomed>>,
         heap \subseteq heap', alive' \subseteq alive,
         \A u \in Task : u # t => /\ call'[u] = call[u] /\ resources'[u] = resources[u]
                                  /\ <<u, 0>> \in notified' <=> <<u, 0>> \in notified,
         call[t].at = "answer" => <<t, 0>> \in notified \/ t \notin alive',
         <<t, 0>> \notin notified',
         call'[t].at = "send" /\ call'[t].command = "create" => call'[t].window \in heap',
         \A w \in resources'[t] : w \in resources[t] \/ w \notin used
  PROVE  Posted'
<1>1. TypeInv /\ OwnersInv /\ AnswerInv /\ DestroyerInv /\ HeapInv
  BY DEF CountInv, Counted, Posted
<1>2. \A i \in DOMAIN compositor_queue : compositor_queue[i].caller = t => t \notin alive'
  BY <1>1 DEF AnswerInv
<1>3. \A m \in Queued : m.window \in used
  BY <1>1 DEF OwnersInv
<1>4. AnswerInv'
  <2>1. ASSUME NEW u \in Task, <<u, 0>> \in notified' PROVE call'[u].at = "answer"
    BY <1>1, <2>1 DEF AnswerInv
  <2>2. ASSUME NEW i \in DOMAIN compositor_queue, compositor_queue[i].caller \in alive'
        PROVE  LET m == compositor_queue[i] IN
               /\ call'[m.caller].at = "answer" /\ <<m.caller, 0>> \notin notified'
               /\ call'[m.caller].command = m.command /\ call'[m.caller].window = m.window
               /\ \A j \in DOMAIN compositor_queue : compositor_queue[j].caller = m.caller => j = i
    <3> DEFINE m == compositor_queue[i]
    <3>1. m.caller # t /\ m.caller \in alive /\ m.caller \in Task
      BY <1>1, <1>2, <2>2 DEF TypeInv
    <3>2. /\ call[m.caller].at = "answer" /\ <<m.caller, 0>> \notin notified
          /\ call[m.caller].command = m.command /\ call[m.caller].window = m.window
          /\ \A j \in DOMAIN compositor_queue : compositor_queue[j].caller = m.caller => j = i
      BY <1>1, <3>1 DEF AnswerInv
    <3> QED
      BY <3>1, <3>2
  <2> QED
    BY <2>1, <2>2 DEF AnswerInv
<1>5. Queued' = Queued
  BY DEF Queued
<1>6. DestroyerInv'
  <2>1. ASSUME NEW m \in Queued, m.command = "destroy", NEW u \in Task, m.window \in resources'[u]
        PROVE  u = m.caller
    <3>1. m.window \in resources[u]
      BY <1>3, <2>1
    <3> QED
      BY <1>1, <2>1, <3>1 DEF DestroyerInv
  <2>2. hades = "send" => \A u \in Task : doomed \notin resources'[u]
    BY <1>1 DEF DestroyerInv, OwnersInv
  <2> QED
    BY <1>5, <2>1, <2>2 DEF DestroyerInv
<1>7. HeapInv'
  <2>1. \A u \in Task : call'[u].at = "send" /\ call'[u].command = "create" => call'[u].window \in heap'
    BY <1>1 DEF HeapInv
  <2>2. \A i \in DOMAIN compositor_queue : compositor_queue[i].command = "create" =>
          compositor_queue[i].window \in heap'
    BY <1>1 DEF HeapInv
  <2> QED
    BY <1>1, <2>1, <2>2 DEF HeapInv
<1> QED
  BY <1>4, <1>6, <1>7 DEF Posted

(* Steps that touch none of this. *)
LEMMA FrameOfPosted ==
  ASSUME Posted, UNCHANGED <<compositor_queue, heap, alive, resources, call>>,
         \A t \in Task : <<t, 0>> \in notified' <=> <<t, 0>> \in notified,
         alive \subseteq Task,
         hades' = "send" => hades = "send" /\ doomed' = doomed
  PROVE  Posted'
<1>1. AnswerInv /\ DestroyerInv /\ HeapInv /\ Queued' = Queued
  BY DEF Posted, Queued
<1>2. AnswerInv'
  BY <1>1 DEF AnswerInv
<1>3. DestroyerInv'
  BY <1>1 DEF DestroyerInv
<1>4. HeapInv'
  BY <1>1 DEF HeapInv
<1> QED
  BY <1>2, <1>3, <1>4 DEF Posted

LEMMA SendPosted ==
  ASSUME CountInv, Posted, NEW t \in Task, Send(t)
  PROVE  Posted'
<1> DEFINE k == Len(compositor_queue) + 1
<1>0. PICK m : m = [command |-> call[t].command, window |-> call[t].window, caller |-> t]
  OBVIOUS
<1>1. /\ t \in alive /\ call[t].at = "send" /\ Post(m)
      /\ call' = [call EXCEPT ![t].at = "answer"]
      /\ UNCHANGED <<heap, alive, resources, notified, hades, doomed>>
  BY <1>0 DEF Send, window_vars, hades_vars
<1>2. TypeInv /\ OwnersInv /\ AnswerInv /\ DestroyerInv /\ HeapInv
  BY DEF CountInv, Counted, Posted
<1>3. call[t].window \in resources[t] /\ call[t].window \in Window
  BY <1>1, <1>2 DEF OwnersInv, TypeInv
<1>4. m \in Message
  BY <1>0, <1>2, <1>3 DEF TypeInv, Call, Message
<1>5. m.caller = t /\ m.command = call[t].command /\ m.window = call[t].window
  BY <1>0
<1>6. /\ DOMAIN compositor_queue' = DOMAIN compositor_queue \union {k}
      /\ compositor_queue'[k] = m /\ Queued' = Queued \union {m}
      /\ \A i \in DOMAIN compositor_queue :
           compositor_queue'[i] = compositor_queue[i] /\ i \in Nat /\ i < k
  BY <1>1, <1>2, <1>4, PostIs
<1>k. k \in Nat
  BY <1>2 DEF TypeInv
<1> HIDE DEF k
<1>7. \A u \in Task : IF u = t THEN /\ call'[u].at = "answer" /\ call'[u].command = call[t].command
                                   /\ call'[u].window = call[t].window
                              ELSE call'[u] = call[u]
  BY <1>1, <1>2 DEF TypeInv, Call
<1>8. <<t, 0>> \notin notified /\ \A i \in DOMAIN compositor_queue : compositor_queue[i].caller # t
  BY <1>1, <1>2 DEF AnswerInv
<1>9. \A i \in DOMAIN compositor_queue : compositor_queue[i].command = "destroy" =>
        compositor_queue[i].window # m.window
  BY <1>2, <1>3, <1>5, <1>8 DEF DestroyerInv, Queued
<1>10. AnswerInv'
  <2>1. \A u \in Task : <<u, 0>> \in notified' => call'[u].at = "answer"
    BY <1>1, <1>2, <1>7 DEF AnswerInv
  <2>2. ASSUME NEW i \in DOMAIN compositor_queue', compositor_queue'[i].caller \in alive'
        PROVE  LET n == compositor_queue'[i] IN
               /\ call'[n.caller].at = "answer" /\ <<n.caller, 0>> \notin notified'
               /\ call'[n.caller].command = n.command /\ call'[n.caller].window = n.window
               /\ \A j \in DOMAIN compositor_queue' : compositor_queue'[j].caller = n.caller => j = i
    <3>1. CASE i = k
      BY <1>1, <1>5, <1>6, <1>7, <1>8, <3>1
    <3>2. CASE i # k
      <4>1. /\ compositor_queue'[i] = compositor_queue[i] /\ i \in DOMAIN compositor_queue
            /\ compositor_queue[i].caller # t
            /\ compositor_queue[i].caller \in alive /\ compositor_queue[i].caller \in Task
        BY <1>1, <1>2, <1>6, <1>8, <2>2, <3>2 DEF TypeInv
      <4>2. \A j \in DOMAIN compositor_queue' :
              compositor_queue'[j].caller = compositor_queue[i].caller => j = i
        BY <1>2, <1>5, <1>6, <4>1 DEF AnswerInv
      <4> QED
        BY <1>1, <1>2, <1>7, <4>1, <4>2 DEF AnswerInv
    <3> QED
      BY <3>1, <3>2
  <2> QED
    BY <2>1, <2>2 DEF AnswerInv
<1>11. DestroyerInv'
  <2>1. \A u \in Task : m.window \in resources[u] => u = m.caller
    BY <1>2, <1>3, <1>5 DEF OwnersInv
  <2> QED
    BY <1>1, <1>2, <1>6, <2>1 DEF DestroyerInv
<1>12. HeapInv'
  <2>1. \A u \in Task : call'[u].at = "send" => u # t /\ call'[u] = call[u]
    BY <1>7
  <2>2. m.command = "create" => m.window \in heap
    BY <1>1, <1>2, <1>5 DEF HeapInv
  <2>3. ASSUME NEW i \in DOMAIN compositor_queue', compositor_queue'[i].command = "create"
        PROVE  /\ compositor_queue'[i].window \in heap
               /\ \A j \in DOMAIN compositor_queue' :
                    j < i /\ compositor_queue'[j].command = "destroy" =>
                      compositor_queue'[j].window # compositor_queue'[i].window
    <3>1. CASE i = k
      BY <1>6, <1>k, <1>9, <2>2, <2>3, <3>1
    <3>2. CASE i # k
      <4>1. i \in DOMAIN compositor_queue /\ compositor_queue'[i] = compositor_queue[i]
        BY <1>6, <3>2
      <4>2. \A j \in DOMAIN compositor_queue' : j < i => j # k /\ j \in DOMAIN compositor_queue
        BY <1>6, <1>k, <4>1
      <4> QED
        BY <1>2, <1>6, <1>k, <2>3, <4>1, <4>2 DEF HeapInv
    <3> QED
      BY <3>1, <3>2
  <2> QED
    BY <1>1, <1>2, <2>1, <2>3 DEF HeapInv
<1> QED
  BY <1>10, <1>11, <1>12 DEF Posted

LEMMA HadesSendPosted ==
  ASSUME CountInv, Posted, HadesSend
  PROVE  Posted'
<1> DEFINE k == Len(compositor_queue) + 1
<1>0. PICK m : m = [command |-> "destroy", window |-> doomed, caller |-> None]
  OBVIOUS
<1>1. /\ Post(m) /\ hades = "send" /\ hades' = "destroy"
      /\ UNCHANGED <<heap, alive, resources, notified, call>>
  BY <1>0 DEF HadesSend, window_vars, task_vars
<1>2. TypeInv /\ AnswerInv /\ DestroyerInv /\ HeapInv
  BY DEF CountInv, Posted
<1>3. m \in Message /\ m.caller = None /\ m.command = "destroy" /\ m.window = doomed
  BY <1>0, <1>1, <1>2 DEF TypeInv, Message, Command
<1>4. /\ DOMAIN compositor_queue' = DOMAIN compositor_queue \union {k}
      /\ compositor_queue'[k] = m /\ Queued' = Queued \union {m}
      /\ \A i \in DOMAIN compositor_queue :
           compositor_queue'[i] = compositor_queue[i] /\ i \in Nat /\ i < k
  BY <1>1, <1>2, <1>3, PostIs
<1>k. k \in Nat
  BY <1>2 DEF TypeInv
<1> HIDE DEF k
<1>5. \A t \in Task : doomed \notin resources[t]
  BY <1>1, <1>2 DEF DestroyerInv
<1>6. None \notin alive
  BY <1>2, WindowsAssumption DEF TypeInv
<1>7. AnswerInv'
  <2>1. ASSUME NEW i \in DOMAIN compositor_queue', compositor_queue'[i].caller \in alive'
        PROVE  /\ i \in DOMAIN compositor_queue /\ compositor_queue'[i] = compositor_queue[i]
               /\ \A j \in DOMAIN compositor_queue' :
                    compositor_queue'[j].caller = compositor_queue[i].caller => j = i
    <3>1. i # k /\ i \in DOMAIN compositor_queue /\ compositor_queue'[i] = compositor_queue[i]
      BY <1>1, <1>3, <1>4, <1>6, <2>1
    <3> QED
      BY <1>1, <1>2, <1>3, <1>4, <1>6, <2>1, <3>1 DEF AnswerInv
  <2> QED
    BY <1>1, <1>2, <2>1 DEF AnswerInv
<1>8. DestroyerInv'
  BY <1>1, <1>2, <1>3, <1>4, <1>5 DEF DestroyerInv
<1>9. HeapInv'
  <2>1. ASSUME NEW i \in DOMAIN compositor_queue', compositor_queue'[i].command = "create"
        PROVE  /\ i \in DOMAIN compositor_queue /\ compositor_queue'[i] = compositor_queue[i]
               /\ \A j \in DOMAIN compositor_queue' : j < i => j # k /\ j \in DOMAIN compositor_queue
    <3>1. i # k /\ i \in DOMAIN compositor_queue /\ compositor_queue'[i] = compositor_queue[i]
      BY <1>3, <1>4, <2>1
    <3> QED
      BY <1>4, <1>k, <3>1
  <2> QED
    BY <1>1, <1>2, <1>4, <1>k, <2>1 DEF HeapInv
<1> QED
  BY <1>7, <1>8, <1>9 DEF Posted

LEMMA HadesDestroyPosted ==
  ASSUME CountInv, Posted, HadesDestroy
  PROVE  Posted'
<1>1. PICK w \in resources[dead] :
        resources' = [resources EXCEPT ![dead] = @ \ {w}] /\ doomed' = w
  BY DEF HadesDestroy
<1>2. /\ hades = "destroy" /\ hades' = "send"
      /\ UNCHANGED <<compositor_queue, heap, alive, notified, call>>
  BY DEF HadesDestroy
<1>3. TypeInv /\ OwnersInv /\ DestroyerInv
  BY DEF CountInv, Counted, Posted
<1>4. dead \in Task /\ w \in Window
  BY <1>1, <1>2, <1>3 DEF TypeInv
<1>5. \A t \in Task : resources'[t] = IF t = dead THEN resources[t] \ {w} ELSE resources[t]
  BY <1>1, <1>3 DEF TypeInv
<1>6. AnswerInv' /\ HeapInv' /\ Queued' = Queued
  BY <1>2 DEF Posted, AnswerInv, HeapInv, Queued
<1>7. \A t \in Task : w \notin resources'[t]
  BY <1>1, <1>3, <1>4, <1>5 DEF OwnersInv
<1>8. DestroyerInv'
  BY <1>1, <1>3, <1>5, <1>6, <1>7 DEF DestroyerInv
<1> QED
  BY <1>6, <1>8 DEF Posted

LEMMA NextCommandPosted ==
  ASSUME CountInv, Posted, NextCommand
  PROVE  Posted'
<1>0. PICK m : m = Head(compositor_queue)
  OBVIOUS
<1>1. /\ m \in Message /\ compositor_queue # <<>> /\ compositor_queue' = Tail(compositor_queue)
      /\ IF m.command = "destroy" THEN heap' = heap \ {m.window} ELSE heap' = heap
  BY <1>0, ExecuteIs
<1>2. /\ IF m.caller \in alive THEN notified' = notified \union {<<m.caller, 0>>}
                             ELSE notified' = notified
      /\ UNCHANGED <<alive, resources, call, hades, doomed>>
  BY <1>0 DEF NextCommand, Tell, hades_vars
<1>3. TypeInv /\ OwnersInv /\ DeathInv /\ AnswerInv /\ DestroyerInv /\ HeapInv
  BY DEF CountInv, Counted, Posted
<1>4. /\ m = compositor_queue[1] /\ 1 \in DOMAIN compositor_queue /\ m \in Queued
      /\ Queued' \subseteq Queued
      /\ \A i \in DOMAIN compositor_queue' :
           /\ i \in Nat /\ i + 1 \in DOMAIN compositor_queue /\ i + 1 # 1
           /\ compositor_queue'[i] = compositor_queue[i + 1]
  BY <1>0, <1>1, <1>3, HeadIs
<1>5. m.caller \in alive => /\ call[m.caller].at = "answer"
                            /\ call[m.caller].command = m.command
                            /\ call[m.caller].window = m.window
                            /\ \A j \in DOMAIN compositor_queue :
                                 compositor_queue[j].caller = m.caller => j = 1
  BY <1>3, <1>4 DEF AnswerInv
<1>6. AnswerInv'
  <2>1. \A u \in Task : <<u, 0>> \in notified' => call'[u].at = "answer"
    <3>1. \A u \in Task : <<u, 0>> \in notified' => \/ <<u, 0>> \in notified
                                                    \/ m.caller \in alive /\ u = m.caller
      BY <1>2
    <3> QED
      BY <1>2, <1>3, <1>5, <3>1 DEF AnswerInv
  <2>2. ASSUME NEW i \in DOMAIN compositor_queue', compositor_queue'[i].caller \in alive'
        PROVE  LET n == compositor_queue'[i] IN
               /\ call'[n.caller].at = "answer" /\ <<n.caller, 0>> \notin notified'
               /\ call'[n.caller].command = n.command /\ call'[n.caller].window = n.window
               /\ \A j \in DOMAIN compositor_queue' : compositor_queue'[j].caller = n.caller => j = i
    <3> DEFINE n == compositor_queue[i + 1]
    <3>1. /\ compositor_queue'[i] = n /\ n.caller \in alive
          /\ i + 1 \in DOMAIN compositor_queue /\ i + 1 # 1
      BY <1>2, <1>4, <2>2
    <3>2. /\ call[n.caller].at = "answer" /\ <<n.caller, 0>> \notin notified
          /\ call[n.caller].command = n.command /\ call[n.caller].window = n.window
          /\ \A j \in DOMAIN compositor_queue : compositor_queue[j].caller = n.caller => j = i + 1
      BY <1>3, <3>1 DEF AnswerInv
    <3>3. n.caller # m.caller
      BY <1>4, <3>1, <3>2
    <3>4. ASSUME NEW j \in DOMAIN compositor_queue', compositor_queue'[j].caller = n.caller
          PROVE  j = i
      <4>1. j + 1 = i + 1
        BY <1>4, <3>2, <3>4
      <4> QED
        BY <1>4, <4>1
    <3> QED
      BY <1>2, <3>1, <3>2, <3>3, <3>4
  <2> QED
    BY <2>1, <2>2 DEF AnswerInv
<1>7. DestroyerInv'
  BY <1>2, <1>3, <1>4 DEF DestroyerInv
<1>8. ASSUME NEW i \in DOMAIN compositor_queue', compositor_queue'[i].command = "create"
      PROVE  /\ compositor_queue'[i].window \in heap'
             /\ \A j \in DOMAIN compositor_queue' :
                  j < i /\ compositor_queue'[j].command = "destroy" =>
                    compositor_queue'[j].window # compositor_queue'[i].window
  <2>1. /\ i \in Nat /\ i + 1 \in DOMAIN compositor_queue /\ 1 < i + 1
        /\ compositor_queue'[i] = compositor_queue[i + 1]
    <3>1. i \in DOMAIN Tail(compositor_queue) /\ compositor_queue \in Seq(Message)
      BY <1>1, <1>3 DEF TypeInv
    <3>2. i >= 1
      BY <1>1, <3>1
    <3> QED
      BY <1>4, <3>2
  <2>2. /\ compositor_queue[i + 1].window \in heap
        /\ \A j \in DOMAIN compositor_queue :
             j < i + 1 /\ compositor_queue[j].command = "destroy" =>
               compositor_queue[j].window # compositor_queue[i + 1].window
    BY <1>3, <1>8, <2>1 DEF HeapInv
  <2>3. m.command = "destroy" => m.window # compositor_queue[i + 1].window
    BY <1>4, <2>1, <2>2
  <2>4. ASSUME NEW j \in DOMAIN compositor_queue', j < i,
               compositor_queue'[j].command = "destroy"
        PROVE  compositor_queue'[j].window # compositor_queue'[i].window
    <3>1. j + 1 < i + 1
      BY <1>4, <2>1, <2>4
    <3> QED
      BY <1>4, <2>1, <2>2, <2>4, <3>1
  <2> QED
    BY <1>1, <2>1, <2>2, <2>3, <2>4
<1>9. ASSUME NEW t \in Task, call'[t].at = "send", call'[t].command = "create"
      PROVE  call'[t].window \in heap'
  <2>1. call[t].window \in heap /\ call[t].window \in resources[t] /\ t \in alive
    BY <1>2, <1>3, <1>9 DEF HeapInv, OwnersInv, DeathInv
  <2>2. m.command = "destroy" => m.window # call[t].window
    <3>1. m.command = "destroy" /\ m.window = call[t].window => t = m.caller
      BY <1>3, <1>4, <2>1 DEF DestroyerInv
    <3> QED
      BY <1>2, <1>5, <1>9, <2>1, <3>1
  <2> QED
    BY <1>1, <1>2, <2>1, <2>2
<1>10. HeapInv'
  BY <1>8, <1>9 DEF HeapInv
<1> QED
  BY <1>6, <1>7, <1>10 DEF Posted

(* What one task does, but for Send(). *)
LEMMA TaskPosted ==
  ASSUME CountInv, Posted, NEW t \in Task,
         Begins(t) \/ CommandReturns(t) \/ PresentReturns(t) \/ IdleReap(t)
  PROVE  Posted'
<1>1. TypeInv /\ OwnersInv /\ AnswerInv /\ HeapInv /\ alive \subseteq Task
  BY DEF CountInv, Counted, Posted, TypeInv
<1>2. call[t].at # "answer" => <<t, 0>> \notin notified
  BY <1>1 DEF AnswerInv
<1>3. ASSUME call[t].at # "answer",
             UNCHANGED <<compositor_queue, hades, doomed, notified, heap, alive, resources>>,
             \E c : call' = [call EXCEPT ![t] = c],
             ~(call'[t].at = "send" /\ call'[t].command = "create")
      PROVE  Posted'
  <2>1. \A u \in Task : u # t => call'[u] = call[u]
    BY <1>1, <1>3 DEF TypeInv
  <2> QED
    BY <1>2, <1>3, <2>1, FrameOfTask
<1>4. CASE window_create(t)
  <2>1. PICK w \in Window \ used :
          /\ heap' = heap \union {w} /\ resources' = [resources EXCEPT ![t] = @ \union {w}]
          /\ Ask(t, "create", w)
    BY <1>4 DEF window_create
  <2>2. /\ call[t].at # "answer"
        /\ UNCHANGED <<compositor_queue, hades, doomed, notified, alive>>
    BY <1>4 DEF window_create, Runs, hades_vars
  <2>3. /\ \A u \in Task : u # t => call'[u] = call[u] /\ resources'[u] = resources[u]
        /\ call'[t].window = w /\ resources'[t] = resources[t] \union {w}
    <3>1. \A u \in Task : call'[u] = IF u = t THEN [at |-> "send", command |-> "create", window |-> w]
                                           ELSE call[u]
      BY <1>1, <2>1, AskType DEF Command
    <3> QED
      BY <1>1, <2>1, <3>1 DEF TypeInv
  <2> QED
    BY <1>2, <2>1, <2>2, <2>3, FrameOfTask
<1>5. CASE End(t)
  <2>1. /\ call[t].at = "run" /\ alive' = alive \ {t} /\ call' = [call EXCEPT ![t] = Idle]
        /\ notified' = notified \ ({t} \X {0, 1})
        /\ UNCHANGED <<compositor_queue, hades, doomed, heap, resources>>
    BY <1>5 DEF End, Stop, Runs, window_vars, hades_vars
  <2>2. /\ \A u \in Task : u # t => call'[u] = call[u]
        /\ call'[t].at = "run"
    BY <1>1, <2>1 DEF TypeInv, Idle
  <2>3. /\ <<t, 0>> \notin notified'
        /\ \A u \in Task : u # t => (<<u, 0>> \in notified' <=> <<u, 0>> \in notified)
    BY <2>1
  <2> QED
    BY <2>1, <2>2, <2>3, FrameOfTask
<1>6. ASSUME NEW w \in Window, window_framebuffer_create(t, w) PROVE Posted'
  BY <1>1, <1>6, FrameOfPosted DEF window_framebuffer_create, task_vars, hades_vars, Posted
<1>7. ASSUME NEW w \in Window, NEW c \in Command \ {"create"}, Ask(t, c, w), Runs(t),
             UNCHANGED <<compositor_queue, hades, doomed, notified, heap, alive, resources>>
      PROVE  Posted'
  BY <1>1, <1>3, <1>7 DEF Ask, Runs, TypeInv
<1>8. ASSUME NEW w \in Window, window_change(t, w) \/ window_destroy(t, w) PROVE Posted'
  BY <1>7, <1>8 DEF window_change, window_destroy, Command, window_vars, hades_vars
<1>9. ASSUME NEW w \in Window, NEW block \in BOOLEAN, window_present(t, w, block) PROVE Posted'
  <2>1. /\ Runs(t)
        /\ UNCHANGED <<compositor_queue, hades, doomed, notified, heap, alive, resources>>
    BY <1>9 DEF window_present, hades_vars
  <2>2. CASE w \in DoubleBuffered
    BY <1>7, <1>9, <2>1, <2>2 DEF window_present, Command
  <2>3. CASE w \notin DoubleBuffered /\ block
    <3>1. call' = [call EXCEPT ![t].at = "drawn", ![t].window = w] /\ call[t].at = "run"
      BY <1>9, <2>1, <2>3 DEF window_present, Runs
    <3>2. (\E c : call' = [call EXCEPT ![t] = c]) /\ call'[t].at = "drawn"
      BY <1>1, <3>1 DEF TypeInv, Call
    <3> QED
      BY <1>3, <2>1, <3>1, <3>2
  <2>4. CASE w \notin DoubleBuffered /\ ~block
    BY <1>1, <1>9, <2>1, <2>4, FrameOfPosted DEF window_present
  <2> QED
    BY <2>2, <2>3, <2>4
<1>10. CASE CommandReturns(t)
  <2>1. /\ call[t].at = "answer" /\ <<t, 0>> \in notified
        /\ notified' = notified \ {<<t, 0>>} /\ call' = [call EXCEPT ![t] = Idle]
        /\ resources' = [resources EXCEPT ![t] = @ \ Forgets(t)]
        /\ UNCHANGED <<compositor_queue, hades, doomed, heap, alive>>
    BY <1>10 DEF CommandReturns, hades_vars
  <2>2. /\ \A u \in Task : u # t => call'[u] = call[u] /\ resources'[u] = resources[u]
        /\ call'[t].at = "run" /\ resources'[t] = resources[t] \ Forgets(t)
    BY <1>1, <2>1 DEF TypeInv, Idle
  <2>3. /\ <<t, 0>> \notin notified'
        /\ \A u \in Task : u # t => (<<u, 0>> \in notified' <=> <<u, 0>> \in notified)
    BY <2>1
  <2> QED
    BY <2>1, <2>2, <2>3, FrameOfTask
<1>11. CASE PresentReturns(t)
  <2>1. /\ call[t].at = "drawn"
        /\ notified' = notified \ {<<t, 1>>} /\ call' = [call EXCEPT ![t] = Idle]
        /\ UNCHANGED <<compositor_queue, hades, doomed, heap, alive, resources>>
    BY <1>11 DEF PresentReturns, window_vars, hades_vars
  <2>2. /\ \A u \in Task : u # t => call'[u] = call[u]
        /\ call'[t].at = "run"
    BY <1>1, <2>1 DEF TypeInv, Idle
  <2>3. \A u \in Task : <<u, 0>> \in notified' <=> <<u, 0>> \in notified
    BY <2>1
  <2> QED
    BY <1>2, <2>1, <2>2, <2>3, FrameOfTask
<1>12. CASE IdleReap(t)
  BY <1>1, <1>12, FrameOfPosted DEF IdleReap, window_vars
<1> QED
  BY <1>4, <1>5, <1>6, <1>8, <1>9, <1>10, <1>11, <1>12 DEF Begins

LEMMA KillPosted ==
  ASSUME CountInv, Posted, Kill
  PROVE  Posted'
<1>1. TypeInv /\ alive \subseteq Task
  BY DEF CountInv, TypeInv
<1>2. CASE in_use \notin alive
  BY <1>1, <1>2, FrameOfPosted DEF Kill, window_vars, hades_vars
<1>3. CASE in_use \in alive
  <2>1. PICK t \in Task : t = in_use
    BY <1>1, <1>3
  <2>2. /\ alive' = alive \ {t} /\ call' = [call EXCEPT ![t] = Idle]
        /\ notified' = notified \ ({t} \X {0, 1})
        /\ UNCHANGED <<compositor_queue, hades, doomed, heap, resources>>
    BY <1>3, <2>1 DEF Kill, Stop, window_vars, hades_vars
  <2>3. /\ \A u \in Task : u # t => call'[u] = call[u]
        /\ call'[t].at = "run"
    BY <1>1, <2>2 DEF TypeInv, Idle
  <2>4. /\ <<t, 0>> \notin notified'
        /\ \A u \in Task : u # t => (<<u, 0>> \in notified' <=> <<u, 0>> \in notified)
    BY <2>2
  <2>5. alive' \subseteq alive /\ t \notin alive'
    BY <2>2
  <2> QED
    BY <2>2, <2>3, <2>4, <2>5, FrameOfTask
<1> QED
  BY <1>2, <1>3

LEMMA NextPosted ==
  ASSUME CountInv, Posted, [Next]_vars
  PROVE  Posted'
<1>1. Posted /\ alive \subseteq Task
  BY DEF CountInv, TypeInv
<1>2. CASE Compositor
  <2>1. CASE NextCommand
    BY <1>1, <2>1, NextCommandPosted
  <2>2. CASE Kill
    BY <2>2, KillPosted
  <2>3. CASE Draw
    <3>1. /\ UNCHANGED <<compositor_queue, heap, alive, resources, call, hades, doomed>>
          /\ \E x : notified' = notified \/ notified' = notified \union {<<x, 1>>}
      BY <2>3 DEF Draw, hades_vars
    <3>2. \A t \in Task : <<t, 0>> \in notified' <=> <<t, 0>> \in notified
      BY <3>1
    <3> QED
      BY <1>1, <3>1, <3>2, FrameOfPosted
  <2>4. CASE CommandsDone \/ ALT_TAB \/ FN_CROSS \/ Hook \/ KeysDone \/ DropOwnerless \/ Look
    BY <1>1, <2>4, FrameOfPosted DEF CommandsDone, ALT_TAB, FN_CROSS, Hook, KeysDone, DropOwnerless, Look,
      window_vars, task_vars, hades_vars
  <2>5. CASE FreesTwice
    <3>1. Init'
      BY <2>5, RebootIsInit DEF FreesTwice
    <3>2. Init' => Posted'
      BY InitPosted, PTL
    <3> QED
      BY <3>1, <3>2
  <2> QED
    BY <1>2, <2>1, <2>2, <2>3, <2>4, <2>5 DEF Compositor
<1>3. CASE Hades
  <2>1. CASE HadesReceive \/ HadesFrees
    BY <1>1, <2>1, FrameOfPosted DEF HadesReceive, HadesFrees, window_vars, task_vars
  <2> QED
    BY <1>1, <1>3, <2>1, HadesDestroyPosted, HadesSendPosted DEF Hades
<1>4. ASSUME NEW t \in Task, Begins(t) \/ Continues(t) \/ IdleReap(t) PROVE Posted'
  BY <1>1, <1>4, SendPosted, TaskPosted DEF Continues
<1>5. CASE UNCHANGED vars
  BY <1>1, <1>5, FrameOfPosted DEF vars
<1> QED
  BY <1>2, <1>3, <1>4, <1>5 DEF Next

-----------------------------------------------------------------------------
(* What is on screen. *)
LEMMA InitFrame == Init => FrameInv /\ ShownInv
BY DEF Init, FrameInv, ShownInv, ShownTo, ToSet

LEMMA NextFrame ==
  ASSUME CountInv, Posted, FrameInv, CountInv', [Next]_vars
  PROVE  FrameInv'
<1>1. /\ window_stack \in Seq(Window) /\ Injective(window_stack) /\ WindowCountIsExact
      /\ HeapInv /\ TypeInv
  BY DEF CountInv, Counted, TypeInv, RingInv, Posted
<1>2. ASSUME UNCHANGED <<remaining, compositor>>, linked' \subseteq linked, heap \subseteq heap'
      PROVE  FrameInv'
  BY <1>2 DEF FrameInv
<1>3. ASSUME compositor' \notin {"look", "draw"}, remaining' = <<>>, linked' \subseteq heap'
      PROVE  FrameInv'
  BY <1>3 DEF FrameInv, ToSet
<1>4. CASE NextCommand
  <2>1. PICK m : m = Head(compositor_queue)
    OBVIOUS
  <2>2. /\ m.command = "create" => linked' = linked \union {m.window} /\ heap' = heap
        /\ m.command = "destroy" => linked' = linked \ {m.window} /\ heap' = heap \ {m.window}
        /\ m.command \notin {"create", "destroy"} => linked' = linked /\ heap' = heap
        /\ compositor_queue # <<>> /\ compositor_queue' = Tail(compositor_queue)
    BY <1>4, <2>1, ExecuteIs
  <2>3. m.command = "create" => m.window \in heap
    <3>1. m = compositor_queue[1] /\ 1 \in DOMAIN compositor_queue
      BY <1>1, <2>1, <2>2, HeadIs
    <3> QED
      BY <1>1, <3>1 DEF HeapInv
  <2>4. linked' \subseteq heap'
    BY <2>2, <2>3 DEF FrameInv
  <2>5. compositor' \notin {"look", "draw"} /\ remaining' = <<>>
    BY <1>4 DEF NextCommand, FrameInv
  <2> QED
    BY <1>3, <2>4, <2>5
<1>5. CASE CommandsDone \/ ALT_TAB \/ Kill \/ Hook
  BY <1>2, <1>3, <1>5 DEF CommandsDone, ALT_TAB, Key, Kill, Hook, FrameInv, window_vars
<1>6. CASE FN_CROSS \/ DropOwnerless
  <2>1. PICK w : remove_window(w)
    BY <1>6 DEF FN_CROSS, DropOwnerless
  <2>2. linked' \subseteq linked
    BY <1>1, <2>1, RemoveWindow
  <2> QED
    BY <1>3, <1>6, <2>2 DEF FN_CROSS, DropOwnerless, Key, FrameInv
<1>7. CASE KeysDone
  <2>1. /\ remaining' = Reverse(window_stack) /\ UNCHANGED <<linked, heap>>
        /\ compositor' = IF window_stack = <<>> THEN "commands" ELSE "look"
    BY <1>7 DEF KeysDone, window_vars
  <2>2. /\ remaining' \in Seq(Window) /\ ToSet(remaining') = linked
        /\ window_stack = <<>> <=> remaining' = <<>>
    BY <1>1, <2>1, ReverseRing DEF WindowCountIsExact
  <2>3. ToSet(remaining)' = ToSet(remaining')
    BY DEF ToSet
  <2> QED
    BY <2>1, <2>2, <2>3 DEF FrameInv
<1>8. CASE Look
  BY <1>8 DEF Look, FrameInv, ToSet, window_vars
<1>9. CASE Draw
  <2>1. UNCHANGED <<linked, heap>> /\ remaining # <<>> /\ remaining \in Seq(Window)
    BY <1>9 DEF Draw, FrameInv
  <2>2. CASE Len(remaining) > 1
    <3>1. compositor' = "look" /\ remaining' = Tail(remaining)
      BY <1>9, <2>2 DEF Draw
    <3>2. /\ remaining' \in Seq(Window) /\ remaining' # <<>>
          /\ \A i \in DOMAIN remaining' : /\ i + 1 \in DOMAIN remaining
                                          /\ remaining'[i] = remaining[i + 1]
      <4>1. /\ remaining' \in Seq(Window) /\ Len(remaining') = Len(remaining) - 1
            /\ \A i \in DOMAIN remaining' : /\ i + 1 \in DOMAIN remaining
                                            /\ remaining'[i] = remaining[i + 1]
        BY <2>1, <3>1, TailIs
      <4>2. Len(remaining') # 0
        BY <2>1, <2>2, <4>1
      <4> QED
        BY <4>1, <4>2
    <3>3. \A i \in DOMAIN remaining : remaining[i] \in heap
      BY DEF FrameInv, ToSet
    <3>4. ToSet(remaining)' \subseteq heap'
      BY <2>1, <3>2, <3>3 DEF ToSet
    <3> QED
      BY <2>1, <3>1, <3>2, <3>4 DEF FrameInv
  <2>3. CASE ~(Len(remaining) > 1)
    BY <1>3, <1>9, <2>1, <2>3 DEF Draw, FrameInv
  <2> QED
    BY <2>2, <2>3
<1>10. CASE Hades
  BY <1>2, <1>10 DEF Hades, HadesReceive, HadesDestroy, HadesSend, HadesFrees, window_vars, loop_vars
<1>11. ASSUME NEW t \in Task, Begins(t) \/ Continues(t) \/ IdleReap(t) PROVE FrameInv'
  BY <1>2, <1>11 DEF Begins, Continues, End, IdleReap, window_create, window_framebuffer_create, window_change,
    window_destroy, window_present, Send, CommandReturns, PresentReturns, window_vars, loop_vars
<1>12. CASE UNCHANGED vars
  BY <1>2, <1>12 DEF vars
<1>13. CASE FreesTwice
  <2>1. Init'
    BY <1>13, RebootIsInit DEF FreesTwice
  <2>2. Init' => FrameInv'
    BY InitFrame, PTL
  <2> QED
    BY <2>1, <2>2
<1> QED
  BY <1>4, <1>5, <1>6, <1>7, <1>8, <1>9, <1>10, <1>11, <1>12, <1>13 DEF Next, Compositor

(* The step is none of t's, and takes none of its windows away. *)
LEMMA ShownFrame ==
  ASSUME NEW t, ShownTo(t), resources'[t] \subseteq resources[t], call'[t] = call[t],
         <<t, 0>> \in notified' => <<t, 0>> \in notified,
         \A w \in resources[t] : task_info'[w] = task_info[w],
         Closing(t) => Closing(t)',
         \A w \in resources[t] : w \in linked => w \in linked' \/ Closing(t)' \/ InCall(t, "destroy", w)
  PROVE  ShownTo(t)'
BY DEF ShownTo, Owns, Sees, InCall

LEMMA NextCommandShown ==
  ASSUME CountInv, Posted, ShownInv, NextCommand, NEW t \in alive
  PROVE  ShownTo(t)'
<1>1. PICK m : m = Head(compositor_queue)
  OBVIOUS
<1>2. /\ m.command = "create" => linked' = linked \union {m.window}
      /\ m.command = "destroy" => linked' = linked \ {m.window}
      /\ m.command \notin {"create", "destroy"} => linked' = linked
      /\ compositor_queue # <<>> /\ compositor_queue' = Tail(compositor_queue)
  BY <1>1, ExecuteIs
<1>3. /\ IF m.caller \in alive THEN notified' = notified \union {<<m.caller, 0>>}
                              ELSE notified' = notified
      /\ compositor = "commands" /\ UNCHANGED <<resources, call, task_info>>
  BY <1>1 DEF NextCommand, Tell
<1>4. TypeInv /\ OwnersInv /\ AnswerInv /\ DestroyerInv
  BY DEF CountInv, Counted, Posted
<1>5. m = compositor_queue[1] /\ 1 \in DOMAIN compositor_queue /\ m \in Queued
  BY <1>1, <1>2, <1>4, HeadIs
<1>6. m.caller \in alive => /\ call[m.caller].at = "answer"
                            /\ call[m.caller].command = m.command
                            /\ call[m.caller].window = m.window
  BY <1>4, <1>5 DEF AnswerInv
<1>7. ShownTo(t) /\ t \in Task /\ ~Closing(t)
  BY <1>3, <1>4 DEF ShownInv, TypeInv, Closing
<1>8. ASSUME NEW w \in resources[t] PROVE Owns(t, w)' /\ Sees(t, w)'
  <2>1. Owns(t, w)'
    BY <1>3, <1>7 DEF ShownTo, Owns, InCall
  <2>2. CASE InCall(t, "destroy", w)
    BY <1>3, <2>1, <2>2 DEF Sees, InCall
  <2>3. CASE ~InCall(t, "destroy", w) /\ w \in linked
    <3>1. CASE m.command = "destroy" /\ m.window = w
      <4>1. m.caller = t
        BY <1>4, <1>5, <1>7, <1>8, <3>1 DEF DestroyerInv
      <4> QED
        BY <1>6, <2>3, <3>1, <4>1 DEF InCall
    <3>2. CASE ~(m.command = "destroy" /\ m.window = w)
      BY <1>2, <2>1, <2>3, <3>2 DEF Sees
    <3> QED
      BY <3>1, <3>2
  <2>4. CASE InCall(t, "create", w) /\ <<t, 0>> \notin notified
    <3>1. CASE m.caller = t
      BY <1>2, <1>6, <2>1, <2>4, <3>1 DEF InCall, Sees
    <3>2. CASE m.caller # t
      BY <1>3, <2>1, <2>4, <3>2 DEF InCall, Sees
    <3> QED
      BY <3>1, <3>2
  <2> QED
    BY <1>7, <1>8, <2>2, <2>3, <2>4 DEF ShownTo, Sees
<1> QED
  BY <1>3, <1>8 DEF ShownTo

LEMMA CompositorShown ==
  ASSUME CountInv, Posted, ShownInv, Compositor, ~FreesTwice, NEW t \in alive'
  PROVE  ShownTo(t)'
<1>1. /\ TypeInv /\ window_stack \in Seq(Window) /\ Injective(window_stack) /\ WindowCountIsExact
  BY DEF CountInv, Counted, TypeInv, RingInv
<1>2. t \in alive /\ t \in Task /\ ShownTo(t)
  BY <1>1 DEF Compositor, NextCommand, CommandsDone, ALT_TAB, FN_CROSS, Kill, Stop, Hook, KeysDone,
    DropOwnerless, Look, Draw, task_vars, TypeInv, ShownInv
<1>3. CASE NextCommand
  BY <1>2, <1>3, NextCommandShown
<1>4. CASE CommandsDone \/ ALT_TAB \/ Hook \/ KeysDone \/ Look
  BY <1>2, <1>4, ShownFrame DEF CommandsDone, ALT_TAB, Hook, Key, KeysDone, Look, Closing, window_vars, task_vars
<1>5. CASE Draw
  <2>1. <<t, 0>> \in notified' => <<t, 0>> \in notified
    BY <1>5 DEF Draw
  <2> QED
    BY <1>2, <1>5, <2>1, ShownFrame DEF Draw, Closing
<1>6. CASE Kill
  <2>1. /\ ~Closing(t) /\ UNCHANGED <<resources, linked, task_info>>
    <3>1. in_use # t
      BY <1>2, <1>6 DEF Kill, Stop
    <3> QED
      BY <1>6, <3>1 DEF Kill, Closing, window_vars
  <2>2. call'[t] = call[t] /\ (<<t, 0>> \in notified' => <<t, 0>> \in notified)
    <3>1. CASE in_use \in alive
      <4>1. /\ t # in_use /\ call' = [call EXCEPT ![in_use] = Idle]
            /\ notified' = notified \ ({in_use} \X {0, 1})
        BY <1>6, <3>1 DEF Kill, Stop
      <4> QED
        BY <1>1, <1>2, <4>1 DEF TypeInv
    <3>2. CASE in_use \notin alive
      BY <1>6, <3>2 DEF Kill
    <3> QED
      BY <3>1, <3>2
  <2> QED
    BY <1>2, <2>1, <2>2, ShownFrame
<1>7. CASE FN_CROSS \/ DropOwnerless
  <2>1. PICK w : /\ remove_window(w) /\ \/ task_info[w] = None
                                        \/ compositor' = "kill" /\ in_use' = task_info[w]
    BY <1>7 DEF FN_CROSS, DropOwnerless
  <2>2. linked' = linked \ {w}
    BY <1>1, <2>1, RemoveWindow
  <2>3. /\ UNCHANGED <<resources, call, notified, task_info>> /\ ~Closing(t)
    BY <1>7 DEF FN_CROSS, Key, DropOwnerless, Closing, task_vars
  <2>4. ASSUME NEW x \in resources[t], x \in linked
        PROVE  x \in linked' \/ Closing(t)' \/ InCall(t, "destroy", x)
    <3>1. CASE x = w
      <4>1. t # None
        BY <1>2, WindowsAssumption
      <4>2. \/ task_info[x] = t
            \/ InCall(t, "destroy", x)
        BY <1>2, <2>4 DEF ShownTo, Owns
      <4> QED
        BY <2>1, <3>1, <4>1, <4>2 DEF Closing
    <3>2. CASE x # w
      BY <2>2, <2>4, <3>2
    <3> QED
      BY <3>1, <3>2
  <2> QED
    BY <1>2, <2>3, <2>4, ShownFrame
<1> QED
  BY <1>3, <1>4, <1>5, <1>6, <1>7 DEF Compositor

LEMMA HadesShown ==
  ASSUME CountInv, ShownInv, Hades, NEW t \in alive'
  PROVE  ShownTo(t)'
<1>1. TypeInv /\ OwnersInv /\ DeathInv /\ task_info \in [Window -> Task \union {None}]
  BY DEF CountInv, Counted, ShownInv
<1>2. t \in alive /\ t \in Task /\ ShownTo(t)
  BY <1>1 DEF Hades, HadesReceive, HadesDestroy, HadesSend, HadesFrees, task_vars, TypeInv, ShownInv
<1>3. UNCHANGED <<call, notified, linked, compositor, in_use>>
  BY DEF Hades, HadesReceive, HadesDestroy, HadesSend, HadesFrees, window_vars, task_vars, loop_vars
<1>4. CASE HadesReceive \/ HadesSend \/ HadesFrees
  BY <1>2, <1>3, <1>4, ShownFrame DEF HadesReceive, HadesSend, HadesFrees, window_vars, task_vars, Closing
<1>5. CASE HadesDestroy
  <2>1. PICK w \in resources[dead] :
          /\ task_info' = [task_info EXCEPT ![w] = None]
          /\ resources' = [resources EXCEPT ![dead] = @ \ {w}]
    BY <1>5 DEF HadesDestroy
  <2>2. dead \in Task /\ dead # t /\ w \in Window
    BY <1>1, <1>2, <1>5, <2>1 DEF HadesDestroy, TypeInv, DeathInv
  <2>3. resources'[t] = resources[t] /\ w \notin resources[t]
    BY <1>1, <1>2, <2>1, <2>2 DEF TypeInv, OwnersInv
  <2>4. \A x \in resources[t] : task_info'[x] = task_info[x]
    BY <1>1, <1>2, <2>1, <2>3 DEF TypeInv
  <2> QED
    BY <1>2, <1>3, <2>3, <2>4, ShownFrame DEF Closing
<1> QED
  BY <1>4, <1>5 DEF Hades

(* What one task does, to another task. *)
LEMMA OthersShown ==
  ASSUME CountInv, ShownInv, NEW u \in Task, Begins(u) \/ Continues(u) \/ IdleReap(u),
         NEW t \in alive', t # u
  PROVE  ShownTo(t)'
<1>1. TypeInv /\ OwnersInv /\ task_info \in [Window -> Task \union {None}]
  BY DEF CountInv, Counted, ShownInv
<1>2. UNCHANGED <<linked, compositor, in_use>> /\ alive' \subseteq alive
  BY DEF Begins, Continues, End, IdleReap, Stop, window_create, window_framebuffer_create, window_change,
    window_destroy, window_present, Send, CommandReturns, PresentReturns, window_vars, task_vars, loop_vars
<1>3. t \in alive /\ t \in Task /\ ShownTo(t)
  BY <1>1, <1>2 DEF TypeInv, ShownInv
<1>4. call'[t] = call[t]
  BY <1>1, <1>3 DEF Begins, Continues, End, IdleReap, Stop, window_create, window_framebuffer_create, window_change,
    window_destroy, window_present, Send, CommandReturns, PresentReturns, Ask, task_vars, TypeInv
<1>5. <<t, 0>> \in notified' => <<t, 0>> \in notified
  BY DEF Begins, Continues, End, IdleReap, Stop, window_create, window_framebuffer_create, window_change,
    window_destroy, window_present, Send, CommandReturns, PresentReturns, task_vars
<1>6. resources'[t] = resources[t]
  BY <1>1, <1>3 DEF Begins, Continues, End, IdleReap, window_create, window_framebuffer_create, window_change,
    window_destroy, window_present, Send, CommandReturns, PresentReturns, task_vars, TypeInv
<1>7. ASSUME NEW x \in resources[t] PROVE task_info'[x] = task_info[x]
  <2>1. x \in Window /\ x \in used
    BY <1>1, <1>3 DEF TypeInv, OwnersInv
  <2>2. CASE window_create(u)
    BY <1>1, <2>1, <2>2 DEF window_create
  <2>3. ASSUME NEW w \in Window, window_destroy(u, w) PROVE task_info'[x] = task_info[x]
    <3>1. w \in resources[u] /\ task_info' = [task_info EXCEPT ![w] = None]
      BY <2>3 DEF window_destroy, Handles
    <3>2. w # x
      BY <1>1, <1>3, <1>7, <3>1 DEF OwnersInv
    <3> QED
      BY <1>1, <2>1, <3>1, <3>2
  <2> QED
    BY <2>2, <2>3 DEF Begins, Continues, End, IdleReap, window_framebuffer_create, window_change,
      window_present, Send, CommandReturns, PresentReturns, window_vars
<1> QED
  BY <1>2, <1>3, <1>4, <1>5, <1>6, <1>7, ShownFrame DEF Closing

(* What one task does, to itself. *)
LEMMA OwnShown ==
  ASSUME CountInv, Posted, ShownInv, NEW t \in alive', Begins(t) \/ Continues(t) \/ IdleReap(t)
  PROVE  ShownTo(t)'
<1>1. TypeInv /\ OwnersInv /\ AnswerInv /\ task_info \in [Window -> Task \union {None}]
  BY DEF CountInv, Counted, Posted, ShownInv
<1>2. UNCHANGED <<linked, compositor, in_use>> /\ alive' \subseteq alive
  BY DEF Begins, Continues, End, IdleReap, Stop, window_create, window_framebuffer_create, window_change,
    window_destroy, window_present, Send, CommandReturns, PresentReturns, window_vars, task_vars, loop_vars
<1>3. t \in alive /\ t \in Task /\ ShownTo(t)
  BY <1>1, <1>2 DEF TypeInv, ShownInv
<1>4. call[t].at # "answer" => <<t, 0>> \notin notified
  BY <1>1, <1>3 DEF AnswerInv
<1>5. Closing(t)' <=> Closing(t)
  BY <1>2 DEF Closing
<1>6. ASSUME call[t].at \in {"run", "drawn"}, NEW x \in resources[t]
      PROVE  task_info[x] = t /\ (x \in linked \/ Closing(t))
  BY <1>3, <1>6 DEF ShownTo, Owns, Sees, InCall
<1>7. ASSUME call[t].at \in {"run", "drawn"}, UNCHANGED <<task_info, resources>>
      PROVE  ShownTo(t)'
  BY <1>2, <1>5, <1>6, <1>7 DEF ShownTo, Owns, Sees
<1>8. CASE window_create(t)
  <2>1. PICK w \in Window \ used :
          /\ task_info' = [task_info EXCEPT ![w] = t]
          /\ resources' = [resources EXCEPT ![t] = @ \union {w}]
          /\ Ask(t, "create", w)
    BY <1>8 DEF window_create
  <2>2. call[t].at = "run" /\ <<t, 0>> \notin notified'
    BY <1>4, <1>8 DEF window_create, Runs
  <2>3. resources'[t] = resources[t] \union {w} /\ InCall(t, "create", w)'
    BY <1>1, <1>3, <2>1 DEF Ask, InCall, TypeInv
  <2>4. task_info'[w] = t /\ \A x \in resources[t] : task_info'[x] = t
    BY <1>1, <1>3, <1>6, <2>1, <2>2 DEF TypeInv
  <2>5. ASSUME NEW x \in resources'[t] PROVE Owns(t, x)' /\ Sees(t, x)'
    <3>1. task_info'[x] = t
      BY <2>3, <2>4, <2>5
    <3>2. CASE x = w
      BY <2>2, <2>3, <3>1, <3>2 DEF Owns, Sees
    <3>3. CASE x # w
      BY <1>2, <1>5, <1>6, <2>2, <2>3, <2>5, <3>1, <3>3 DEF Owns, Sees
    <3> QED
      BY <3>2, <3>3
  <2> QED
    BY <2>5 DEF ShownTo
<1>9. ASSUME NEW w \in Window, window_destroy(t, w) PROVE ShownTo(t)'
  <2>1. /\ call[t].at = "run" /\ resources' = resources /\ w \in resources[t]
        /\ task_info' = [task_info EXCEPT ![w] = None] /\ Ask(t, "destroy", w)
    BY <1>9 DEF window_destroy, Runs, Handles
  <2>2. InCall(t, "destroy", w)'
    BY <1>1, <1>3, <2>1 DEF Ask, InCall, TypeInv
  <2>3. ASSUME NEW x \in resources[t] PROVE Owns(t, x)' /\ Sees(t, x)'
    <3>1. CASE x = w
      BY <1>1, <2>1, <2>2, <3>1 DEF Owns, Sees
    <3>2. CASE x # w
      <4>1. x \in Window /\ task_info'[x] = t
        BY <1>1, <1>3, <1>6, <2>1, <3>2 DEF TypeInv
      <4> QED
        BY <1>2, <1>5, <1>6, <2>1, <4>1 DEF Owns, Sees
    <3> QED
      BY <3>1, <3>2
  <2> QED
    BY <2>1, <2>3 DEF ShownTo
<1>10. ASSUME NEW w \in Window,
              \/ window_framebuffer_create(t, w)
              \/ window_change(t, w)
              \/ \E block \in BOOLEAN : window_present(t, w, block)
       PROVE  ShownTo(t)'
  BY <1>7, <1>10 DEF window_framebuffer_create, window_change, window_present, Runs, window_vars, task_vars
<1>11. CASE Send(t)
  <2>1. /\ call[t].at = "send" /\ call' = [call EXCEPT ![t].at = "answer"]
        /\ UNCHANGED <<resources, task_info, notified>>
    BY <1>11 DEF Send, window_vars
  <2>2. call'[t].at = "answer" /\ call'[t].command = call[t].command /\ call'[t].window = call[t].window
    BY <1>1, <1>3, <2>1 DEF TypeInv, Call
  <2>3. \A command, w : InCall(t, command, w)' <=> InCall(t, command, w)
    BY <2>1, <2>2 DEF InCall
  <2>4. \A x \in resources[t] : Owns(t, x)' /\ Sees(t, x)'
    BY <1>2, <1>3, <1>5, <2>1, <2>3 DEF ShownTo, Owns, Sees
  <2> QED
    BY <2>1, <2>4 DEF ShownTo
<1>12. CASE CommandReturns(t)
  <2>1. /\ <<t, 0>> \in notified /\ task_info' = task_info
        /\ resources' = [resources EXCEPT ![t] = @ \ Forgets(t)]
    BY <1>12 DEF CommandReturns
  <2>2. resources'[t] = resources[t] \ Forgets(t)
    BY <1>1, <1>3, <2>1 DEF TypeInv
  <2>3. ASSUME NEW x \in resources'[t] PROVE Owns(t, x)' /\ Sees(t, x)'
    <3>1. x \in resources[t] /\ ~InCall(t, "destroy", x)
      BY <2>2, <2>3 DEF Forgets, InCall
    <3>2. task_info[x] = t /\ (x \in linked \/ Closing(t))
      BY <1>3, <2>1, <3>1 DEF ShownTo, Owns, Sees
    <3> QED
      BY <1>2, <1>5, <2>1, <3>2 DEF Owns, Sees
  <2> QED
    BY <2>3 DEF ShownTo
<1>13. CASE PresentReturns(t)
  BY <1>7, <1>13 DEF PresentReturns, window_vars
<1>14. ~End(t) /\ ~IdleReap(t)
  BY <1>1, <1>3 DEF End, Stop, IdleReap, CountInv, DeathInv
<1> QED
  BY <1>8, <1>9, <1>10, <1>11, <1>12, <1>13, <1>14 DEF Begins, Continues

LEMMA NextShown ==
  ASSUME CountInv, Posted, ShownInv, [Next]_vars
  PROVE  ShownInv'
<1>1. TypeInv /\ task_info \in [Window -> Task \union {None}]
  BY DEF CountInv, ShownInv
<1>2. task_info' \in [Window -> Task \union {None}]
  <2>1. \/ UNCHANGED task_info
        \/ task_info' = [w \in Window |-> None]
        \/ \E w, x : x \in Task \union {None} /\ task_info' = [task_info EXCEPT ![w] = x]
    BY DEF Next, Compositor, NextCommand, FreesTwice, Reboot, CommandsDone, ALT_TAB, FN_CROSS, Kill, Hook, KeysDone, DropOwnerless,
      Look, Draw, Hades, HadesReceive, HadesDestroy, HadesSend, HadesFrees, Begins, Continues, End, IdleReap,
      window_create, window_framebuffer_create, window_change, window_destroy, window_present, Send,
      CommandReturns, PresentReturns, window_vars, vars
  <2> QED
    BY <1>1, <2>1
<1>3. CASE UNCHANGED vars
  BY <1>3 DEF vars, ShownInv, ShownTo, Owns, Sees, InCall, Closing
<1>4. ASSUME NEW t \in alive', Next, ~FreesTwice PROVE ShownTo(t)'
  BY <1>4, CompositorShown, HadesShown, OthersShown, OwnShown DEF Next
<1>5. CASE FreesTwice
  <2>1. Init'
    BY <1>5, RebootIsInit DEF FreesTwice
  <2>2. Init' => ShownInv'
    BY InitFrame, PTL
  <2> QED
    BY <2>1, <2>2
<1> QED
  BY <1>2, <1>3, <1>4, <1>5 DEF ShownInv

LEMMA Showing == Spec => [](CountInv /\ Posted /\ FrameInv /\ ShownInv)
<1>1. /\ Init => CountInv /\ Posted /\ FrameInv /\ ShownInv
      /\ CountInv /\ Posted /\ FrameInv /\ ShownInv /\ [Next]_vars
           => CountInv' /\ Posted' /\ FrameInv' /\ ShownInv'
  BY InitCount, InitPosted, InitFrame, NextCount, NextPosted, NextFrame, NextShown
<1> QED
  BY <1>1, PTL DEF Spec

(* The compositor keeps only allocated windows in its ring and in the frame *)
(* it draws, although it frees windows long after it has dropped them, and *)
(* sometimes twice.                                                        *)
THEOREM OnlyLive == Spec => []OnlyLiveWindowsAreDrawn
<1>1. CountInv /\ FrameInv => OnlyLiveWindowsAreDrawn
  BY DEF CountInv, Counted, RingInv, WindowCountIsExact, FrameInv, OnlyLiveWindowsAreDrawn
<1> QED
  BY <1>1, Showing, PTL

(* A task in its own code has each of its windows on screen: a command is  *)
(* answered when it is done, and only the user takes a window away from a  *)
(* task that lives, which then dies.                                       *)
THEOREM ShownWhileRunning == Spec => []WindowsOfRunningTasksAreShown
<1>1. CountInv /\ ShownInv => WindowsOfRunningTasksAreShown
  BY DEF CountInv, Counted, RingInv, WindowCountIsExact, ShownInv, ShownTo, Sees, InCall, Runs,
    WindowsOfRunningTasksAreShown
<1> QED
  BY <1>1, Showing, PTL
=============================================================================
