--------------------------- MODULE ProcessService ---------------------------
(***************************************************************************)
(* What the process manager promises about pids: a pid names one task at a *)
(* time, from the moment Zeus takes it until the task is dead and Hades    *)
(* has buried it; one task is started at a time; and since boot at most    *)
(* one pid has dropped out of circulation.                                 *)
(***************************************************************************)
EXTENDS Integers

CONSTANT Pid
VARIABLE state      \* per pid

State == {"free", "starting", "live", "dead", "lost"}

In(s) == {p \in Pid : state[p] = s}

Init == state = [p \in Pid |-> "free"]

Become(p, s) == state' = [state EXCEPT ![p] = s]

Take(p) == state[p] = "free" /\ In("starting") = {} /\ Become(p, "starting")

Start(p) == state[p] = "starting" /\ Become(p, "live")

(* A task that ended before it was registered counts as dead at once. *)
Die(p) == state[p] \in {"starting", "live"} /\ Become(p, "dead")

(* A pid comes back from a start that failed or from a buried task; once    *)
(* since boot another free pid may be lost by that.                         *)
GiveBack(p) ==
  /\ state[p] \in {"starting", "dead"}
  /\ \/ Become(p, "free")
     \/ /\ In("lost") = {}
        /\ \E q \in In("free") :
             state' = [state EXCEPT ![p] = "free", ![q] = "lost"]

Reset == state' = [p \in Pid |-> "free"]

Next == Reset \/ \E p \in Pid : Take(p) \/ Start(p) \/ Die(p) \/ GiveBack(p)

Spec == Init /\ [][Next]_state
=============================================================================
