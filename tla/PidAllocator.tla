---------------------------- MODULE PidAllocator ----------------------------
(***************************************************************************)
(* What the users of a pid allocator rely on: a pid that is handed out is  *)
(* nobody else's, only a pid that was handed out is given back, and every  *)
(* pid that is given back can be handed out again, but that one pid may    *)
(* drop out for good, once.                                                *)
(***************************************************************************)
CONSTANT Pid
VARIABLES held, free

Init == held = {} /\ free = Pid

Take(pid) ==
  /\ pid \in free
  /\ free' = free \ {pid}
  /\ held' = held \union {pid}

Give(pid) ==
  /\ pid \in held
  /\ held' = held \ {pid}
  /\ free' = free \union {pid}

GiveAndLose(pid) ==
  /\ pid \in held /\ held \union free = Pid
  /\ held' = held \ {pid}
  /\ \E lost \in free : free' = (free \ {lost}) \union {pid}

Next == \E pid \in Pid : Take(pid) \/ Give(pid) \/ GiveAndLose(pid)

Spec == Init /\ [][Next]_<<held, free>>
=============================================================================
