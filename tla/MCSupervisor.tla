---------------------------- MODULE MCSupervisor ----------------------------
(* Supervisor for TLC: a daemon that is restarted, a periodic application  *)
(* that starts after a delay, and an entry that runs once; the last two    *)
(* are the same application.                                               *)
EXTENDS Supervisor

CONSTANTS daemon, periodic, once, uid

Every  == [app \in App |-> IF app = periodic THEN 3 ELSE 0]
Delay  == [app \in App |-> IF app = periodic THEN 1 ELSE 0]
Uid    == [app \in App |-> IF app = daemon THEN None ELSE uid]
=============================================================================
