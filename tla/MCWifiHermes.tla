---------------------------- MODULE MCWifiHermes ----------------------------
(* WifiHermes for TLC: one application connects and scans and may be       *)
(* deleted, the other disconnects.                                         *)
EXTENDS WifiHermes

CONSTANTS app, settings

AsksOf == [task \in Task |-> IF task = app THEN {"CONNECT", "SCAN"} ELSE {"DISCONNECT"}]
=============================================================================
