------------------------------ MODULE MCEStop ------------------------------
EXTENDS EStopWire

(* In units of 100 ms, the code gives TICK 100, HEARTBEAT 200, TIMEOUT 600. *)
MCBootTimes == {0, 3}
=============================================================================
