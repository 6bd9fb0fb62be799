------------------------------- MODULE Safety -------------------------------
(* The pod's safety state machine (E-Stop/shared/src/safety.rs).  Instead   *)
(* of the instant of the last reception it keeps since_rx, the time since   *)
(* then, which is all that Tick compares.                                   *)
EXTENDS Naturals

CONSTANT HEARTBEAT_TIMEOUT   \* in units of time

ASSUME SafetyAssumption == HEARTBEAT_TIMEOUT \in Nat

SafetyState == {"Armed", "Tripped"}
LinkState == {"Live", "Lost"}
Machine == [safety: SafetyState, link: LinkState, since_rx: Nat]

New(booted_for) == [safety |-> "Armed", link |-> "Lost", since_rx |-> booted_for]

MarkRx(m) == [m EXCEPT !.since_rx = 0]

HeartbeatRearms(m) == [m EXCEPT !.link = "Live", !.safety = "Armed"]
HeartbeatRx(m) == [m EXCEPT !.link = "Live"]
StopRx(m) == [m EXCEPT !.link = "Live", !.safety = "Tripped"]

TickOnlyWhenLive(m) ==
  IF m.link = "Live" /\ m.since_rx > HEARTBEAT_TIMEOUT
    THEN [m EXCEPT !.link = "Lost", !.safety = "Tripped"] ELSE m
TickTooEarly(m) ==
  IF m.since_rx >= HEARTBEAT_TIMEOUT
    THEN [m EXCEPT !.link = "Lost", !.safety = "Tripped"] ELSE m
Tick(m) ==
  IF m.since_rx > HEARTBEAT_TIMEOUT
    THEN [m EXCEPT !.link = "Lost", !.safety = "Tripped"] ELSE m

(* What step returns. *)
Changed(m, n) == m.safety # n.safety \/ m.link # n.link
=============================================================================
