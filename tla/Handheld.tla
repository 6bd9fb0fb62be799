------------------------------ MODULE Handheld ------------------------------
(* The handheld (E-Stop/handheld): the button thread, woken by the pin's    *)
(* edge interrupt, and the heartbeat thread, which share LOOP_CLOSED and    *)
(* the radio.                                                               *)
EXTENDS Naturals, Sequences

CONSTANTS
  STOP_BURST_COUNT,     \* 3
  HEARTBEAT_INTERVAL,   \* units of time the heartbeat thread sleeps
  Jitter                \* units of time it may oversleep

ASSUME HandheldAssumption ==
  /\ STOP_BURST_COUNT \in Nat \ {0}
  /\ HEARTBEAT_INTERVAL \in Nat \ {0}
  /\ Jitter \in Nat

VARIABLES
  handheld_on,
  pin_high,        \* the NC loop is open: pressed, or cut
  interrupt,       \* the pin's interrupt is enabled
  notified,        \* the notification the ISR leaves
  LOOP_CLOSED,
  button,          \* where run() is
  burst,           \* Stop frames on_open has still to send
  heartbeat,       \* where the heartbeat thread is
  slept,           \* time since it went to sleep
  air              \* frames sent and not yet received or lost, oldest first

handheldVars == <<handheld_on, pin_high, interrupt, notified, LOOP_CLOSED, button,
                  burst, heartbeat, slept, air>>

HandheldTypeOK ==
  /\ handheld_on \in BOOLEAN /\ pin_high \in BOOLEAN
  /\ interrupt \in BOOLEAN /\ notified \in BOOLEAN /\ LOOP_CLOSED \in BOOLEAN
  /\ button \in {"enable", "wait", "debounce", "late", "burst"}
  /\ burst \in 0 .. STOP_BURST_COUNT /\ (button = "burst" => burst > 0)
  /\ heartbeat \in {"asleep", "send"}
  /\ slept \in 0 .. HEARTBEAT_INTERVAL + Jitter
  /\ air \in Seq({"Heartbeat", "Stop"})

(* run() up to its loop: LOOP_CLOSED is seeded from the pin, and the        *)
(* interrupt is not enabled yet.                                            *)
HandheldInit ==
  /\ handheld_on = TRUE
  /\ pin_high \in BOOLEAN
  /\ interrupt = FALSE /\ notified = FALSE
  /\ LOOP_CLOSED = ~pin_high
  /\ button = "enable" /\ burst = 0
  /\ heartbeat = "asleep" /\ slept = 0
  /\ air = <<>>

(* The pin changes; an enabled interrupt fires once, and is then disabled.  *)
PinChanges ==
  /\ pin_high' = ~pin_high
  /\ notified' = (notified \/ interrupt)
  /\ interrupt' = FALSE
  /\ UNCHANGED <<handheld_on, LOOP_CLOSED, button, burst, heartbeat, slept, air>>

EnableInterrupt ==
  /\ handheld_on
  /\ button = "enable" /\ button' = "wait"
  /\ interrupt' = TRUE
  /\ UNCHANGED <<handheld_on, pin_high, notified, LOOP_CLOSED, burst, heartbeat,
                 slept, air>>

WaitAny ==
  /\ handheld_on
  /\ button = "wait" /\ button' = "debounce"
  /\ notified /\ notified' = FALSE
  /\ UNCHANGED <<handheld_on, pin_high, interrupt, LOOP_CLOSED, burst, heartbeat,
                 slept, air>>

(* After DEBOUNCE_MS: sample the pin and swap it into LOOP_CLOSED; on_open  *)
(* when it has opened.                                                      *)
SampledSticky == ~pin_high \/ LOOP_CLOSED
Sampled == ~pin_high
Sample ==
  /\ handheld_on
  /\ button \in {"debounce", "late"}
  /\ LOOP_CLOSED' = Sampled
  /\ IF LOOP_CLOSED /\ ~Sampled
       THEN button' = "burst" /\ burst' = STOP_BURST_COUNT
       ELSE button' = "enable" /\ burst' = 0
  /\ UNCHANGED <<handheld_on, pin_high, interrupt, notified, heartbeat, slept, air>>

(* One send_frame, which may fail. *)
Sent(frame) == air' = Append(air, frame) \/ air' = air

OnOpen ==
  /\ handheld_on
  /\ button = "burst"
  /\ burst' = burst - 1
  /\ button' = IF burst = 1 THEN "enable" ELSE "burst"
  /\ Sent("Stop")
  /\ UNCHANGED <<handheld_on, pin_high, interrupt, notified, LOOP_CLOSED, heartbeat,
                 slept>>

(* The heartbeat thread looks at LOOP_CLOSED, then sends: the loop may open *)
(* in between.                                                              *)
LoopClosedAlways == TRUE
LoopClosed == LOOP_CLOSED
HeartbeatWakes ==
  /\ handheld_on
  /\ heartbeat = "asleep"
  /\ slept >= HEARTBEAT_INTERVAL
  /\ heartbeat' = IF LoopClosed THEN "send" ELSE "asleep"
  /\ slept' = 0
  /\ UNCHANGED <<handheld_on, pin_high, interrupt, notified, LOOP_CLOSED, button,
                 burst, air>>

HeartbeatSends ==
  /\ handheld_on
  /\ heartbeat = "send" /\ heartbeat' = "asleep"
  /\ Sent("Heartbeat")
  /\ UNCHANGED <<handheld_on, pin_high, interrupt, notified, LOOP_CLOSED, button,
                 burst, slept>>

(* One unit of time: no thread is kept waiting by the other for as long;    *)
(* the debounce lasts less than a unit, but may straddle two.               *)
HandheldIdle ==
  handheld_on => /\ heartbeat = "asleep" /\ slept < HEARTBEAT_INTERVAL + Jitter
                 /\ button = "debounce" \/ (button = "wait" /\ ~notified)
HandheldElapse ==
  /\ HandheldIdle
  /\ slept' = IF handheld_on THEN slept + 1 ELSE slept
  /\ button' = IF handheld_on /\ button = "debounce" THEN "late" ELSE button
  /\ UNCHANGED <<handheld_on, pin_high, interrupt, notified, LOOP_CLOSED, burst,
                 heartbeat, air>>

BatteryDies ==
  /\ handheld_on
  /\ handheld_on' = FALSE
  /\ UNCHANGED <<pin_high, interrupt, notified, LOOP_CLOSED, button, burst, heartbeat,
                 slept, air>>
=============================================================================
