------------------------------- MODULE EStop -------------------------------
(* The wireless emergency stop: handheld, radio, pod and the host's view.   *)
(* Time passes in units (TICK_INTERVAL of the pod); in one unit every frame *)
(* in the air is received or lost, and every thread that is ready runs.     *)
EXTENDS Handheld, Pod

CONSTANTS
  MaxEdges,     \* bound: changes of the pin
  MaxFaults,    \* bound: crashes, and frames of others at the pod's radio
  SettleTime    \* units after which the host must know: see LoopOpenStops

ASSUME EStopAssumption ==
  /\ MaxEdges \in Nat /\ MaxFaults \in Nat /\ SettleTime \in Nat

VARIABLES
  edges, crashes, noise,
  \* history, read by the properties only
  lost_in_a_row,   \* the last frame was not received (nor any yet: booting is
                   \* as long as a lost one)
  lossy,           \* two in a row were not
  silence,         \* time since the loop took a frame, or booted
  open_for,        \* time LOOP_CLOSED has been false, or the handheld dead
  pressed_for,     \* time the pin has been high, the handheld alive
  seen             \* the pin's last change came while run() could notice it:
                   \* interrupt enabled, notification left or sample to come

history == <<lost_in_a_row, lossy, silence, open_for, pressed_for, seen>>
vars == <<handheldVars, podVars, edges, crashes, noise, history>>

Init ==
  /\ HandheldInit /\ PodInit
  /\ edges = 0 /\ crashes = 0 /\ noise = 0
  /\ lost_in_a_row = 1 /\ lossy = FALSE
  /\ silence = 0 /\ open_for = 0 /\ pressed_for = 0 /\ seen = TRUE

----------------------------------------------------------------------------
Pin == /\ edges < MaxEdges
       /\ edges' = edges + 1
       /\ PinChanges
       /\ pressed_for' = 0
       /\ seen' = (notified' \/ button \in {"debounce", "late"})
       /\ UNCHANGED <<podVars, crashes, noise, lost_in_a_row, lossy, silence, open_for>>

Buttons == /\ EnableInterrupt \/ WaitAny \/ Sample
           /\ open_for' = IF LOOP_CLOSED' # LOOP_CLOSED THEN 0 ELSE open_for
           /\ UNCHANGED <<podVars, edges, crashes, noise, lost_in_a_row, lossy, silence,
                          pressed_for, seen>>

(* A frame the driver refuses counts as lost. *)
Count(frame_received) ==
  /\ lost_in_a_row' = IF frame_received THEN 0 ELSE 1
  /\ lossy' = (lossy \/ (~frame_received /\ lost_in_a_row = 1))

Sends == /\ OnOpen \/ HeartbeatSends
         /\ IF air' = air THEN Count(FALSE) ELSE UNCHANGED <<lost_in_a_row, lossy>>
         /\ UNCHANGED <<podVars, edges, crashes, noise, silence, open_for,
                        pressed_for, seen>>

Wakes == HeartbeatWakes /\ UNCHANGED <<podVars, edges, crashes, noise, history>>

Land == /\ air # <<>> /\ air' = Tail(air)
        /\ UNCHANGED <<handheld_on, pin_high, interrupt, notified, LOOP_CLOSED, button,
                       burst, heartbeat, slept, edges, crashes, noise, silence,
                       open_for, pressed_for, seen>>

FrameReceived == /\ Land
                 /\ RadioReceives(Head(air))
                 /\ Count(rx_chan' # rx_chan)

FrameLost == Land /\ UNCHANGED podVars /\ Count(FALSE)

(* A frame that was not sent by the handheld, or did not survive its way.   *)
Noise == /\ crashes + noise < MaxFaults
         /\ noise' = noise + 1
         /\ RadioReceives("noise")
         /\ UNCHANGED <<handheldVars, edges, crashes, history>>

Loop == /\ LoopTick \/ LoopReceive
        /\ silence' = IF rx_chan' # rx_chan THEN 0 ELSE silence
        /\ UNCHANGED <<handheldVars, edges, crashes, noise, lost_in_a_row, lossy, open_for,
                       pressed_for, seen>>

Boots == PodBoot /\ silence' = 0
         /\ UNCHANGED <<handheldVars, edges, crashes, noise, lost_in_a_row, lossy, open_for,
                        pressed_for, seen>>

Crash == /\ crashes + noise < MaxFaults
         /\ crashes' = crashes + 1
         /\ \/ PodDies /\ UNCHANGED <<handheldVars, open_for>>
            \/ BatteryDies /\ open_for' = 0 /\ UNCHANGED podVars
         /\ UNCHANGED <<edges, noise, lost_in_a_row, lossy, silence, pressed_for, seen>>

Elapse ==
  /\ air = <<>>
  /\ HandheldElapse /\ PodElapse
  /\ silence' = IF pod_on THEN Older(silence) ELSE silence
  /\ open_for' = IF handheld_on /\ LOOP_CLOSED THEN 0
                 ELSE IF open_for < SettleTime THEN open_for + 1 ELSE open_for
  /\ pressed_for' = IF ~(handheld_on /\ pin_high) THEN 0
                    ELSE IF pressed_for < SettleTime THEN pressed_for + 1 ELSE pressed_for
  /\ UNCHANGED <<edges, crashes, noise, lost_in_a_row, lossy, seen>>

Next == Pin \/ Buttons \/ Sends \/ Wakes \/ FrameReceived \/ FrameLost \/ Noise
          \/ Loop \/ Boots \/ Crash \/ Elapse

Spec == Init /\ [][Next]_vars

----------------------------------------------------------------------------
(* Every variable has its type, and RX_CHAN its capacity. *)
EStopTypeOK ==
  /\ HandheldTypeOK /\ PodTypeOK
  /\ edges \in 0 .. MaxEdges
  /\ crashes \in Nat /\ noise \in Nat /\ crashes + noise <= MaxFaults
  /\ lost_in_a_row \in {0, 1} /\ lossy \in BOOLEAN
  /\ silence \in Nat /\ open_for \in Nat /\ pressed_for \in Nat /\ seen \in BOOLEAN

(* A pod that has taken no frame for the timeout and one tick is tripped,   *)
(* whichever frames were lost and whenever it booted.                       *)
SilenceTrips ==
  pod_on /\ silence > HEARTBEAT_TIMEOUT + TICK_INTERVAL => machine.safety = "Tripped"

(* What stops the rover on the host: a trip, a lost link, or no report.     *)
HostStops == \/ host.safety = "Tripped" \/ host.link = "Lost"
             \/ host_silence > USB_HEARTBEAT_TICKS * TICK_INTERVAL

(* Once the handheld has seen its loop open, or is dead, the host stops the *)
(* rover within SettleTime, even if every Stop frame is lost, a Heartbeat   *)
(* was already on its way, and the pod restarts in between.  A stranger's   *)
(* frame restarts the timeout as well, so without such frames only.         *)
LoopOpenStops == open_for >= SettleTime /\ noise = 0 => HostStops

(* A running pod reports at least every USB_HEARTBEAT_TICKS ticks, and the  *)
(* host's view is never behind the machine.                                 *)
HostCurrent == pod_on => /\ host = View(machine)
                         /\ host_silence <= USB_HEARTBEAT_TICKS * TICK_INTERVAL

(* The rover is never stopped without a cause: the loop opened, something   *)
(* crashed, or two frames in a row (or the first one) did not arrive.       *)
TripHasCause ==
  machine.safety = "Tripped" => \/ edges > 0 \/ crashes > 0 \/ lossy
                                \/ ~LOOP_CLOSED

(* A trip is latched until the pod restarts: no Heartbeat takes it back.    *)
TripLatched ==
  [][machine.safety = "Tripped" /\ pod_on => machine'.safety = "Tripped"]_vars

(* A press that lasts stops the rover within SettleTime unless it came      *)
(* after the sample and before the interrupt was enabled again.             *)
SeenPressStops == pressed_for >= SettleTime /\ seen /\ noise = 0 => HostStops

----------------------------------------------------------------------------
(* The pod implements Watchdog. *)
Promise == INSTANCE Watchdog WITH
  Deadline <- HEARTBEAT_TIMEOUT + TICK_INTERVAL,
  watch <- IF ~pod_on THEN "off" ELSE IF machine.safety = "Armed" THEN "armed" ELSE "tripped",
  quiet <- machine.since_rx

(* Receptions, ticks, crashes and boots, as the loop orders them, are steps *)
(* of a watchdog with a deadline of the timeout and one tick.               *)
KeepsPromise == Promise!Spec

----------------------------------------------------------------------------
(* What the documents say and the code does not do.                         *)

(* button.rs: interrupts that come while the thread is busy do not desync   *)
(* the state; README.md: a pressed button stops the Heartbeats, and so the pod. *)
PressStops == pressed_for >= SettleTime => HostStops
=============================================================================
