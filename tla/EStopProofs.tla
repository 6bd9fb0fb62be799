---------------------------- MODULE EStopProofs ----------------------------
(* The pod as a watchdog: for every timeout, tick, capacity, burst, jitter  *)
(* and number of faults.                                                    *)
EXTENDS EStop, TLAPS

(* What SilenceTrips needs to be inductive: the time left on the timer      *)
(* still fits before the latest instant at which the pod may be armed.      *)
SilenceInv ==
  /\ machine.safety # "Tripped" =>
       /\ silence <= machine.since_rx
       /\ machine.since_rx + tick_in <= HEARTBEAT_TIMEOUT + TICK_INTERVAL
  /\ machine \in Machine /\ silence \in Nat /\ tick_in \in Nat

USE SafetyAssumption, PodAssumption, HandheldAssumption, EStopAssumption

----------------------------------------------------------------------------
(* Types, with the machine's operators first. *)
LEMMA MachineOperators ==
  ASSUME NEW m \in Machine
  PROVE  /\ MarkRx(m) \in Machine /\ HeartbeatRx(m) \in Machine
         /\ StopRx(m) \in Machine /\ Tick(m) \in Machine
         /\ [m EXCEPT !.since_rx = Older(@)] \in Machine
         /\ View(m) \in [safety: SafetyState, link: LinkState]
  <1>1. Older(m.since_rx) \in Nat
    BY DEF Older, Machine, AgeLimit
  <1> QED
    BY <1>1 DEF MarkRx, HeartbeatRx, StopRx, Tick, View, Machine, SafetyState, LinkState

LEMMA BootTyped ==
  ASSUME NEW t \in BootTimes
  PROVE  New(t) \in Machine
  BY DEF New, Machine, SafetyState, LinkState

LEMMA IterateTyped ==
  ASSUME PodTypeOK, NEW m \in Machine, Iterate(m)
  PROVE  /\ machine' \in Machine /\ tick_in' \in 0 .. TICK_INTERVAL
         /\ ticks_since_send' \in 0 .. USB_HEARTBEAT_TICKS - 1
         /\ host' \in [safety: SafetyState, link: LinkState]
         /\ host_silence' \in Nat /\ pod_on' \in BOOLEAN
  <1>1. CASE ReportDue(m)
    <2>1. View(m) \in [safety: SafetyState, link: LinkState]
      BY MachineOperators
    <2>2. /\ machine' = m /\ tick_in' = TICK_INTERVAL /\ pod_on' = pod_on
          /\ host' = View(m) /\ host_silence' = 0 /\ ticks_since_send' = 0
      BY <1>1 DEF Iterate
    <2> QED
      BY <2>1, <2>2 DEF PodTypeOK
  <1>2. CASE ~ReportDue(m)
    <2>1. ticks_since_send + 1 < USB_HEARTBEAT_TICKS
      BY <1>2 DEF ReportDue, PodTypeOK
    <2> QED
      BY <1>2, <2>1 DEF Iterate, PodTypeOK
  <1> QED
    BY <1>1, <1>2

LEMMA PodTyped ==
  ASSUME PodTypeOK,
         \/ LoopTick \/ LoopReceive \/ PodBoot \/ PodDies \/ PodElapse
         \/ \E frame \in {"Heartbeat", "Stop", "noise"} : RadioReceives(frame)
         \/ UNCHANGED podVars
  PROVE  PodTypeOK'
  <1>1. CASE LoopTick
    <2>1. Iterate(Tick(machine)) /\ Tick(machine) \in Machine /\ rx_chan' = rx_chan
      BY <1>1, MachineOperators DEF LoopTick, PodTypeOK
    <2> QED
      BY <2>1, IterateTyped DEF PodTypeOK
  <1>2. CASE LoopReceive
    <2>1. /\ rx_chan' \in Seq(RxEvent) /\ Len(rx_chan') <= RX_CHAN_CAPACITY
      BY <1>2 DEF LoopReceive, PodTypeOK
    <2>2. \E m \in Machine : Iterate(m)
      <3>1. MarkRx(machine) \in Machine
        BY MachineOperators DEF PodTypeOK
      <3> QED
        BY <1>2, <3>1, MachineOperators DEF LoopReceive
    <2> QED
      BY <2>1, <2>2, IterateTyped DEF PodTypeOK
  <1>3. CASE PodBoot
    <2>1. machine' \in Machine
      BY <1>3, BootTyped DEF PodBoot
    <2>2. View(machine') \in [safety: SafetyState, link: LinkState]
      BY <2>1, MachineOperators
    <2>3. /\ rx_chan' = <<>> /\ tick_in' = TICK_INTERVAL /\ ticks_since_send' = 0
          /\ host' = View(machine') /\ host_silence' = 0 /\ pod_on' = TRUE
      BY <1>3 DEF PodBoot
    <2> QED
      BY <2>1, <2>2, <2>3 DEF PodTypeOK
  <1>4. CASE PodDies \/ UNCHANGED podVars
    BY <1>4 DEF PodDies, PodTypeOK, podVars
  <1>5. CASE PodElapse
    <2>1. Older(host_silence) \in Nat
      BY DEF Older, AgeLimit, PodTypeOK
    <2>2. machine' \in Machine
      BY <1>5, MachineOperators DEF PodElapse, PodTypeOK
    <2>3. tick_in' \in 0 .. TICK_INTERVAL
      BY <1>5 DEF PodElapse, PodIdle, PodTypeOK
    <2> QED
      BY <1>5, <2>1, <2>2, <2>3 DEF PodElapse, PodTypeOK
  <1>6. CASE \E frame \in {"Heartbeat", "Stop", "noise"} : RadioReceives(frame)
    BY <1>6 DEF RadioReceives, Queued, Classify, PodTypeOK, RxEvent
  <1> QED
    BY <1>1, <1>2, <1>3, <1>4, <1>5, <1>6

LEMMA HandheldTyped ==
  ASSUME HandheldTypeOK,
         \/ PinChanges \/ EnableInterrupt \/ WaitAny \/ Sample \/ OnOpen
         \/ HeartbeatWakes \/ HeartbeatSends \/ HandheldElapse \/ BatteryDies
         \/ UNCHANGED handheldVars
  PROVE  HandheldTypeOK'
  <1>1. CASE PinChanges
    BY <1>1 DEF PinChanges, HandheldTypeOK
  <1>2. CASE EnableInterrupt \/ WaitAny \/ BatteryDies \/ UNCHANGED handheldVars
    BY <1>2 DEF EnableInterrupt, WaitAny, BatteryDies, HandheldTypeOK, handheldVars
  <1>3. CASE Sample
    BY <1>3 DEF Sample, Sampled, HandheldTypeOK
  <1>4. CASE OnOpen
    <2>1. air \in Seq({"Heartbeat", "Stop"})
      BY DEF HandheldTypeOK
    <2>2. air' \in Seq({"Heartbeat", "Stop"})
      BY <1>4, <2>1 DEF OnOpen, Sent
    <2>3. burst \in 1 .. STOP_BURST_COUNT
      BY <1>4 DEF OnOpen, HandheldTypeOK
    <2> QED
      BY <1>4, <2>2, <2>3 DEF OnOpen, HandheldTypeOK
  <1>5. CASE HeartbeatWakes
    BY <1>5 DEF HeartbeatWakes, HandheldTypeOK
  <1>6. CASE HeartbeatSends
    <2>1. air \in Seq({"Heartbeat", "Stop"})
      BY DEF HandheldTypeOK
    <2>2. air' \in Seq({"Heartbeat", "Stop"})
      BY <1>6, <2>1 DEF HeartbeatSends, Sent
    <2> QED
      BY <1>6, <2>2 DEF HeartbeatSends, HandheldTypeOK
  <1>7. CASE HandheldElapse
    BY <1>7 DEF HandheldElapse, HandheldIdle, HandheldTypeOK
  <1> QED
    BY <1>1, <1>2, <1>3, <1>4, <1>5, <1>6, <1>7

LEMMA TypesInit == Init => HandheldTypeOK /\ PodTypeOK
  <1> SUFFICES ASSUME Init PROVE HandheldTypeOK /\ PodTypeOK
    OBVIOUS
  <1>1. HandheldTypeOK
    <2>1. LOOP_CLOSED \in BOOLEAN /\ pin_high \in BOOLEAN
      BY Zenon DEF Init, HandheldInit
    <2> QED
      <3>1. /\ handheld_on \in BOOLEAN /\ interrupt \in BOOLEAN /\ notified \in BOOLEAN
            /\ button = "enable" /\ burst = 0 /\ heartbeat = "asleep" /\ slept = 0
            /\ air = <<>>
        BY Zenon DEF Init, HandheldInit
      <3>2. /\ burst \in 0 .. STOP_BURST_COUNT /\ button # "burst"
            /\ slept \in 0 .. HEARTBEAT_INTERVAL + Jitter
            /\ air \in Seq({"Heartbeat", "Stop"})
        BY <3>1
      <3> QED
        BY <2>1, <3>1, <3>2, Zenon DEF HandheldTypeOK
  <1>2. machine \in Machine
    BY BootTyped DEF Init, PodInit
  <1>3. View(machine) \in [safety: SafetyState, link: LinkState]
    BY <1>2, MachineOperators
  <1>4. PodTypeOK
    BY <1>2, <1>3 DEF Init, PodInit, PodTypeOK
  <1> QED
    BY <1>1, <1>4

LEMMA LandTyped ==
  ASSUME HandheldTypeOK, Land
  PROVE  HandheldTypeOK' /\ Head(air) \in {"Heartbeat", "Stop"}
  <1>1. air \in Seq({"Heartbeat", "Stop"}) /\ air # <<>> /\ air' = Tail(air)
    BY DEF Land, HandheldTypeOK
  <1>2. air' \in Seq({"Heartbeat", "Stop"}) /\ Head(air) \in {"Heartbeat", "Stop"}
    BY <1>1
  <1> QED
    BY <1>2 DEF Land, HandheldTypeOK

LEMMA TypesStep ==
  HandheldTypeOK /\ PodTypeOK /\ [Next]_vars => HandheldTypeOK' /\ PodTypeOK'
  <1> SUFFICES ASSUME HandheldTypeOK, PodTypeOK, [Next]_vars
               PROVE  HandheldTypeOK' /\ PodTypeOK'
    OBVIOUS
  <1>1. CASE Pin \/ Buttons \/ Sends \/ Wakes \/ UNCHANGED vars
    BY <1>1, HandheldTyped, PodTyped DEF Pin, Buttons, Sends, Wakes, vars
  <1>2. CASE FrameReceived
    BY <1>2, LandTyped, PodTyped DEF FrameReceived
  <1>3. CASE FrameLost
    BY <1>3, LandTyped, PodTyped DEF FrameLost
  <1>4. CASE Noise \/ Loop \/ Boots
    BY <1>4, HandheldTyped, PodTyped DEF Noise, Loop, Boots
  <1>5. CASE Crash
    BY <1>5, HandheldTyped, PodTyped DEF Crash
  <1>6. CASE Elapse
    BY <1>6, HandheldTyped, PodTyped DEF Elapse
  <1> QED
    BY <1>1, <1>2, <1>3, <1>4, <1>5, <1>6 DEF Next

LEMMA Typed == Spec => [](HandheldTypeOK /\ PodTypeOK)
  BY TypesInit, TypesStep, PTL DEF Spec

----------------------------------------------------------------------------
(* The initial state, and a boot: booting fits in the timeout. *)
LEMMA SilenceInit == Init => SilenceInv
  <1> SUFFICES ASSUME Init PROVE SilenceInv
    OBVIOUS
  <1>1. PICK t \in BootTimes : machine = New(t)
    BY DEF Init, PodInit
  <1>2. t \in Nat /\ t <= HEARTBEAT_TIMEOUT
    OBVIOUS
  <1> QED
    BY <1>1, <1>2 DEF Init, PodInit, New, SilenceInv, Machine, SafetyState, LinkState

(* The other actions, and a step of nothing. *)
LEMMA SilenceStutter ==
  ASSUME SilenceInv, UNCHANGED <<machine, tick_in, silence>>
  PROVE  SilenceInv'
  BY DEF SilenceInv, Machine, SafetyState, LinkState

(* An iteration on a frame restarts the timeout, and ends the silence.      *)
LEMMA ReceiveAhead == PodTypeOK /\ SilenceInv /\ Loop /\ LoopReceive => SilenceInv'
  <1> SUFFICES ASSUME PodTypeOK, SilenceInv, Loop, LoopReceive PROVE SilenceInv'
    OBVIOUS
  <1>1. rx_chan \in Seq(RxEvent) /\ rx_chan # <<>> /\ rx_chan' = Tail(rx_chan)
    BY DEF PodTypeOK, LoopReceive
  <1>2. rx_chan' # rx_chan
    BY <1>1
  <1>3. silence' = 0
    BY <1>2 DEF Loop
  <1>4. tick_in' = TICK_INTERVAL
    BY DEF LoopReceive, Iterate
  <1>5. machine' \in Machine /\ machine'.since_rx = 0
    <2>1. MarkRx(machine) \in Machine /\ MarkRx(machine).since_rx = 0
      BY DEF MarkRx, SilenceInv, Machine
    <2>2. \/ machine' = HeartbeatRx(MarkRx(machine))
          \/ machine' = StopRx(MarkRx(machine))
          \/ machine' = MarkRx(machine)
      BY DEF LoopReceive, Iterate
    <2> QED
      BY <2>1, <2>2 DEF HeartbeatRx, StopRx, Machine, SafetyState, LinkState
  <1> QED
    BY <1>3, <1>4, <1>5 DEF SilenceInv

(* A tick either trips or finds a full tick left before the deadline.       *)
LEMMA TickAhead == SilenceInv /\ Loop /\ LoopTick => SilenceInv'
  <1> SUFFICES ASSUME SilenceInv, Loop, LoopTick PROVE SilenceInv'
    OBVIOUS
  <1>1. UNCHANGED silence
    BY DEF Loop, LoopTick
  <1>2. machine' = Tick(machine) /\ tick_in' = TICK_INTERVAL
    BY DEF LoopTick, Iterate
  <1>3. CASE machine.since_rx > HEARTBEAT_TIMEOUT
    BY <1>1, <1>2, <1>3 DEF SilenceInv, Tick, Machine,
                            SafetyState, LinkState
  <1>4. CASE ~(machine.since_rx > HEARTBEAT_TIMEOUT)
    BY <1>1, <1>2, <1>4 DEF SilenceInv, Tick, Machine,
                            SafetyState, LinkState
  <1> QED
    BY <1>3, <1>4

(* The timer and the age of the last reception move together. *)
LEMMA ElapseAhead == SilenceInv /\ Elapse => SilenceInv'
  <1> SUFFICES ASSUME SilenceInv, Elapse PROVE SilenceInv'
    OBVIOUS
  <1>2. CASE ~pod_on
    <2>1. UNCHANGED <<machine, tick_in, silence>>
      BY <1>2 DEF Elapse, PodElapse
    <2> QED
      BY <2>1, SilenceStutter
  <1>3. CASE pod_on
    <2>1. /\ machine' = [machine EXCEPT !.since_rx = Older(@)]
          /\ tick_in' = tick_in - 1 /\ tick_in > 0
          /\ silence' = Older(silence)
      BY <1>3 DEF Elapse, PodElapse, PodIdle
    <2>2. machine' \in Machine /\ silence' \in Nat /\ tick_in' \in Nat
      BY <2>1 DEF SilenceInv, Machine, Older
    <2>3. ASSUME machine'.safety # "Tripped"
          PROVE  /\ silence' <= machine'.since_rx
                 /\ machine'.since_rx + tick_in' <= HEARTBEAT_TIMEOUT + TICK_INTERVAL
      <3>1. machine'.since_rx = Older(machine.since_rx) /\ machine.safety # "Tripped"
        BY <2>1, <2>3 DEF SilenceInv, Machine
      <3>2. /\ silence <= machine.since_rx
            /\ machine.since_rx + tick_in <= HEARTBEAT_TIMEOUT + TICK_INTERVAL
            /\ machine.since_rx \in Nat
        BY <3>1 DEF SilenceInv, Machine
      <3>3. AgeLimit \in Nat
        BY DEF AgeLimit
      <3>4. /\ silence' <= machine'.since_rx
            /\ machine'.since_rx <= machine.since_rx + 1
        BY <2>1, <3>1, <3>2, <3>3 DEF Older, SilenceInv
      <3> QED
        BY <2>1, <2>2, <3>1, <3>2, <3>4 DEF SilenceInv, Machine
    <2> QED
      BY <2>2, <2>3 DEF SilenceInv
  <1> QED
    BY <1>2, <1>3

LEMMA BootAhead == SilenceInv /\ Boots => SilenceInv'
  <1> SUFFICES ASSUME SilenceInv, Boots PROVE SilenceInv'
    OBVIOUS
  <1>1. PICK t \in BootTimes : machine' = New(t)
    BY DEF Boots, PodBoot
  <1>2. t \in Nat /\ t <= HEARTBEAT_TIMEOUT
    OBVIOUS
  <1>3. tick_in' = TICK_INTERVAL /\ silence' = 0
    BY DEF Boots, PodBoot
  <1> QED
    BY <1>1, <1>2, <1>3 DEF SilenceInv, New, Machine,
                            SafetyState, LinkState

LEMMA SilenceStep == PodTypeOK /\ SilenceInv /\ [Next]_vars => SilenceInv'
  <1> SUFFICES ASSUME PodTypeOK, SilenceInv, [Next]_vars PROVE SilenceInv'
    OBVIOUS
  <1>1. CASE \/ Pin \/ Buttons \/ Sends \/ Wakes \/ FrameReceived \/ FrameLost
             \/ Noise \/ Crash \/ UNCHANGED vars
    <2>1. UNCHANGED <<machine, tick_in, silence>>
      BY <1>1 DEF Pin, Buttons, Sends, Wakes, FrameReceived, FrameLost, Land, Noise,
                  RadioReceives, Crash, PodDies, podVars, history, vars
    <2> QED
      BY <2>1, SilenceStutter
  <1>2. CASE Loop
    <2>1. LoopTick \/ LoopReceive
      BY <1>2 DEF Loop
    <2> QED
      BY <1>2, <2>1, ReceiveAhead, TickAhead
  <1>3. CASE Boots
    BY <1>3, BootAhead
  <1>4. CASE Elapse
    BY <1>4, ElapseAhead
  <1> QED
    BY <1>1, <1>2, <1>3, <1>4 DEF Next

LEMMA SilenceInvTrips == SilenceInv => SilenceTrips
  <1> SUFFICES ASSUME SilenceInv, silence > HEARTBEAT_TIMEOUT + TICK_INTERVAL,
                      machine.safety # "Tripped"
               PROVE  FALSE
    BY DEF SilenceTrips
  <1> QED
    BY DEF SilenceInv, Machine

LEMMA SilenceInvariant == Spec => []SilenceInv
  BY Typed, SilenceInit, SilenceStep, PTL DEF Spec

(* A running pod that has taken no frame for the timeout and one tick is    *)
(* tripped: whatever was lost, pressed or restarted, for every constant.    *)
THEOREM SilentHandheldTrips == Spec => []SilenceTrips
  BY SilenceInvariant, SilenceInvTrips, PTL

(* No step of the loop disarms a trip: a Heartbeat revives the link only.   *)
THEOREM TripIsLatched == Spec => TripLatched
  <1>1. ASSUME PodTypeOK, [Next]_vars, machine.safety = "Tripped", pod_on
        PROVE  machine'.safety = "Tripped"
    <2>1. CASE Loop
      <3>1. machine \in Machine
        BY <1>1 DEF PodTypeOK
      <3>2. \/ machine' = Tick(machine) \/ machine' = MarkRx(machine)
            \/ machine' = HeartbeatRx(MarkRx(machine))
            \/ machine' = StopRx(MarkRx(machine))
        BY <2>1 DEF Loop, LoopTick, LoopReceive, Iterate
      <3> QED
        BY <1>1, <3>1, <3>2 DEF Tick, MarkRx, HeartbeatRx, StopRx, Machine
    <2>2. CASE Boots
      BY <1>1, <2>2 DEF Boots, PodBoot
    <2>3. CASE Elapse
      BY <1>1, <2>3 DEF Elapse, PodElapse, PodTypeOK, Machine
    <2>4. CASE Crash \/ FrameReceived \/ Noise
      BY <1>1, <2>4 DEF Crash, PodDies, FrameReceived, Noise, RadioReceives, podVars
    <2>5. CASE Pin \/ Buttons \/ Sends \/ Wakes \/ FrameLost \/ UNCHANGED vars
      BY <1>1, <2>5 DEF Pin, Buttons, Sends, Wakes, FrameLost, vars, podVars
    <2> QED
      BY <1>1, <2>1, <2>2, <2>3, <2>4, <2>5 DEF Next
  <1> QED
    BY <1>1, Typed, PTL DEF Spec, TripLatched

----------------------------------------------------------------------------
(* The history and the counters have their types too. *)
LEMMA HistoryStep == EStopTypeOK /\ [Next]_vars =>
  /\ edges' \in 0 .. MaxEdges
  /\ crashes' \in Nat /\ noise' \in Nat /\ crashes' + noise' <= MaxFaults
  /\ lost_in_a_row' \in {0, 1} /\ lossy' \in BOOLEAN
  /\ silence' \in Nat /\ open_for' \in Nat /\ pressed_for' \in Nat /\ seen' \in BOOLEAN
  <1> SUFFICES ASSUME EStopTypeOK, [Next]_vars
               PROVE  /\ edges' \in 0 .. MaxEdges
                      /\ crashes' \in Nat /\ noise' \in Nat
                      /\ crashes' + noise' <= MaxFaults
                      /\ lost_in_a_row' \in {0, 1} /\ lossy' \in BOOLEAN
                      /\ silence' \in Nat /\ open_for' \in Nat /\ pressed_for' \in Nat
                      /\ seen' \in BOOLEAN
    OBVIOUS
  <1> USE DEF EStopTypeOK
  <1>1. edges' \in 0 .. MaxEdges
    <2>1. UNCHANGED edges \/ (edges < MaxEdges /\ edges' = edges + 1)
      BY Zenon DEF Next, Pin, Buttons, Sends, Wakes, FrameReceived, FrameLost, Land, Noise,
                   Loop, Boots, Crash, Elapse, vars
    <2> QED
      BY <2>1
  <1>2. crashes' \in Nat /\ noise' \in Nat /\ crashes' + noise' <= MaxFaults
    <2>1. \/ UNCHANGED <<crashes, noise>>
          \/ crashes + noise < MaxFaults /\ crashes' = crashes + 1 /\ noise' = noise
          \/ crashes + noise < MaxFaults /\ noise' = noise + 1 /\ crashes' = crashes
      BY Zenon DEF Next, Pin, Buttons, Sends, Wakes, FrameReceived, FrameLost, Land, Noise,
                   Loop, Boots, Crash, Elapse, vars
    <2> QED
      BY <2>1
  <1>3. lost_in_a_row' \in {0, 1}
    <2>1. UNCHANGED lost_in_a_row \/ lost_in_a_row' = 0 \/ lost_in_a_row' = 1
      BY Zenon DEF Next, Pin, Buttons, Sends, Wakes, FrameReceived, FrameLost, Count, Noise,
                   Loop, Boots, Crash, Elapse, vars, history
    <2> QED
      BY <2>1
  <1>4. lossy' \in BOOLEAN
    <2>1. UNCHANGED lossy \/ \E r \in {TRUE, FALSE} : Count(r) \/ Count(rx_chan' # rx_chan)
      BY Zenon DEF Next, Pin, Buttons, Sends, Wakes, FrameReceived, FrameLost, Noise, Loop,
                   Boots, Crash, Elapse, vars, history
    <2> QED
      BY <2>1, Zenon DEF Count
  <1>5. silence' \in Nat
    <2>1. UNCHANGED silence \/ silence' = 0 \/ silence' = Older(silence)
      BY Zenon DEF Next, Pin, Buttons, Sends, Wakes, FrameReceived, FrameLost, Land, Noise,
                   Loop, Boots, Crash, Elapse, vars, history
    <2> QED
      BY <2>1 DEF Older
  <1>6. open_for' \in Nat
    <2>1. UNCHANGED open_for \/ open_for' = 0 \/ open_for' = open_for + 1
      BY Zenon DEF Next, Pin, Buttons, Sends, Wakes, FrameReceived, FrameLost, Land, Noise,
                   Loop, Boots, Crash, Elapse, vars, history
    <2> QED
      BY <2>1
  <1>7. pressed_for' \in Nat
    <2>1. UNCHANGED pressed_for \/ pressed_for' = 0 \/ pressed_for' = pressed_for + 1
      BY Zenon DEF Next, Pin, Buttons, Sends, Wakes, FrameReceived, FrameLost, Land, Noise,
                   Loop, Boots, Crash, Elapse, vars, history
    <2> QED
      BY <2>1
  <1>8. seen' \in BOOLEAN
    <2>1. UNCHANGED seen \/ seen' = (notified' \/ button \in {"debounce", "late"})
      BY Zenon DEF Next, Pin, Buttons, Sends, Wakes, FrameReceived, FrameLost, Land, Noise,
                   Loop, Boots, Crash, Elapse, vars, history
    <2> QED
      BY <2>1, Zenon
  <1> QED
    BY <1>1, <1>2, <1>3, <1>4, <1>5, <1>6, <1>7, <1>8

(* Every variable of the emergency stop keeps its type, RX_CHAN its         *)
(* capacity, whatever the bounds.                                           *)
THEOREM EStopTypeCorrect == Spec => []EStopTypeOK
  <1>1. Init => EStopTypeOK
    <2> SUFFICES ASSUME Init PROVE EStopTypeOK
      OBVIOUS
    <2>1. /\ edges = 0 /\ crashes = 0 /\ noise = 0 /\ lost_in_a_row = 1
          /\ silence = 0 /\ open_for = 0 /\ pressed_for = 0
      BY DEF Init
    <2>2. /\ edges \in 0 .. MaxEdges
          /\ crashes \in Nat /\ noise \in Nat /\ crashes + noise <= MaxFaults
          /\ lost_in_a_row \in {0, 1}
          /\ silence \in Nat /\ open_for \in Nat /\ pressed_for \in Nat
      BY <2>1
    <2>3. lossy \in BOOLEAN /\ seen \in BOOLEAN
      BY Zenon DEF Init
    <2> QED
      BY TypesInit, <2>2, <2>3 DEF EStopTypeOK
  <1>2. EStopTypeOK /\ [Next]_vars => EStopTypeOK'
    BY TypesStep, HistoryStep DEF EStopTypeOK
  <1> QED
    BY <1>1, <1>2, PTL DEF Spec

----------------------------------------------------------------------------
(* The host's view: what the loop has not yet reported is less than its     *)
(* iterations and the time its timer has run.                               *)
ReportInv ==
  pod_on => /\ host = View(machine)
            /\ host_silence <= ticks_since_send * TICK_INTERVAL + (TICK_INTERVAL - tick_in)

LEMMA Times ==
  ASSUME NEW n \in Nat, NEW m \in Nat, n <= m
  PROVE  /\ n * TICK_INTERVAL \in Nat
         /\ (n + 1) * TICK_INTERVAL = n * TICK_INTERVAL + TICK_INTERVAL
         /\ n * TICK_INTERVAL <= m * TICK_INTERVAL
  OBVIOUS

LEMMA ReportIterate ==
  ASSUME PodTypeOK, ReportInv, pod_on, NEW m \in Machine, Iterate(m)
  PROVE  ReportInv'
  <1>1. CASE ReportDue(m)
    BY <1>1 DEF Iterate, ReportInv
  <1>2. CASE ~ReportDue(m)
    <2>1. /\ machine' = m /\ tick_in' = TICK_INTERVAL
          /\ ticks_since_send' = ticks_since_send + 1
          /\ host' = host /\ host_silence' = host_silence
      BY <1>2 DEF Iterate
    <2>2. View(m) = View(machine)
      BY <1>2 DEF ReportDue, Changed, View
    <2>3. host_silence' <= ticks_since_send' * TICK_INTERVAL
      BY <2>1, Times DEF ReportInv, PodTypeOK
    <2> QED
      BY <2>1, <2>2, <2>3 DEF ReportInv, PodTypeOK
  <1> QED
    BY <1>1, <1>2

LEMMA ReportStep == PodTypeOK /\ ReportInv /\ [Next]_vars => ReportInv'
  <1> SUFFICES ASSUME PodTypeOK, ReportInv, [Next]_vars PROVE ReportInv'
    OBVIOUS
  <1>1. CASE Loop
    <2>1. MarkRx(machine) \in Machine /\ Tick(machine) \in Machine
      BY MachineOperators DEF PodTypeOK
    <2>2. pod_on /\ \E m \in Machine : Iterate(m)
      BY <1>1, <2>1, MachineOperators DEF Loop, LoopTick, LoopReceive
    <2> QED
      BY <2>2, ReportIterate
  <1>2. CASE Boots
    <2>1. host' = View(machine') /\ host_silence' = 0 /\ ticks_since_send' = 0
          /\ tick_in' = TICK_INTERVAL
      BY <1>2 DEF Boots, PodBoot
    <2> QED
      BY <2>1 DEF ReportInv
  <1>3. CASE Elapse
    <2>1. CASE ~pod_on
      BY <1>3, <2>1 DEF Elapse, PodElapse, ReportInv
    <2>2. CASE pod_on
      <3>1. /\ machine' = [machine EXCEPT !.since_rx = Older(@)]
            /\ tick_in' = tick_in - 1
            /\ UNCHANGED <<ticks_since_send, host>>
        BY <1>3, <2>2 DEF Elapse, PodElapse
      <3>2. View(machine') = View(machine)
        BY <3>1 DEF View, PodTypeOK, Machine
      <3>3. host_silence' = Older(host_silence)
        BY <1>3 DEF Elapse, PodElapse
      <3>4. host_silence' <= host_silence + 1
        BY <3>3 DEF Older, PodTypeOK
      <3>5. host_silence' \in Nat
        BY <3>3 DEF Older, PodTypeOK
      <3>6. ticks_since_send * TICK_INTERVAL \in Nat
        BY Times DEF PodTypeOK
      <3>7. /\ host_silence' <= ticks_since_send * TICK_INTERVAL + (TICK_INTERVAL - tick_in')
            /\ pod_on /\ host = View(machine)
        <4> DEFINE s == ticks_since_send * TICK_INTERVAL
        <4>1. host_silence <= s + (TICK_INTERVAL - tick_in) /\ host = View(machine)
          BY <2>2 DEF ReportInv
        <4>2. s \in Nat /\ tick_in \in Nat /\ host_silence \in Nat
          BY <3>6 DEF PodTypeOK
        <4> HIDE DEF s
        <4>3. host_silence' <= s + (TICK_INTERVAL - tick_in')
          BY <3>1, <3>4, <3>5, <4>1, <4>2
        <4> QED
          BY <2>2, <4>1, <4>3 DEF s
      <3> QED
        BY <3>1, <3>2, <3>7 DEF ReportInv
    <2> QED
      BY <2>1, <2>2
  <1>4. CASE PodDies
    BY <1>4 DEF PodDies, ReportInv
  <1>5. CASE UNCHANGED <<pod_on, machine, host, host_silence, ticks_since_send, tick_in>>
    BY <1>5 DEF ReportInv, View
  <1>6. CASE \/ Pin \/ Buttons \/ Sends \/ Wakes \/ FrameReceived \/ FrameLost
             \/ Noise \/ UNCHANGED vars
    <2>1. UNCHANGED <<pod_on, machine, host, host_silence, ticks_since_send, tick_in>>
      BY <1>6 DEF Pin, Buttons, Sends, Wakes, FrameReceived, FrameLost, Noise,
                  RadioReceives, podVars, vars
    <2> QED
      BY <1>5, <2>1
  <1>7. CASE Crash
    BY <1>4, <1>5, <1>7 DEF Crash, podVars
  <1> QED
    BY <1>1, <1>2, <1>3, <1>6, <1>7 DEF Next

(* A running pod has told the host what its machine is, and never stays     *)
(* silent for more than USB_HEARTBEAT_TICKS ticks: a stream of frames that  *)
(* keeps restarting the timer does not hold up the reports.                 *)
THEOREM HostIsCurrent == Spec => []HostCurrent
  <1>1. Init => ReportInv
    BY DEF Init, PodInit, ReportInv
  <1>2. PodTypeOK /\ ReportInv => HostCurrent
    <2> SUFFICES ASSUME PodTypeOK, ReportInv, pod_on PROVE HostCurrent
      BY DEF HostCurrent
    <2>1. (ticks_since_send + 1) * TICK_INTERVAL <= USB_HEARTBEAT_TICKS * TICK_INTERVAL
      BY Times DEF PodTypeOK
    <2>2. host_silence <= (ticks_since_send + 1) * TICK_INTERVAL
      BY Times DEF PodTypeOK, ReportInv
    <2> QED
      BY <2>1, <2>2, Times DEF HostCurrent, ReportInv, PodTypeOK
  <1> QED
    BY Typed, ReportStep, <1>1, <1>2, PTL DEF Spec

----------------------------------------------------------------------------
(* A step of the pod is a step of the watchdog, or none. *)
watch == IF ~pod_on THEN "off" ELSE IF machine.safety = "Armed" THEN "armed" ELSE "tripped"

LEMMA PromiseStep ==
  PodTypeOK /\ SilenceInv /\ [Next]_vars => [Promise!Next]_(Promise!watchVars)
  <1> SUFFICES ASSUME PodTypeOK, SilenceInv, [Next]_vars
               PROVE  Promise!Next \/ UNCHANGED <<watch, machine.since_rx>>
    BY DEF Promise!watchVars, watch
  <1> USE DEF watch
  <1>0. machine \in Machine /\ HEARTBEAT_TIMEOUT + TICK_INTERVAL \in Nat
    BY DEF PodTypeOK
  <1>1. CASE LoopReceive /\ Loop
    <2>1. /\ pod_on /\ pod_on' = pod_on
          /\ \/ machine' = HeartbeatRx(MarkRx(machine))
             \/ machine' = StopRx(MarkRx(machine))
             \/ machine' = MarkRx(machine)
      BY <1>1 DEF LoopReceive, Iterate
    <2>2. /\ machine'.since_rx = 0
          /\ machine'.safety \in {machine.safety, "Tripped"}
      BY <1>0, <2>1 DEF HeartbeatRx, StopRx, MarkRx, Machine
    <2>3. Promise!Hear
      BY <1>0, <2>1, <2>2 DEF Promise!Hear, Machine, SafetyState
    <2> QED
      BY <2>3 DEF Promise!Next
  <1>2. CASE LoopTick /\ Loop
    <2>1. pod_on /\ pod_on' = pod_on /\ machine' = Tick(machine)
      BY <1>2 DEF LoopTick, Iterate
    <2>2. /\ machine'.since_rx = machine.since_rx
          /\ machine'.safety \in {machine.safety, "Tripped"}
      BY <1>0, <2>1 DEF Tick, Machine
    <2>3. Promise!Trip \/ UNCHANGED <<watch, machine.since_rx>>
      BY <1>0, <2>1, <2>2 DEF Promise!Trip, Machine, SafetyState
    <2> QED
      BY <2>3 DEF Promise!Next
  <1>3. CASE Elapse /\ pod_on
    <2>1. /\ pod_on' = pod_on /\ tick_in > 0
          /\ machine' = [machine EXCEPT !.since_rx = Older(@)]
      BY <1>3 DEF Elapse, PodElapse, PodIdle
    <2>2. /\ machine'.since_rx = Older(machine.since_rx)
          /\ machine'.safety = machine.safety
      BY <1>0, <2>1 DEF Machine
    <2>3. CASE machine'.since_rx = machine.since_rx
      BY <2>1, <2>2, <2>3
    <2>4. CASE machine'.since_rx = machine.since_rx + 1
      <3>1. machine.safety = "Armed" => machine.since_rx < HEARTBEAT_TIMEOUT + TICK_INTERVAL
        BY <1>0, <2>1 DEF SilenceInv, Machine
      <3>2. Promise!Age
        BY <1>0, <1>3, <2>1, <2>2, <2>4, <3>1 DEF Promise!Age, Machine, SafetyState
      <3> QED
        BY <3>2 DEF Promise!Next
    <2> QED
      BY <2>2, <2>3, <2>4 DEF Older
  <1>4. CASE Elapse /\ ~pod_on
    BY <1>4 DEF Elapse, PodElapse
  <1>5. CASE Boots
    <2>1. PICK t \in BootTimes : machine' = New(t)
      BY <1>5 DEF Boots, PodBoot
    <2>2. t \in 0 .. HEARTBEAT_TIMEOUT + TICK_INTERVAL
      OBVIOUS
    <2>3. Promise!Boot
      BY <1>5, <2>1, <2>2 DEF Boots, PodBoot, New, Promise!Boot, Promise!Fresh
    <2> QED
      BY <2>3 DEF Promise!Next
  <1>6. CASE Crash
    <2>1. CASE PodDies
      <3>1. Promise!Fail
        BY <2>1 DEF PodDies, Promise!Fail
      <3> QED
        BY <3>1 DEF Promise!Next
    <2> QED
      BY <1>6, <2>1 DEF Crash, podVars
  <1>7. CASE \/ Pin \/ Buttons \/ Sends \/ Wakes \/ FrameReceived \/ FrameLost
             \/ Noise \/ UNCHANGED vars
    <2>1. UNCHANGED <<pod_on, machine>>
      BY <1>7 DEF Pin, Buttons, Sends, Wakes, FrameReceived, FrameLost, Noise,
                  RadioReceives, podVars, vars
    <2> QED
      BY <2>1
  <1> QED
    BY <1>1, <1>2, <1>3, <1>4, <1>5, <1>6, <1>7 DEF Next, Loop

(* The pod implements Watchdog: the machine of safety.rs, driven by a loop  *)
(* that ticks and receives, with crashes and boots, is never armed longer   *)
(* than the timeout and one tick without a frame, and its trips are latched.*)
THEOREM PodIsWatchdog == Spec => KeepsPromise
  <1>1. Init => Promise!Init
    <2> SUFFICES ASSUME Init PROVE Promise!Init
      OBVIOUS
    <2>1. PICK t \in BootTimes : machine = New(t)
      BY DEF Init, PodInit
    <2>2. t \in 0 .. HEARTBEAT_TIMEOUT + TICK_INTERVAL
      OBVIOUS
    <2> QED
      BY <2>1, <2>2 DEF Init, PodInit, New, Promise!Init, Promise!Fresh
  <1> QED
    BY Typed, SilenceInvariant, PromiseStep, <1>1, PTL DEF Spec, KeepsPromise, Promise!Spec
=============================================================================
