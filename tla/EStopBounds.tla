---------------------------- MODULE EStopBounds ----------------------------
(* How long the emergency stop may take, and when it may not trip: for      *)
(* every timeout, tick, interval, jitter, capacity and number of faults     *)
(* that fit together as the inequalities below say.                         *)
EXTENDS EStopProofs

----------------------------------------------------------------------------
(* The host's copy of the machine outlives the pod, and is at least as old  *)
(* as the loop's timer.                                                     *)
HostInv == /\ host = View(machine)
           /\ host_silence + tick_in >= TICK_INTERVAL

(* From here no Heartbeat will reach the loop: none can be sent, and none   *)
(* is on its way.                                                           *)
NoHeartbeat == /\ ~(handheld_on /\ LOOP_CLOSED)
               /\ handheld_on => heartbeat = "asleep"
               /\ air \in Seq({"Stop"})
               /\ pod_on => rx_chan \in Seq({"Stop"})

(* While the host does not stop the rover, that has lasted no longer than   *)
(* the pod's last reception, or than the timeout and the host's last report *)
(* when the pod is dead.                                                    *)
Bounded(n) ==
  ~HostStops => n <= IF pod_on THEN machine.since_rx ELSE HEARTBEAT_TIMEOUT + host_silence

Calm(n) == noise = 0 /\ n > 0 => NoHeartbeat /\ Bounded(n)

OpenInv == Calm(open_for)

(* A press that run() can notice is noticed before a whole unit has passed. *)
PressInv ==
  /\ pressed_for > 0 => pin_high
  /\ handheld_on /\ pin_high /\ seen =>
       notified \/ button \in {"debounce", "late"} \/ ~LOOP_CLOSED
  /\ handheld_on /\ seen /\ pressed_for > 0 =>
       ~LOOP_CLOSED \/ (button = "late" /\ pressed_for = 1)

SeenInv == seen /\ pressed_for > 0 => Calm(pressed_for - 1)

USE SafetyAssumption, PodAssumption, HandheldAssumption, EStopAssumption

----------------------------------------------------------------------------
(* The ages are counted far enough. *)
LEMMA AgeLimitFar ==
  /\ AgeLimit \in Nat /\ USB_HEARTBEAT_TICKS * TICK_INTERVAL \in Nat
  /\ AgeLimit > HEARTBEAT_TIMEOUT + TICK_INTERVAL
  /\ AgeLimit > USB_HEARTBEAT_TICKS * TICK_INTERVAL
  <1>1. /\ USB_HEARTBEAT_TICKS * TICK_INTERVAL \in Nat
        /\ TICK_INTERVAL <= USB_HEARTBEAT_TICKS * TICK_INTERVAL
        /\ TICK_INTERVAL * USB_HEARTBEAT_TICKS = USB_HEARTBEAT_TICKS * TICK_INTERVAL
    <2>1. 1 * TICK_INTERVAL <= USB_HEARTBEAT_TICKS * TICK_INTERVAL
      BY Times
    <2> QED
      BY <2>1, Times
  <1> QED
    BY <1>1 DEF AgeLimit

LEMMA HostIterate ==
  ASSUME PodTypeOK, HostInv, NEW m \in Machine, Iterate(m)
  PROVE  HostInv'
  <1>1. tick_in' = TICK_INTERVAL /\ host_silence' \in Nat
    BY DEF Iterate, PodTypeOK
  <1>2. host' = View(machine')
    BY DEF Iterate, ReportDue, Changed, View, HostInv
  <1>3. \A h \in Nat : h + TICK_INTERVAL >= TICK_INTERVAL
    OBVIOUS
  <1>4. host_silence' + tick_in' >= TICK_INTERVAL
    BY <1>1, <1>3
  <1> QED
    BY <1>2, <1>4 DEF HostInv

LEMMA HostStep == PodTypeOK /\ HostInv /\ [Next]_vars => HostInv'
  <1> SUFFICES ASSUME PodTypeOK, HostInv, [Next]_vars PROVE HostInv'
    OBVIOUS
  <1>1. CASE Loop
    <2>1. MarkRx(machine) \in Machine /\ Tick(machine) \in Machine
      BY MachineOperators DEF PodTypeOK
    <2>2. pod_on /\ \E m \in Machine : Iterate(m)
      BY <1>1, <2>1, MachineOperators DEF Loop, LoopTick, LoopReceive
    <2> QED
      BY <2>2, HostIterate
  <1>2. CASE Boots
    BY <1>2 DEF Boots, PodBoot, HostInv
  <1>3. CASE Elapse
    <2>1. View(machine') = View(machine) /\ host' = host
      BY <1>3 DEF Elapse, PodElapse, View, PodTypeOK, Machine
    <2>2. host_silence' + tick_in' >= TICK_INTERVAL
      <3>1. host_silence' = Older(host_silence) /\ tick_in' \in {tick_in, tick_in - 1}
        BY <1>3 DEF Elapse, PodElapse
      <3>2. tick_in' \in Nat
        BY <1>3, <3>1 DEF Elapse, PodElapse, PodIdle, PodTypeOK
      <3>3. /\ host_silence + tick_in >= TICK_INTERVAL
            /\ host_silence \in Nat /\ tick_in \in Nat
        BY DEF HostInv, PodTypeOK
      <3>4. /\ host_silence' \in Nat
            /\ host_silence' = host_silence + 1 \/ host_silence' >= TICK_INTERVAL
        BY <3>1, <3>3, AgeLimitFar DEF Older
      <3> QED
        BY <3>1, <3>2, <3>3, <3>4
    <2> QED
      BY <2>1, <2>2 DEF HostInv
  <1>4. CASE UNCHANGED <<machine, host, host_silence, tick_in>>
    BY <1>4 DEF HostInv, View
  <1>5. CASE \/ Pin \/ Buttons \/ Sends \/ Wakes \/ FrameReceived \/ FrameLost
             \/ Noise \/ Crash \/ UNCHANGED vars
    <2>1. UNCHANGED <<machine, host, host_silence, tick_in>>
      BY <1>5 DEF Pin, Buttons, Sends, Wakes, FrameReceived, FrameLost, Noise,
                  RadioReceives, Crash, PodDies, podVars, vars
    <2> QED
      BY <1>4, <2>1
  <1> QED
    BY <1>1, <1>2, <1>3, <1>5 DEF Next

LEMMA HostInvariant == Spec => []HostInv
  <1>1. Init => HostInv
    BY DEF Init, PodInit, HostInv
  <1> QED
    BY Typed, HostStep, <1>1, PTL DEF Spec

----------------------------------------------------------------------------
(* What the pod is when the host does not stop the rover. *)
PodInv == PodTypeOK /\ SilenceInv /\ HostInv /\ HostCurrent

LEMMA PodInvariant == Spec => []PodInv
  BY Typed, SilenceInvariant, HostInvariant, HostIsCurrent, PTL DEF PodInv

LEMMA NotStopped ==
  ASSUME PodInv, ~HostStops
  PROVE  /\ machine.safety = "Armed" /\ machine.link = "Live"
         /\ machine.since_rx + tick_in <= HEARTBEAT_TIMEOUT + TICK_INTERVAL
         /\ machine.since_rx <= HEARTBEAT_TIMEOUT + host_silence
         /\ host_silence <= USB_HEARTBEAT_TICKS * TICK_INTERVAL
  <1>1. machine.safety = "Armed" /\ machine.link = "Live"
    BY DEF PodInv, HostInv, HostStops, View, PodTypeOK, Machine, SafetyState, LinkState
  <1>2. machine.since_rx + tick_in <= HEARTBEAT_TIMEOUT + TICK_INTERVAL
    BY <1>1 DEF PodInv, SilenceInv
  <1>3. /\ machine.since_rx \in Nat /\ tick_in \in Nat /\ host_silence \in Nat
        /\ host_silence + tick_in >= TICK_INTERVAL
    BY DEF PodInv, PodTypeOK, Machine, HostInv
  <1>4. host_silence <= USB_HEARTBEAT_TICKS * TICK_INTERVAL
    BY <1>3, AgeLimitFar DEF HostStops
  <1> QED
    BY <1>1, <1>2, <1>3, <1>4

LEMMA BoundedFrame ==
  ASSUME NEW n \in Nat, Bounded(n), UNCHANGED <<pod_on, machine, host, host_silence>>
  PROVE  Bounded(n)'
  BY DEF Bounded, HostStops

LEMMA BoundedZero == PodTypeOK => Bounded(0)
  BY DEF Bounded, PodTypeOK, Machine

----------------------------------------------------------------------------
(* Once no Heartbeat can reach the loop, that stays so while LOOP_CLOSED is *)
(* false or the handheld dead: each action in turn.                         *)
LEMMA NoHeartbeatHandheld ==
  ASSUME NoHeartbeat, ~(handheld_on' /\ LOOP_CLOSED'),
         Pin \/ Buttons \/ Sends \/ Wakes
  PROVE  NoHeartbeat'
  <1>1. handheld_on' = handheld_on /\ (handheld_on => heartbeat' = "asleep")
    BY DEF NoHeartbeat, Pin, PinChanges, Buttons, EnableInterrupt, WaitAny, Sample, Sends,
           OnOpen, HeartbeatSends, Wakes, HeartbeatWakes, LoopClosed
  <1>2. air' \in Seq({"Stop"})
    <2>1. air' = air \/ air' = Append(air, "Stop")
      BY DEF NoHeartbeat, Pin, PinChanges, Buttons, EnableInterrupt, WaitAny, Sample, Sends,
             OnOpen, HeartbeatSends, Sent, Wakes, HeartbeatWakes
    <2> QED
      BY <2>1 DEF NoHeartbeat
  <1>3. UNCHANGED <<pod_on, rx_chan>>
    BY DEF Pin, Buttons, Sends, Wakes, podVars
  <1> QED
    BY <1>1, <1>2, <1>3 DEF NoHeartbeat

LEMMA NoHeartbeatLand ==
  ASSUME NoHeartbeat, FrameReceived \/ FrameLost
  PROVE  NoHeartbeat'
  <1>1. air' \in Seq({"Stop"}) /\ Head(air) = "Stop"
    <2>1. air \in Seq({"Stop"}) /\ air # <<>> /\ air' = Tail(air)
      BY DEF NoHeartbeat, FrameReceived, FrameLost, Land
    <2> QED
      BY <2>1
  <1>2. UNCHANGED <<handheld_on, LOOP_CLOSED, heartbeat>>
    BY DEF FrameReceived, FrameLost, Land
  <1>3. pod_on' = pod_on /\ rx_chan' \in {rx_chan, Append(rx_chan, "Stop")}
    BY <1>1 DEF FrameReceived, FrameLost, RadioReceives, Queued, Classify, podVars
  <1>4. pod_on => Append(rx_chan, "Stop") \in Seq({"Stop"})
    BY DEF NoHeartbeat
  <1> QED
    BY <1>1, <1>2, <1>3, <1>4 DEF NoHeartbeat

LEMMA NoHeartbeatPod ==
  ASSUME NoHeartbeat, Loop \/ Boots \/ Crash \/ UNCHANGED vars
  PROVE  NoHeartbeat'
  <1>1. /\ UNCHANGED <<LOOP_CLOSED, heartbeat, air>>
        /\ handheld_on' = handheld_on \/ handheld_on' = FALSE
    BY DEF Loop, Boots, Crash, BatteryDies, handheldVars, vars
  <1>2. pod_on' => rx_chan' \in Seq({"Stop"})
    <2>1. pod_on' /\ ~Boots => pod_on /\ rx_chan' \in {rx_chan, Tail(rx_chan)}
                               /\ (rx_chan' = rx_chan \/ rx_chan # <<>>)
      BY DEF Loop, LoopTick, LoopReceive, Iterate, Crash, PodDies, podVars, vars
    <2>2. Boots => rx_chan' = <<>>
      BY DEF Boots, PodBoot
    <2>3. pod_on /\ rx_chan # <<>> => Tail(rx_chan) \in Seq({"Stop"})
      BY DEF NoHeartbeat
    <2>4. <<>> \in Seq({"Stop"}) /\ (pod_on => rx_chan \in Seq({"Stop"}))
      BY DEF NoHeartbeat
    <2>5. CASE Boots
      BY <2>2, <2>4, <2>5
    <2>6. CASE ~Boots
      BY <2>1, <2>3, <2>4, <2>6
    <2> QED
      BY <2>5, <2>6
  <1> QED
    BY <1>1, <1>2 DEF NoHeartbeat

LEMMA NoHeartbeatStep ==
  ASSUME NoHeartbeat, [Next]_vars, ~Elapse, noise' = 0, noise \in Nat,
         ~(handheld_on' /\ LOOP_CLOSED')
  PROVE  NoHeartbeat'
  <1>1. ~Noise
    BY DEF Noise
  <1> QED
    BY <1>1, NoHeartbeatHandheld, NoHeartbeatLand, NoHeartbeatPod DEF Next

(* A loop that takes a Stop, or boots, stops the host; a tick that does not *)
(* stop it has changed nothing.                                             *)
LEMMA BoundedLoop ==
  ASSUME PodInv, HostInv', NEW n \in Nat, Bounded(n), NoHeartbeat, Loop
  PROVE  Bounded(n)'
  <1> SUFFICES ASSUME ~HostStops' PROVE Bounded(n)'
    BY DEF Bounded
  <1>1. machine'.safety # "Tripped"
    BY DEF HostInv, HostStops, View
  <1>2. machine \in Machine /\ pod_on /\ pod_on' = pod_on
    BY DEF PodInv, PodTypeOK, Loop, LoopTick, LoopReceive, Iterate
  <1>3. ~LoopReceive
    <2>1. SUFFICES ASSUME LoopReceive PROVE FALSE
      OBVIOUS
    <2>2. rx_chan \in Seq({"Stop"}) /\ rx_chan # <<>>
      BY <1>2, <2>1 DEF NoHeartbeat, LoopReceive
    <2>3. Head(rx_chan) = "Stop"
      BY <2>2
    <2>4. machine' = StopRx(MarkRx(machine))
      BY <2>1, <2>3 DEF LoopReceive, Iterate
    <2> QED
      BY <1>1, <1>2, <2>4 DEF StopRx, MarkRx, Machine
  <1>4. machine' = machine
    BY <1>1, <1>2, <1>3 DEF Loop, LoopTick, Iterate, Tick, Machine
  <1>5. ~HostStops
    <2>1. host = host' /\ host = View(machine)
      BY <1>4 DEF PodInv, HostInv, View
    <2>2. ~(host_silence > USB_HEARTBEAT_TICKS * TICK_INTERVAL)
      BY <1>2, AgeLimitFar DEF PodInv, PodTypeOK, HostCurrent
    <2> QED
      BY <2>1, <2>2 DEF HostStops
  <1> QED
    BY <1>2, <1>4, <1>5 DEF Bounded

LEMMA BoundedStep ==
  ASSUME PodInv, HostInv', NEW n \in Nat, Bounded(n), NoHeartbeat, [Next]_vars, ~Elapse
  PROVE  Bounded(n)'
  <1>1. CASE Loop
    BY <1>1, BoundedLoop
  <1>2. CASE Boots
    BY <1>2 DEF Boots, PodBoot, New, HostInv, HostStops, View, Bounded
  <1>3. CASE PodDies
    <2>1. CASE HostStops
      BY <1>3, <2>1 DEF PodDies, Bounded, HostStops
    <2>2. CASE ~HostStops
      <3>1. n <= machine.since_rx /\ machine.since_rx <= HEARTBEAT_TIMEOUT + host_silence
        BY <1>3, <2>2, NotStopped DEF Bounded, PodDies
      <3>2. machine.since_rx \in Nat /\ host_silence \in Nat
        BY DEF PodInv, PodTypeOK, Machine
      <3>3. n <= HEARTBEAT_TIMEOUT + host_silence
        BY <3>1, <3>2
      <3> QED
        BY <1>3, <3>3 DEF Bounded, PodDies
    <2> QED
      BY <2>1, <2>2
  <1>4. CASE \/ Pin \/ Buttons \/ Sends \/ Wakes \/ FrameReceived \/ FrameLost
             \/ Noise \/ (Crash /\ ~PodDies) \/ UNCHANGED vars
    <2>1. UNCHANGED <<pod_on, machine, host, host_silence>>
      BY <1>4 DEF Pin, Buttons, Sends, Wakes, FrameReceived, FrameLost, Noise,
                  RadioReceives, Crash, podVars, vars
    <2> QED
      BY <2>1, BoundedFrame
  <1> QED
    BY <1>1, <1>2, <1>3, <1>4 DEF Next

(* A unit passes: whatever was sent before the loop opened is out of the    *)
(* air, and out of the channel.                                             *)
LEMMA ElapseQuiets ==
  ASSUME Elapse, ~(handheld_on /\ LOOP_CLOSED)
  PROVE  NoHeartbeat'
  <1>1. /\ UNCHANGED <<handheld_on, LOOP_CLOSED, heartbeat, air, pod_on, rx_chan>>
        /\ air = <<>> /\ (handheld_on => heartbeat = "asleep") /\ (pod_on => rx_chan = <<>>)
    BY DEF Elapse, HandheldElapse, HandheldIdle, PodElapse, PodIdle
  <1>2. <<>> \in Seq({"Stop"})
    OBVIOUS
  <1> QED
    BY <1>1, <1>2 DEF NoHeartbeat

LEMMA ElapseBounds ==
  ASSUME PodInv, NEW n \in Nat, Bounded(n), Elapse
  PROVE  Bounded(n + 1)'
  <1> SUFFICES ASSUME ~HostStops' PROVE Bounded(n + 1)'
    BY DEF Bounded
  <1>1. /\ host' = host /\ host_silence' = Older(host_silence) /\ pod_on' = pod_on
        /\ machine' = IF pod_on THEN [machine EXCEPT !.since_rx = Older(@)] ELSE machine
    BY DEF Elapse, PodElapse
  <1>2. machine.since_rx \in Nat /\ host_silence \in Nat
    BY DEF PodInv, PodTypeOK, Machine
  <1>3. host_silence' = host_silence + 1 /\ ~HostStops
    BY <1>1, <1>2, AgeLimitFar DEF Older, HostStops
  <1>4. CASE pod_on
    <2>1. n <= machine.since_rx /\ machine.since_rx < AgeLimit
      BY <1>2, <1>3, <1>4, NotStopped, AgeLimitFar DEF Bounded, PodInv, PodTypeOK
    <2>2. machine'.since_rx = machine.since_rx + 1
      BY <1>1, <1>2, <1>4, <2>1 DEF Older, PodInv, PodTypeOK, Machine
    <2>3. n + 1 <= machine'.since_rx
      BY <1>2, <2>1, <2>2
    <2> QED
      BY <1>1, <1>4, <2>3 DEF Bounded
  <1>5. CASE ~pod_on
    <2>1. n <= HEARTBEAT_TIMEOUT + host_silence
      BY <1>3, <1>5 DEF Bounded
    <2>2. n + 1 <= HEARTBEAT_TIMEOUT + host_silence'
      BY <1>2, <1>3, <2>1
    <2> QED
      BY <1>1, <1>5, <2>2 DEF Bounded
  <1> QED
    BY <1>4, <1>5

LEMMA CalmElapse ==
  ASSUME PodInv, PodInv', NEW n \in Nat, NEW k \in Nat, k <= n + 1, Calm(n), noise' = 0,
         Elapse, ~(handheld_on /\ LOOP_CLOSED)
  PROVE  NoHeartbeat' /\ Bounded(k)'
  <1>1. noise = 0
    BY DEF Elapse
  <1>2. Bounded(n)
    BY <1>1, BoundedZero DEF Calm, PodInv
  <1>3. Bounded(n + 1)'
    BY <1>2, ElapseBounds
  <1>4. Bounded(k)'
    <2>1. \A x \in Nat : n + 1 <= x => k <= x
      OBVIOUS
    <2>2. machine'.since_rx \in Nat /\ HEARTBEAT_TIMEOUT + host_silence' \in Nat
      <3>1. machine'.since_rx \in Nat /\ host_silence' \in Nat
        BY DEF PodInv, PodTypeOK, Machine
      <3>2. \A x \in Nat : HEARTBEAT_TIMEOUT + x \in Nat
        OBVIOUS
      <3> QED
        BY <3>1, <3>2
    <2> QED
      BY <1>3, <2>1, <2>2 DEF Bounded
  <1> QED
    BY <1>4, ElapseQuiets

LEMMA NoiseGrows == [Next]_vars /\ noise \in Nat /\ noise' = 0 => noise = 0
  <1> SUFFICES ASSUME [Next]_vars, noise \in Nat, noise' = 0 PROVE noise = 0
    OBVIOUS
  <1>1. noise' = noise \/ noise' = noise + 1
    BY Zenon DEF Next, Pin, Buttons, Sends, Wakes, FrameReceived, FrameLost, Land, Noise,
                 Loop, Boots, Crash, Elapse, vars
  <1> QED
    BY <1>1

(* With n fixed, nothing but time takes the handheld's silence further.     *)
LEMMA CalmStep ==
  ASSUME PodInv, HostInv', noise \in Nat, NEW n \in Nat, Calm(n), [Next]_vars, ~Elapse,
         n > 0 => ~(handheld_on' /\ LOOP_CLOSED')
  PROVE  Calm(n)'
  <1> SUFFICES ASSUME noise' = 0, n > 0 PROVE NoHeartbeat' /\ Bounded(n)'
    BY DEF Calm
  <1>1. NoHeartbeat /\ Bounded(n)
    BY NoiseGrows DEF Calm
  <1> QED
    BY <1>1, NoHeartbeatStep, BoundedStep

LEMMA OpenInvStep ==
  EStopTypeOK /\ PodInv /\ PodInv' /\ OpenInv /\ [Next]_vars => OpenInv'
  <1> SUFFICES ASSUME EStopTypeOK, PodInv, PodInv', OpenInv, [Next]_vars,
                      noise' = 0, open_for' > 0
               PROVE  NoHeartbeat' /\ Bounded(open_for)'
    BY DEF OpenInv, Calm
  <1>1. PICK n \in Nat : n = open_for
    BY DEF EStopTypeOK
  <1>2. Calm(n) /\ noise \in Nat
    BY <1>1 DEF OpenInv, EStopTypeOK
  <1>3. CASE Elapse
    <2>1. ~(handheld_on /\ LOOP_CLOSED) /\ open_for' \in {n, n + 1}
      BY <1>1, <1>3 DEF Elapse
    <2>2. PICK k \in Nat : k = open_for' /\ k <= n + 1
      BY <1>1, <2>1
    <2>3. NoHeartbeat' /\ Bounded(k)'
      BY <1>2, <1>3, <2>1, <2>2, CalmElapse
    <2> QED
      BY <2>2, <2>3 DEF Bounded
  <1>4. CASE ~Elapse
    <2>1. UNCHANGED <<open_for, LOOP_CLOSED, handheld_on>>
      <3>1. CASE Buttons
        <4>1. open_for' = IF LOOP_CLOSED' # LOOP_CLOSED THEN 0 ELSE open_for
          BY <3>1 DEF Buttons
        <4>2. LOOP_CLOSED' = LOOP_CLOSED
          BY <4>1
        <4> QED
          BY <3>1, <4>1, <4>2 DEF Buttons, EnableInterrupt, WaitAny, Sample
      <3>2. CASE Crash
        BY <3>2 DEF Crash, handheldVars
      <3>3. CASE Pin \/ Sends \/ Wakes
        BY <3>3 DEF Pin, PinChanges, Sends, OnOpen, HeartbeatSends, Wakes, HeartbeatWakes,
                    history
      <3>4. CASE FrameReceived \/ FrameLost
        BY <3>4 DEF FrameReceived, FrameLost, Land
      <3>5. CASE Noise \/ Loop \/ Boots \/ UNCHANGED vars
        BY <3>5 DEF Noise, Loop, Boots, handheldVars, history, vars
      <3> QED
        BY <1>4, <3>1, <3>2, <3>3, <3>4, <3>5 DEF Next
    <2>3. NoHeartbeat /\ Bounded(n)
      BY <1>1, <1>2, <2>1, NoiseGrows DEF Calm
    <2>4. Calm(n)'
      BY <1>2, <1>4, <2>1, <2>3, CalmStep DEF NoHeartbeat, PodInv
    <2> QED
      BY <1>1, <2>1, <2>4 DEF Calm, Bounded
  <1> QED
    BY <1>3, <1>4

LEMMA CalmEnds ==
  ASSUME PodInv, NEW n \in Nat, Bounded(n),
         n > HEARTBEAT_TIMEOUT + USB_HEARTBEAT_TICKS * TICK_INTERVAL
  PROVE  HostStops
  <1> SUFFICES ASSUME ~HostStops PROVE FALSE
    OBVIOUS
  <1>1. machine.since_rx \in Nat /\ host_silence \in Nat
    BY DEF PodInv, PodTypeOK, Machine
  <1>2. n <= HEARTBEAT_TIMEOUT + host_silence
    BY <1>1, NotStopped DEF Bounded
  <1> QED
    BY <1>1, <1>2, NotStopped, AgeLimitFar

(* A loop seen open, or a handheld dead, for the timeout and a report's     *)
(* period stops the rover.  The worst case: the last Heartbeat is taken as  *)
(* the loop opens, the pod dies when it is about to trip, and the host      *)
(* waits for its reports.                                                   *)
THEOREM OpenLoopStops ==
  ASSUME SettleTime > HEARTBEAT_TIMEOUT + USB_HEARTBEAT_TICKS * TICK_INTERVAL
  PROVE  Spec => []LoopOpenStops
  <1>1. Init => OpenInv
    BY DEF Init, OpenInv, Calm
  <1>2. EStopTypeOK /\ PodInv /\ OpenInv => LoopOpenStops
    <2> SUFFICES ASSUME EStopTypeOK, PodInv, OpenInv, open_for >= SettleTime, noise = 0
                 PROVE  HostStops
      BY DEF LoopOpenStops
    <2>1. /\ open_for \in Nat /\ open_for > 0
          /\ open_for > HEARTBEAT_TIMEOUT + USB_HEARTBEAT_TICKS * TICK_INTERVAL
      BY AgeLimitFar DEF EStopTypeOK
    <2>2. Bounded(open_for)
      BY <2>1 DEF OpenInv, Calm
    <2>3. PICK n \in Nat : n = open_for
      BY <2>1
    <2> QED
      BY <2>1, <2>2, <2>3, CalmEnds
  <1> QED
    BY EStopTypeCorrect, PodInvariant, OpenInvStep, <1>1, <1>2, PTL DEF Spec

----------------------------------------------------------------------------
(* run() answers a press it can notice before a second unit has passed.     *)
LEMMA PressFrame ==
  ASSUME PressInv, UNCHANGED <<pin_high, pressed_for, seen, LOOP_CLOSED, notified, button>>,
         handheld_on' => handheld_on
  PROVE  PressInv'
  BY Zenon DEF PressInv

LEMMA PressButtons == PressInv /\ Buttons => PressInv'
  <1> SUFFICES ASSUME PressInv, Buttons PROVE PressInv'
    OBVIOUS
  <1>1. UNCHANGED <<pin_high, pressed_for, seen, handheld_on>>
    BY DEF Buttons, EnableInterrupt, WaitAny, Sample
  <1>2. CASE EnableInterrupt
    <2>1. UNCHANGED <<notified, LOOP_CLOSED>> /\ button = "enable"
      BY <1>2 DEF EnableInterrupt
    <2> QED
      BY <1>1, <2>1 DEF PressInv
  <1>3. CASE WaitAny
    <2>1. UNCHANGED LOOP_CLOSED /\ button = "wait" /\ button' = "debounce"
      BY <1>3 DEF WaitAny
    <2> QED
      BY <1>1, <2>1 DEF PressInv
  <1>4. CASE Sample
    <2>1. LOOP_CLOSED' = ~pin_high
      BY <1>4 DEF Sample, Sampled
    <2> QED
      BY <1>1, <2>1, Zenon DEF PressInv
  <1> QED
    BY <1>2, <1>3, <1>4 DEF Buttons

LEMMA PressElapse == EStopTypeOK /\ PressInv /\ Elapse => PressInv'
  <1> SUFFICES ASSUME EStopTypeOK, PressInv, Elapse PROVE PressInv'
    OBVIOUS
  <1>1. UNCHANGED <<pin_high, seen, handheld_on, LOOP_CLOSED, notified>>
    BY DEF Elapse, HandheldElapse
  <1>2. /\ handheld_on => button = "debounce" \/ (button = "wait" /\ ~notified)
        /\ button' = IF handheld_on /\ button = "debounce" THEN "late" ELSE button
    BY DEF Elapse, HandheldElapse, HandheldIdle
  <1>3. pressed_for \in Nat /\ pressed_for' \in {0, pressed_for, pressed_for + 1}
        /\ (pressed_for' # 0 => handheld_on /\ pin_high)
    BY DEF Elapse, EStopTypeOK
  <1>4. pressed_for' > 0 => pin_high'
    BY <1>1, <1>3
  <1>5. handheld_on' /\ pin_high' /\ seen' =>
          notified' \/ button' \in {"debounce", "late"} \/ ~LOOP_CLOSED'
    BY <1>1, <1>2 DEF PressInv
  <1>6. ASSUME handheld_on', seen', pressed_for' > 0
        PROVE  ~LOOP_CLOSED' \/ (button' = "late" /\ pressed_for' = 1)
    <2>1. handheld_on /\ seen /\ pin_high
      BY <1>1, <1>4, <1>6
    <2>2. CASE pressed_for = 0
      <3>1. pressed_for' = 1
        BY <1>3, <1>6, <2>2
      <3>2. ~LOOP_CLOSED \/ button' = "late"
        BY <1>2, <2>1 DEF PressInv
      <3> QED
        BY <1>1, <3>1, <3>2
    <2>3. CASE pressed_for > 0
      BY <1>1, <1>2, <2>1, <2>3 DEF PressInv
    <2> QED
      BY <1>3, <2>2, <2>3
  <1> QED
    BY <1>4, <1>5, <1>6 DEF PressInv

LEMMA PressStep == EStopTypeOK /\ PressInv /\ [Next]_vars => PressInv'
  <1> SUFFICES ASSUME EStopTypeOK, PressInv, [Next]_vars PROVE PressInv'
    OBVIOUS
  <1>1. CASE Pin
    <2>1. pressed_for' = 0 /\ button' = button
          /\ seen' = (notified' \/ button \in {"debounce", "late"})
      BY <1>1, Zenon DEF Pin, PinChanges
    <2>2. ~(pressed_for' > 0)
      BY <2>1
    <2> QED
      BY <2>1, <2>2, Zenon DEF PressInv
  <1>2. CASE Sends
    <2>1. UNCHANGED <<pin_high, pressed_for, seen, handheld_on, LOOP_CLOSED, notified>>
      BY <1>2 DEF Sends, OnOpen, HeartbeatSends
    <2>2. button' = button \/ button = "burst"
      BY <1>2 DEF Sends, OnOpen, HeartbeatSends
    <2> QED
      BY <2>1, <2>2 DEF PressInv
  <1>3. CASE Crash
    <2>1. UNCHANGED <<pin_high, pressed_for, seen, LOOP_CLOSED, notified, button>>
      BY <1>3 DEF Crash, BatteryDies, handheldVars
    <2>2. handheld_on' => handheld_on
      BY <1>3 DEF Crash, BatteryDies, handheldVars
    <2> QED
      BY <2>1, <2>2, PressFrame
  <1>4. CASE \/ Wakes \/ FrameReceived \/ FrameLost \/ Noise \/ Loop \/ Boots
             \/ UNCHANGED vars
    <2>1. UNCHANGED <<pin_high, pressed_for, seen, LOOP_CLOSED, notified, button, handheld_on>>
      BY <1>4 DEF Wakes, HeartbeatWakes, FrameReceived, FrameLost, Land, Noise, Loop, Boots,
                  handheldVars, history, vars
    <2> QED
      BY <2>1, PressFrame
  <1> QED
    BY <1>1, <1>2, <1>3, <1>4, PressButtons, PressElapse DEF Next

LEMMA PressInvariant == Spec => []PressInv
  <1>1. Init => PressInv
    <2> SUFFICES ASSUME Init PROVE PressInv
      OBVIOUS
    <2>1. ~(pressed_for > 0)
      BY DEF Init
    <2> QED
      BY <2>1, Zenon DEF Init, HandheldInit, PressInv
  <1> QED
    BY EStopTypeCorrect, PressStep, <1>1, PTL DEF Spec

LEMMA SeenInvStep ==
  EStopTypeOK /\ PodInv /\ PodInv' /\ PressInv /\ PressInv' /\ SeenInv /\ [Next]_vars
    => SeenInv'
  <1> SUFFICES ASSUME EStopTypeOK, PodInv, PodInv', PressInv, PressInv', SeenInv, [Next]_vars,
                      seen', pressed_for' > 0
               PROVE  Calm(pressed_for - 1)'
    BY DEF SeenInv
  <1>0. noise \in Nat /\ pressed_for \in Nat
    BY DEF EStopTypeOK
  <1>1. PICK q \in Nat : q = pressed_for'
    BY HistoryStep
  <1>2. SUFFICES ASSUME noise' = 0, q > 1
                 PROVE  NoHeartbeat' /\ Bounded(pressed_for - 1)'
    <2>1. \A x \in Nat : x - 1 > 0 => x > 1
      OBVIOUS
    <2> QED
      BY <1>1, <2>1 DEF Calm
  <1>3. CASE Elapse
    <2>1. seen /\ pin_high /\ handheld_on
      BY <1>3 DEF Elapse
    <2>2. pressed_for' \in {pressed_for, pressed_for + 1}
      BY <1>3, <2>1 DEF Elapse
    <2>3. pressed_for > 0 /\ q <= pressed_for + 1
      BY <1>0, <1>1, <1>2, <2>2
    <2>4. ~LOOP_CLOSED
      <3>1. button # "late"
        BY <1>3, <2>1 DEF Elapse, HandheldElapse, HandheldIdle
      <3> QED
        BY <2>1, <2>3, <3>1 DEF PressInv
    <2>5. PICK n \in Nat : n = pressed_for - 1
      BY <1>0, <2>3
    <2>6. PICK k \in Nat : k = q - 1 /\ k <= n + 1
      BY <1>0, <1>2, <2>3, <2>5
    <2>7. Calm(n)
      BY <2>1, <2>3, <2>5 DEF SeenInv
    <2>8. NoHeartbeat' /\ Bounded(k)'
      BY <1>3, <1>2, <2>1, <2>4, <2>6, <2>7, CalmElapse
    <2> QED
      BY <1>1, <2>6, <2>8 DEF Bounded
  <1>4. CASE ~Elapse
    <2>1. q # 0
      BY <1>2
    <2>2. ~Pin
      BY <1>1, <2>1, Zenon DEF Pin
    <2>3. UNCHANGED <<pressed_for, seen, pin_high>> /\ (handheld_on' => handheld_on)
      <3>1. CASE Crash
        <4>1. UNCHANGED <<pressed_for, seen, pin_high>>
          BY <3>1 DEF Crash, BatteryDies, handheldVars
        <4>2. handheld_on' => handheld_on
          BY <3>1 DEF Crash, BatteryDies, handheldVars
        <4> QED
          BY <4>1, <4>2
      <3>2. CASE ~Crash
        <4>1. CASE Buttons \/ Sends \/ Wakes
          BY <4>1 DEF Buttons, EnableInterrupt, WaitAny, Sample, Sends, OnOpen,
                      HeartbeatSends, Wakes, HeartbeatWakes, history
        <4>2. CASE \/ FrameReceived \/ FrameLost \/ Noise \/ Loop \/ Boots \/ UNCHANGED vars
          <5>1. UNCHANGED <<pressed_for, seen, pin_high, handheld_on>>
            BY <4>2 DEF FrameReceived, FrameLost, Land, Noise, Loop, Boots, handheldVars,
                        history, vars
          <5> QED
            BY <5>1
        <4> QED
          BY <1>4, <2>2, <3>2, <4>1, <4>2 DEF Next
      <3> QED
        BY <3>1, <3>2
    <2>4. PICK n \in Nat : n = pressed_for - 1 /\ n > 0 /\ pressed_for > 0
      BY <1>0, <1>1, <1>2, <2>3
    <2>5. Calm(n) /\ noise = 0
      BY <1>0, <1>2, <2>3, <2>4, NoiseGrows DEF SeenInv
    <2>6. ~(handheld_on' /\ LOOP_CLOSED')
      <3>1. ~(handheld_on /\ LOOP_CLOSED) /\ pin_high
        BY <2>4, <2>5 DEF Calm, NoHeartbeat, PressInv
      <3>2. LOOP_CLOSED' = LOOP_CLOSED \/ LOOP_CLOSED' = ~pin_high
        <4>1. CASE Buttons \/ Sends \/ Wakes
          BY <4>1 DEF Buttons, EnableInterrupt, WaitAny, Sample, Sampled, Sends, OnOpen,
                      HeartbeatSends, Wakes, HeartbeatWakes
        <4>2. CASE FrameReceived \/ FrameLost
          BY <4>2 DEF FrameReceived, FrameLost, Land
        <4>3. CASE Noise \/ Loop \/ Boots \/ Crash \/ UNCHANGED vars
          BY <4>3 DEF Noise, Loop, Boots, Crash, BatteryDies, handheldVars, vars
        <4> QED
          BY <1>4, <2>2, <4>1, <4>2, <4>3 DEF Next
      <3> QED
        BY <2>3, <3>1, <3>2, Zenon
    <2>7. Calm(n)'
      BY <1>0, <1>4, <2>5, <2>6, CalmStep DEF PodInv
    <2> QED
      BY <1>2, <2>3, <2>4, <2>7 DEF Calm, Bounded
  <1> QED
    BY <1>3, <1>4

(* A press that lasts and that run() can notice stops the rover, a unit     *)
(* later than an open loop does: the one in which run() samples the pin.    *)
THEOREM NoticedPressStops ==
  ASSUME SettleTime > HEARTBEAT_TIMEOUT + USB_HEARTBEAT_TICKS * TICK_INTERVAL + 1
  PROVE  Spec => []SeenPressStops
  <1>1. Init => SeenInv
    BY DEF Init, SeenInv
  <1>2. EStopTypeOK /\ PodInv /\ SeenInv => SeenPressStops
    <2> SUFFICES ASSUME EStopTypeOK, PodInv, SeenInv, pressed_for >= SettleTime, seen, noise = 0
                 PROVE  HostStops
      BY DEF SeenPressStops
    <2>1. PICK n \in Nat : /\ n = pressed_for - 1 /\ n > 0 /\ pressed_for > 0
                           /\ n > HEARTBEAT_TIMEOUT + USB_HEARTBEAT_TICKS * TICK_INTERVAL
      BY AgeLimitFar DEF EStopTypeOK
    <2>2. Bounded(n)
      BY <2>1 DEF SeenInv, Calm
    <2> QED
      BY <2>1, <2>2, CalmEnds
  <1> QED
    BY EStopTypeCorrect, PodInvariant, PressInvariant, SeenInvStep, <1>1, <1>2, PTL DEF Spec

----------------------------------------------------------------------------
HeartbeatPeriod == HEARTBEAT_INTERVAL + Jitter

(* Two Heartbeats, as late as they can be, fit in the timeout, and so do a  *)
(* boot and one Heartbeat.                                                  *)
TimelyHeartbeats ==
  /\ 2 * HeartbeatPeriod <= HEARTBEAT_TIMEOUT
  /\ \A t \in BootTimes : t + HeartbeatPeriod <= HEARTBEAT_TIMEOUT

(* A pin that never changes leaves run() where it waits for it. *)
Untouched == /\ LOOP_CLOSED = ~pin_high /\ ~notified
             /\ button \in {"enable", "wait"}
             /\ air \in Seq({"Heartbeat"})
             /\ rx_chan \in Seq({"Heartbeat", "BadFrame"})

Pending == heartbeat = "send" \/ air # <<>>

(* While no two frames in a row are lost, the age of the last reception     *)
(* leaves room for the Heartbeats still allowed to be lost.                 *)
Paced ==
  /\ machine.safety = "Armed"
  /\ Len(air) <= 1 /\ (heartbeat = "send" => air = <<>>)
  /\ Pending => /\ slept = 0
                /\ machine.since_rx <= HEARTBEAT_TIMEOUT
                /\ lost_in_a_row = 0 => machine.since_rx + HeartbeatPeriod <= HEARTBEAT_TIMEOUT
  /\ ~Pending /\ lost_in_a_row = 1 =>
       machine.since_rx + HeartbeatPeriod <= slept + HEARTBEAT_TIMEOUT
  /\ ~Pending /\ lost_in_a_row = 0 =>
       \/ machine.since_rx <= slept
       \/ slept = 0 /\ rx_chan # <<>> /\ machine.since_rx <= HEARTBEAT_TIMEOUT

CauseInv ==
  /\ edges = 0 => Untouched
  /\ crashes = 0 => handheld_on /\ pod_on
  /\ edges = 0 /\ crashes = 0 /\ ~lossy /\ LOOP_CLOSED => Paced

----------------------------------------------------------------------------
(* A handheld nobody touches only sends Heartbeats. *)
LEMMA UntouchedHandheld ==
  ASSUME Untouched, Buttons \/ Sends \/ Wakes
  PROVE  Untouched'
  <1>1. /\ UNCHANGED <<LOOP_CLOSED, pin_high, notified, rx_chan>>
        /\ button' \in {"enable", "wait"}
    BY DEF Untouched, Buttons, EnableInterrupt, WaitAny, Sample, Sends, OnOpen,
           HeartbeatSends, Wakes, HeartbeatWakes, podVars
  <1>2. air' \in Seq({"Heartbeat"})
    <2>1. air' = air \/ air' = Append(air, "Heartbeat")
      BY DEF Untouched, Buttons, EnableInterrupt, WaitAny, Sample, Sends, OnOpen,
             HeartbeatSends, Sent, Wakes, HeartbeatWakes
    <2>2. air \in Seq({"Heartbeat"})
      BY DEF Untouched
    <2> QED
      BY <2>1, <2>2
  <1> QED
    BY <1>1, <1>2, Zenon DEF Untouched

LEMMA UntouchedLand ==
  ASSUME Untouched, FrameReceived \/ FrameLost
  PROVE  Untouched'
  <1>1. UNCHANGED <<LOOP_CLOSED, pin_high, notified, button, heartbeat>>
    BY DEF FrameReceived, FrameLost, Land
  <1>2. air \in Seq({"Heartbeat"}) /\ air # <<>> /\ air' = Tail(air)
    BY DEF Untouched, FrameReceived, FrameLost, Land
  <1>3. air' \in Seq({"Heartbeat"}) /\ Head(air) = "Heartbeat"
    BY <1>2
  <1>4. rx_chan' \in Seq({"Heartbeat", "BadFrame"})
    <2>1. rx_chan' = rx_chan \/ rx_chan' = Append(rx_chan, "Heartbeat")
      BY <1>3 DEF FrameReceived, FrameLost, RadioReceives, Queued, Classify, podVars
    <2>2. rx_chan \in Seq({"Heartbeat", "BadFrame"})
      BY DEF Untouched
    <2> QED
      BY <2>1, <2>2
  <1> QED
    BY <1>1, <1>3, <1>4, Zenon DEF Untouched

LEMMA UntouchedPod ==
  ASSUME Untouched, Noise \/ Loop \/ Boots \/ Crash \/ UNCHANGED vars
  PROVE  Untouched'
  <1>1. UNCHANGED <<LOOP_CLOSED, pin_high, notified, button, heartbeat, air>>
    BY DEF Noise, Loop, Boots, Crash, BatteryDies, handheldVars, vars
  <1>2. rx_chan' \in Seq({"Heartbeat", "BadFrame"})
    <2>1. \/ rx_chan' = rx_chan \/ rx_chan' = <<>>
          \/ rx_chan # <<>> /\ rx_chan' = Tail(rx_chan)
          \/ rx_chan' = Append(rx_chan, "BadFrame")
      BY DEF Noise, RadioReceives, Queued, Classify, Loop, LoopTick, LoopReceive, Boots, PodBoot,
             Crash, PodDies, podVars, vars
    <2>2. rx_chan \in Seq({"Heartbeat", "BadFrame"})
      BY DEF Untouched
    <2>3. rx_chan # <<>> => Tail(rx_chan) \in Seq({"Heartbeat", "BadFrame"})
      BY <2>2
    <2>4. /\ Append(rx_chan, "BadFrame") \in Seq({"Heartbeat", "BadFrame"})
          /\ <<>> \in Seq({"Heartbeat", "BadFrame"})
      BY <2>2
    <2> QED
      BY <2>1, <2>2, <2>3, <2>4
  <1> QED
    BY <1>1, <1>2, Zenon DEF Untouched

LEMMA UntouchedElapse == Untouched /\ Elapse => Untouched'
  <1> SUFFICES ASSUME Untouched, Elapse PROVE Untouched'
    OBVIOUS
  <1>1. UNCHANGED <<LOOP_CLOSED, pin_high, notified, heartbeat, air, rx_chan, button>>
    BY DEF Untouched, Elapse, HandheldElapse, PodElapse
  <1> QED
    BY <1>1, Zenon DEF Untouched

LEMMA UntouchedStep ==
  ASSUME Untouched, [Next]_vars, ~Pin
  PROVE  Untouched'
  BY UntouchedHandheld, UntouchedLand, UntouchedPod, UntouchedElapse DEF Next

LEMMA Period ==
  /\ HeartbeatPeriod \in Nat
  /\ TimelyHeartbeats => HeartbeatPeriod + HeartbeatPeriod <= HEARTBEAT_TIMEOUT
  BY DEF HeartbeatPeriod, TimelyHeartbeats

LEMMA PacedAge ==
  ASSUME EStopTypeOK, TimelyHeartbeats, Paced
  PROVE  machine.since_rx <= HEARTBEAT_TIMEOUT
  <1>1. /\ slept \in Nat /\ slept <= HeartbeatPeriod /\ lost_in_a_row \in {0, 1}
        /\ machine.since_rx \in Nat
    BY DEF EStopTypeOK, HandheldTypeOK, PodTypeOK, Machine, HeartbeatPeriod
  <1>2. CASE Pending
    BY <1>2 DEF Paced
  <1>3. CASE ~Pending /\ lost_in_a_row = 1
    <2>1. machine.since_rx + HeartbeatPeriod <= slept + HEARTBEAT_TIMEOUT
      BY <1>3 DEF Paced
    <2> QED
      BY <1>1, <2>1, Period
  <1>4. CASE ~Pending /\ lost_in_a_row = 0
    <2>1. machine.since_rx <= slept \/ machine.since_rx <= HEARTBEAT_TIMEOUT
      BY <1>4 DEF Paced
    <2> QED
      BY <1>1, <2>1, Period
  <1> QED
    BY <1>1, <1>2, <1>3, <1>4

(* A frame lands: the second one in a row is not lost.                      *)
LEMMA PacedLand ==
  ASSUME EStopTypeOK, Paced, FrameReceived \/ FrameLost, ~lossy'
  PROVE  Paced'
  <1>1. /\ UNCHANGED <<machine, heartbeat, slept>>
        /\ air # <<>> /\ air' = Tail(air)
        /\ \/ lost_in_a_row' = 0 /\ rx_chan' # rx_chan
           \/ lost_in_a_row' = 1 /\ lost_in_a_row # 1
    BY DEF FrameReceived, FrameLost, Land, RadioReceives, Count, podVars
  <1>2. air' = <<>> /\ heartbeat # "send"
    BY <1>1 DEF Paced, EStopTypeOK, HandheldTypeOK
  <1>3. ~Pending' /\ Pending /\ slept = 0 /\ Len(air') <= 1
    BY <1>1, <1>2 DEF Pending, Paced
  <1>4. rx_chan' # rx_chan => rx_chan' # <<>>
    <2>1. rx_chan \in Seq(RxEvent) /\ Classify(Head(air)) \in RxEvent
      BY DEF EStopTypeOK, PodTypeOK, Classify, RxEvent
    <2>2. Append(rx_chan, Classify(Head(air))) # <<>>
      BY <2>1
    <2> QED
      BY <2>2 DEF FrameReceived, FrameLost, RadioReceives, Queued, podVars
  <1>5. /\ machine.safety = "Armed" /\ machine.since_rx <= HEARTBEAT_TIMEOUT
        /\ lost_in_a_row = 0 => machine.since_rx + HeartbeatPeriod <= slept + HEARTBEAT_TIMEOUT
    BY <1>3 DEF Paced
  <1>6. lost_in_a_row \in {0, 1}
    BY DEF EStopTypeOK
  <1> QED
    BY <1>1, <1>2, <1>3, <1>4, <1>5, <1>6 DEF Paced

LEMMA PacedHandheld ==
  ASSUME EStopTypeOK, TimelyHeartbeats, Untouched, LOOP_CLOSED, Paced,
         Buttons \/ Sends \/ Wakes, ~lossy'
  PROVE  Paced'
  <1>0. UNCHANGED <<machine, rx_chan>>
    BY DEF Buttons, Sends, Wakes, podVars
  <1>1. CASE Buttons
    <2>1. UNCHANGED <<heartbeat, air, slept, lost_in_a_row>>
      BY <1>1 DEF Buttons, EnableInterrupt, WaitAny, Sample
    <2> QED
      BY <1>0, <2>1 DEF Paced, Pending
  <1>2. CASE Sends
    <2>1. /\ heartbeat = "send" /\ heartbeat' = "asleep" /\ UNCHANGED slept
          /\ air' = Append(air, "Heartbeat") \/ air' = air
          /\ IF air' = air THEN Count(FALSE) ELSE UNCHANGED <<lost_in_a_row, lossy>>
      BY <1>2 DEF Untouched, Sends, OnOpen, HeartbeatSends, Sent
    <2>2. air = <<>> /\ slept = 0 /\ Pending
      BY <2>1 DEF Paced, Pending
    <2>3. CASE air' = air
      <3>1. lost_in_a_row' = 1 /\ lost_in_a_row # 1 /\ ~Pending'
        BY <2>1, <2>2, <2>3 DEF Count, Pending
      <3> QED
        BY <1>0, <2>1, <2>2, <2>3, <3>1 DEF Paced, EStopTypeOK
    <2>4. CASE air' # air
      <3>1. air' # <<>> /\ Len(air') <= 1 /\ UNCHANGED lost_in_a_row
        <4>1. air' = <<"Heartbeat">>
          BY <2>1, <2>2, <2>4
        <4>2. UNCHANGED lost_in_a_row
          BY <2>1, <2>4
        <4>3. Len(<<"Heartbeat">>) <= 1 /\ <<"Heartbeat">> # <<>>
          OBVIOUS
        <4> QED
          BY <4>1, <4>2, <4>3
      <3> QED
        BY <1>0, <2>1, <2>2, <3>1 DEF Paced, Pending
    <2> QED
      BY <2>3, <2>4
  <1>3. CASE Wakes
    <2>1. /\ heartbeat = "asleep" /\ heartbeat' = "send" /\ slept' = 0 /\ slept # 0
          /\ UNCHANGED <<air, lost_in_a_row>>
      BY <1>3 DEF Wakes, HeartbeatWakes, LoopClosed, history
    <2>2. air = <<>> /\ ~Pending
      BY <2>1 DEF Paced, Pending
    <2>3. machine.since_rx <= HEARTBEAT_TIMEOUT
      BY PacedAge
    <2>4. lost_in_a_row = 0 => machine.since_rx + HeartbeatPeriod <= HEARTBEAT_TIMEOUT
      <3>1. /\ slept \in Nat /\ slept <= HeartbeatPeriod /\ machine.since_rx \in Nat
        BY DEF EStopTypeOK, HandheldTypeOK, PodTypeOK, Machine, HeartbeatPeriod
      <3>2. lost_in_a_row = 0 => machine.since_rx <= slept
        BY <2>1, <2>2 DEF Paced
      <3> QED
        BY <3>1, <3>2, Period
    <2> QED
      BY <1>0, <2>1, <2>2, <2>3, <2>4 DEF Paced, Pending
  <1> QED
    BY <1>1, <1>2, <1>3

(* The tick of a pod that is Paced does not trip, and a reception starts    *)
(* the timeout again.                                                       *)
LEMMA PacedLoop ==
  ASSUME EStopTypeOK, TimelyHeartbeats, Untouched, Paced, Loop
  PROVE  Paced'
  <1>0. UNCHANGED <<heartbeat, air, slept, lost_in_a_row>>
    BY DEF Loop, handheldVars
  <1>1. CASE LoopTick
    <2>1. ~(machine.since_rx > HEARTBEAT_TIMEOUT)
      BY PacedAge DEF EStopTypeOK, PodTypeOK, Machine
    <2>2. UNCHANGED <<machine, rx_chan>>
      BY <1>1, <2>1 DEF LoopTick, Iterate, Tick
    <2> QED
      BY <1>0, <2>2 DEF Paced, Pending
  <1>2. CASE LoopReceive
    <2>1. rx_chan \in Seq({"Heartbeat", "BadFrame"}) /\ rx_chan # <<>>
      BY <1>2 DEF Untouched, LoopReceive
    <2>2. Head(rx_chan) # "Stop"
      BY <2>1
    <2>3. machine' = HeartbeatRx(MarkRx(machine)) \/ machine' = MarkRx(machine)
      BY <1>2, <2>2 DEF LoopReceive, Iterate
    <2>4. machine'.safety = "Armed" /\ machine'.since_rx = 0
      BY <2>3 DEF HeartbeatRx, MarkRx, Paced, EStopTypeOK, PodTypeOK, Machine
    <2>5. slept \in Nat /\ lost_in_a_row \in {0, 1}
      BY DEF EStopTypeOK, HandheldTypeOK
    <2>6. /\ 0 <= HEARTBEAT_TIMEOUT /\ 0 <= slept
          /\ 0 + HeartbeatPeriod <= HEARTBEAT_TIMEOUT
          /\ 0 + HeartbeatPeriod <= slept + HEARTBEAT_TIMEOUT
      BY <2>5, Period
    <2> QED
      BY <1>0, <2>4, <2>6 DEF Paced, Pending
  <1> QED
    BY <1>1, <1>2 DEF Loop

LEMMA PacedElapse ==
  ASSUME EStopTypeOK, Paced, handheld_on, pod_on, Elapse
  PROVE  Paced'
  <1>1. /\ UNCHANGED <<heartbeat, air, lost_in_a_row, rx_chan>> /\ slept' = slept + 1
        /\ air = <<>> /\ heartbeat = "asleep" /\ rx_chan = <<>>
        /\ machine' = [machine EXCEPT !.since_rx = Older(@)]
    BY DEF Elapse, HandheldElapse, HandheldIdle, PodElapse, PodIdle
  <1>2. ~Pending /\ ~Pending'
    BY <1>1 DEF Pending
  <1>3. slept \in Nat /\ machine.since_rx \in Nat
    BY DEF EStopTypeOK, HandheldTypeOK, PodTypeOK, Machine
  <1>4. PICK s \in Nat : s = machine'.since_rx /\ s <= machine.since_rx + 1
    <2>1. machine'.since_rx = Older(machine.since_rx)
      BY <1>1 DEF EStopTypeOK, PodTypeOK, Machine
    <2>2. Older(machine.since_rx) \in Nat /\ Older(machine.since_rx) <= machine.since_rx + 1
      BY <1>3 DEF Older
    <2> QED
      BY <2>1, <2>2
  <1>5. machine'.safety = "Armed"
    BY <1>1 DEF Paced, EStopTypeOK, PodTypeOK, Machine
  <1>6. lost_in_a_row = 1 => s + HeartbeatPeriod <= (slept + 1) + HEARTBEAT_TIMEOUT
    BY <1>2, <1>3, <1>4, Period DEF Paced
  <1>7. lost_in_a_row = 0 => s <= slept + 1
    BY <1>1, <1>2, <1>3, <1>4 DEF Paced
  <1> QED
    BY <1>1, <1>2, <1>4, <1>5, <1>6, <1>7 DEF Paced

LEMMA PacedStep ==
  ASSUME EStopTypeOK, TimelyHeartbeats, Untouched, LOOP_CLOSED, handheld_on, pod_on, Paced,
         [Next]_vars, ~Pin, ~Crash, ~lossy'
  PROVE  Paced'
  <1>1. CASE Noise
    <2>1. UNCHANGED <<machine, heartbeat, air, slept, lost_in_a_row>>
      BY <1>1 DEF Noise, RadioReceives, handheldVars, history
    <2>2. rx_chan' = rx_chan \/ rx_chan' = Append(rx_chan, "BadFrame")
      BY <1>1 DEF Noise, RadioReceives, Queued, Classify
    <2>3. Append(rx_chan, "BadFrame") # <<>>
      <3>1. rx_chan \in Seq(RxEvent) /\ "BadFrame" \in RxEvent
        BY DEF EStopTypeOK, PodTypeOK, RxEvent
      <3> QED
        BY <3>1
    <2>4. rx_chan # <<>> => rx_chan' # <<>>
      BY <2>2, <2>3
    <2> QED
      BY <2>1, <2>4 DEF Paced, Pending
  <1>2. CASE UNCHANGED vars
    <2>1. UNCHANGED <<machine, heartbeat, air, slept, lost_in_a_row, rx_chan>>
      BY <1>2 DEF vars, handheldVars, podVars, history
    <2> QED
      BY <2>1 DEF Paced, Pending
  <1>3. ~Boots
    BY DEF Boots, PodBoot
  <1> QED
    BY <1>1, <1>2, <1>3, PacedLand, PacedHandheld, PacedLoop, PacedElapse DEF Next

LEMMA CauseInit == TimelyHeartbeats /\ Init => CauseInv
  <1> SUFFICES ASSUME TimelyHeartbeats, Init PROVE CauseInv
    OBVIOUS
  <1>1. Untouched
    <2>1. air = <<>> /\ rx_chan = <<>>
      BY DEF Init, HandheldInit, PodInit
    <2>2. air \in Seq({"Heartbeat"}) /\ rx_chan \in Seq({"Heartbeat", "BadFrame"})
      BY <2>1
    <2>3. button \in {"enable", "wait"}
      BY DEF Init, HandheldInit
    <2> QED
      BY <2>2, <2>3, Zenon DEF Init, HandheldInit, Untouched
  <1>2. handheld_on /\ pod_on
    BY Zenon DEF Init, HandheldInit, PodInit
  <1>3. Paced
    <2>1. PICK t \in BootTimes : machine = New(t)
      BY DEF Init, PodInit
    <2>2. t + HeartbeatPeriod <= 0 + HEARTBEAT_TIMEOUT
      BY <2>1 DEF TimelyHeartbeats
    <2>3. /\ air = <<>> /\ heartbeat = "asleep" /\ slept = 0 /\ lost_in_a_row = 1
          /\ Len(<<>>) <= 1
      BY DEF Init, HandheldInit
    <2> QED
      BY <2>1, <2>2, <2>3 DEF New, Paced, Pending
  <1> QED
    BY <1>1, <1>2, <1>3, Zenon DEF CauseInv

(* A count that is still 0 was 0 before, and what it counts did not happen. *)
LEMMA CountsGrow ==
  ASSUME EStopTypeOK, [Next]_vars
  PROVE  /\ edges' = 0 => edges = 0 /\ ~Pin
         /\ crashes' = 0 => crashes = 0 /\ ~Crash
         /\ ~lossy' => ~lossy
  <1>1. edges' = 0 => edges = 0 /\ ~Pin
    <2>1. edges' = edges \/ edges' = edges + 1
      BY Zenon DEF Next, Pin, Buttons, Sends, Wakes, FrameReceived, FrameLost, Land, Noise,
                   Loop, Boots, Crash, Elapse, vars
    <2>2. Pin => edges' = edges + 1
      BY DEF Pin
    <2> QED
      BY <2>1, <2>2 DEF EStopTypeOK
  <1>2. crashes' = 0 => crashes = 0 /\ ~Crash
    <2>1. crashes' = crashes \/ crashes' = crashes + 1
      BY Zenon DEF Next, Pin, Buttons, Sends, Wakes, FrameReceived, FrameLost, Land, Noise,
                   Loop, Boots, Crash, Elapse, vars
    <2>2. Crash => crashes' = crashes + 1
      BY DEF Crash
    <2> QED
      BY <2>1, <2>2 DEF EStopTypeOK
  <1>3. ~lossy' => ~lossy
    <2>1. UNCHANGED lossy \/ \E r \in {TRUE, FALSE} : Count(r) \/ Count(rx_chan' # rx_chan)
      BY Zenon DEF Next, Pin, Buttons, Sends, Wakes, FrameReceived, FrameLost, Noise, Loop,
                   Boots, Crash, Elapse, vars, history
    <2> QED
      BY <2>1, Zenon DEF Count
  <1> QED
    BY <1>1, <1>2, <1>3

(* Only the pin moves the pin, and only a crash stops a side.               *)
LEMMA SidesStay ==
  ASSUME [Next]_vars
  PROVE  /\ ~Pin => pin_high' = pin_high
         /\ ~Crash => handheld_on' = handheld_on /\ (pod_on => pod_on')
  <1>1. CASE \/ Buttons \/ Sends \/ Wakes \/ FrameReceived \/ FrameLost \/ Noise \/ Loop
             \/ Elapse \/ UNCHANGED vars
    <2> SUFFICES UNCHANGED <<pin_high, handheld_on, pod_on>>
      OBVIOUS
    <2>1. CASE Buttons \/ Sends \/ Wakes
      BY <2>1 DEF Buttons, EnableInterrupt, WaitAny, Sample, Sends, OnOpen, HeartbeatSends,
                  Wakes, HeartbeatWakes, podVars
    <2>2. CASE FrameReceived \/ FrameLost
      BY <2>2 DEF FrameReceived, FrameLost, Land, RadioReceives, podVars
    <2>3. CASE Noise \/ Loop
      BY <2>3 DEF Noise, RadioReceives, Loop, LoopTick, LoopReceive, Iterate, handheldVars
    <2>4. CASE Elapse \/ UNCHANGED vars
      BY <2>4 DEF Elapse, HandheldElapse, PodElapse, vars, handheldVars, podVars
    <2> QED
      BY <1>1, <2>1, <2>2, <2>3, <2>4
  <1>2. CASE Boots
    BY <1>2 DEF Boots, PodBoot, handheldVars
  <1>3. CASE Pin
    BY <1>3 DEF Pin, PinChanges, podVars
  <1>4. CASE Crash
    BY <1>4 DEF Crash, BatteryDies, handheldVars
  <1> QED
    BY <1>1, <1>2, <1>3, <1>4 DEF Next

LEMMA CauseStep ==
  TimelyHeartbeats /\ EStopTypeOK /\ CauseInv /\ [Next]_vars => CauseInv'
  <1> SUFFICES ASSUME TimelyHeartbeats, EStopTypeOK, CauseInv, [Next]_vars PROVE CauseInv'
    OBVIOUS
  <1>1. ASSUME edges' = 0 PROVE Untouched'
    BY <1>1, CountsGrow, UntouchedStep DEF CauseInv
  <1>2. ASSUME crashes' = 0 PROVE handheld_on' /\ pod_on'
    <2>1. handheld_on /\ pod_on /\ ~Crash
      BY <1>2, CountsGrow DEF CauseInv
    <2> QED
      BY <2>1, SidesStay
  <1>3. ASSUME edges' = 0, crashes' = 0, ~lossy', LOOP_CLOSED' PROVE Paced'
    <2>1. edges = 0 /\ crashes = 0 /\ ~Pin /\ ~Crash /\ ~lossy
      BY <1>3, CountsGrow
    <2>2. Untouched /\ handheld_on /\ pod_on
      BY <2>1 DEF CauseInv
    <2>3. LOOP_CLOSED
      <3>1. LOOP_CLOSED' = ~pin_high' /\ pin_high' = pin_high /\ LOOP_CLOSED = ~pin_high
        BY <1>1, <1>3, <2>1, <2>2, SidesStay, Zenon DEF Untouched
      <3> QED
        BY <1>3, <3>1, Zenon
    <2>4. Paced
      BY <2>1, <2>3 DEF CauseInv
    <2> QED
      BY <1>3, <2>1, <2>2, <2>3, <2>4, PacedStep
  <1> QED
    BY <1>1, <1>2, <1>3, Zenon DEF CauseInv

(* A pod that is tripped has a cause.  When nobody pressed, nothing crashed *)
(* and no two frames in a row were lost, no tick found the timeout passed,  *)
(* however late each Heartbeat was: two of them fit in it.                  *)
THEOREM TripsHaveCause ==
  ASSUME TimelyHeartbeats
  PROVE  Spec => []TripHasCause
  <1>1. EStopTypeOK /\ CauseInv => TripHasCause
    <2>1. ASSUME EStopTypeOK, CauseInv, ~TripHasCause PROVE FALSE
      <3>1. /\ machine.safety = "Tripped" /\ LOOP_CLOSED /\ ~lossy
            /\ ~(edges > 0) /\ ~(crashes > 0)
        BY <2>1 DEF TripHasCause
      <3>2. edges = 0 /\ crashes = 0
        BY <2>1, <3>1 DEF EStopTypeOK
      <3> QED
        BY <2>1, <3>1, <3>2 DEF CauseInv, Paced
    <2> QED
      BY <2>1
  <1> QED
    BY EStopTypeCorrect, CauseInit, CauseStep, <1>1, PTL DEF Spec
=============================================================================
