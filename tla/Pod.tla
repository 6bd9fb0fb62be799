-------------------------------- MODULE Pod --------------------------------
(* The pod (E-Stop/pod): a radio task that classifies frames into RX_CHAN,  *)
(* a loop that selects between a fresh tick and that channel, and the USB   *)
(* reports to the host, whose view of the pod is kept here as well.         *)
EXTENDS Safety, Sequences

CONSTANTS
  TICK_INTERVAL,        \* units of time between ticks of an idle loop
  USB_HEARTBEAT_TICKS,  \* iterations after which the state is sent anyway
  RX_CHAN_CAPACITY,     \* 8 in the code
  BootTimes             \* how long booting may take before the loop starts

ASSUME PodAssumption ==
  /\ TICK_INTERVAL \in Nat \ {0}
  /\ USB_HEARTBEAT_TICKS \in Nat \ {0}
  /\ RX_CHAN_CAPACITY \in Nat \ {0}
  /\ BootTimes \subseteq 0 .. HEARTBEAT_TIMEOUT

VARIABLES
  pod_on,
  machine,            \* safety: Safety
  rx_chan,            \* RX_CHAN
  tick_in,            \* time left on the loop's timer
  ticks_since_send,
  host,               \* the last state the host was sent
  host_silence        \* time since then

podVars == <<pod_on, machine, rx_chan, tick_in, ticks_since_send, host, host_silence>>

RxEvent == {"Heartbeat", "Stop", "BadFrame"}

PodTypeOK ==
  /\ pod_on \in BOOLEAN
  /\ machine \in Machine
  /\ rx_chan \in Seq(RxEvent) /\ Len(rx_chan) <= RX_CHAN_CAPACITY
  /\ tick_in \in 0 .. TICK_INTERVAL
  /\ ticks_since_send \in 0 .. USB_HEARTBEAT_TICKS - 1
  /\ host \in [safety: SafetyState, link: LinkState]
  /\ host_silence \in Nat

(* send_state *)
View(m) == [safety |-> m.safety, link |-> m.link]

PodInit ==
  /\ pod_on = TRUE
  /\ \E t \in BootTimes : machine = New(t)
  /\ rx_chan = <<>>
  /\ tick_in = TICK_INTERVAL
  /\ ticks_since_send = 0
  /\ host = View(machine) /\ host_silence = 0

PodBoot ==
  /\ ~pod_on
  /\ pod_on' = TRUE
  /\ \E t \in BootTimes : machine' = New(t)
  /\ rx_chan' = <<>>
  /\ tick_in' = TICK_INTERVAL
  /\ ticks_since_send' = 0
  /\ host' = View(machine') /\ host_silence' = 0

(* The radio task: a frame that is neither a Heartbeat nor a Stop is a      *)
(* BadFrame; a frame that finds the channel full is dropped.                *)
Classify(frame) == IF frame \in {"Heartbeat", "Stop"} THEN frame ELSE "BadFrame"
Queued(event) == IF Len(rx_chan) < RX_CHAN_CAPACITY THEN Append(rx_chan, event)
                                                    ELSE rx_chan
RadioReceives(frame) ==
  /\ pod_on
  /\ rx_chan' = Queued(Classify(frame))
  /\ UNCHANGED <<pod_on, machine, tick_in, ticks_since_send, host, host_silence>>

(* The rest of an iteration of the loop, once step has made m of machine:   *)
(* report, and start a new timer.                                           *)
ReportDueLate(m) == Changed(machine, m) \/ ticks_since_send + 1 > USB_HEARTBEAT_TICKS
ReportDue(m) == Changed(machine, m) \/ ticks_since_send + 1 >= USB_HEARTBEAT_TICKS
Iterate(m) ==
  /\ machine' = m
  /\ tick_in' = TICK_INTERVAL
  /\ IF ReportDue(m)
       THEN host' = View(m) /\ host_silence' = 0 /\ ticks_since_send' = 0
       ELSE /\ ticks_since_send' = ticks_since_send + 1
            /\ UNCHANGED <<host, host_silence>>
  /\ UNCHANGED pod_on

LoopTick ==
  /\ pod_on
  /\ tick_in = 0
  /\ Iterate(Tick(machine))
  /\ UNCHANGED rx_chan

(* select looks at the timer first.  mark_rx comes before the event is      *)
(* looked at, a BadFrame included.                                          *)
LoopReceive ==
  /\ pod_on
  /\ tick_in > 0
  /\ rx_chan # <<>>
  /\ rx_chan' = Tail(rx_chan)
  /\ LET m == MarkRx(machine) IN
       \/ Head(rx_chan) = "Heartbeat" /\ Iterate(HeartbeatRx(m))
       \/ Head(rx_chan) = "Stop" /\ Iterate(StopRx(m))
       \/ Head(rx_chan) = "BadFrame" /\ Iterate(m)

(* One unit of time: a loop that has something to do does it first. *)
PodIdle == pod_on => tick_in > 0 /\ rx_chan = <<>>
AgeLimit == HEARTBEAT_TIMEOUT + TICK_INTERVAL * USB_HEARTBEAT_TICKS + 1
Older(age) == IF age < AgeLimit THEN age + 1 ELSE age
PodElapse ==
  /\ PodIdle
  /\ machine' = IF pod_on THEN [machine EXCEPT !.since_rx = Older(@)] ELSE machine
  /\ tick_in' = IF pod_on THEN tick_in - 1 ELSE tick_in
  /\ host_silence' = Older(host_silence)
  /\ UNCHANGED <<pod_on, rx_chan, ticks_since_send, host>>

PodDies ==
  /\ pod_on
  /\ pod_on' = FALSE
  /\ UNCHANGED <<machine, rx_chan, tick_in, ticks_since_send, host, host_silence>>
=============================================================================
