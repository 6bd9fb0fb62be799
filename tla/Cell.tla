-------------------------------- MODULE Cell --------------------------------
(* The sorting cell: the MQTT callback, logic_task, the robots, the         *)
(* database bridge, the passing of time and restarts of the controller.     *)
EXTENDS MqttCallback, LogicTask

CONSTANTS
  Commands,          \* the SCADA commands in use
  Quantities,        \* quantities a gen may carry
  MaxCommands,       \* bound: SCADA commands in a behaviour
  EmergencyPossible, \* estop and resume arrive
  Faults,            \* the faults that may happen
  MaxFaults          \* bound: faults in a behaviour

(* A robot that does not answer in time, a controller restart, a report the *)
(* broker delivers twice (QoS 1), a report naming nothing the firmware knows, *)
(* a message the MQTT client refuses to publish.                            *)
FaultKinds == {"amr_timeout", "cobot_timeout", "reboot", "duplicate", "noise",
               "publish_error"}

ASSUME PlantAssumption ==
  /\ Commands \subseteq {"status", "set_mode", "gen", "reset"}
  /\ Quantities \subseteq Nat
  /\ MaxCommands \in Nat /\ MaxFaults \in Nat
  /\ EmergencyPossible \in BOOLEAN
  /\ Faults \subseteq FaultKinds

Fault(kind) ==
  /\ kind \in Faults
  /\ faults < MaxFaults
  /\ faults' = faults + 1
  /\ UNCHANGED commands

(* main() and what flash and the plant hold when it first runs. *)
Init ==
  /\ order = DefaultOrder
  /\ tapas_clasificadas_pending = 0
  /\ tolva_counts = EmptyTolvas
  /\ amr = NoAmr /\ cobot = NoCobot /\ pallets = FirstPallets
  /\ flags = {}
  /\ nvs = EmptyTolvas
  /\ emergency_stop = FALSE /\ events = <<>> /\ pull_slot = "empty"
  /\ pc = "check" /\ job = NoJob /\ color_counter = 0 /\ next_caja = 1
  /\ out = {} /\ lost = {}
  /\ caps = EmptyTolvas
  /\ amr_goal = None /\ arrivals = {}
  /\ cobot_task = None /\ completions = {}
  /\ bridge = FALSE
  /\ commands = 0 /\ faults = 0

(* Where a restart finds the firmware, as far as flash and the plant can    *)
(* tell: between two sections, or inside one that writes to flash or        *)
(* publishes more than one message.                                         *)
BetweenSections == UNCHANGED <<nvs, commands>> /\ Silent

CutDelta ==
  /\ pc = "drain" /\ events # <<>> /\ Head(events).kind = "delta"
  /\ Head(events).color # Unknown
  /\ SaveTolvaCounts([tolva_counts EXCEPT ![Head(events).color] = @ + 1], TRUE)
  /\ Silent /\ UNCHANGED commands

CutReset ==
  /\ Scada /\ "reset" \in Commands
  /\ commands < MaxCommands /\ commands' = commands + 1
  /\ SaveTolvaCounts(EmptyTolvas, TRUE)
  /\ Silent

CutLoad ==
  /\ pc = "status" /\ Loaded /\ Emptied # None
  /\ SaveTolvaCounts(CountsAfterLoad, TRUE)
  /\ Silent /\ UNCHANGED commands

(* The order in which publish_status publishes. *)
Rank(m) == CASE m.topic = "db" /\ m.event = "tapa_clasificada" -> 1
             [] m.topic = "db" /\ m.event = "reset" -> 2
             [] m.topic = "scada" /\ m.event = "batch_complete" -> 3
             [] m.topic = "scada" /\ m.event = "status" -> 4
             [] m.topic = "db" /\ m.event = "box_completed" -> 5
             [] m.topic = "amr" -> 6
             [] m.topic = "cobot" -> 7

CutPublish ==
  /\ pc = "status"
  /\ SaveAfterLoad
  /\ \E n \in 0 .. 6 : Publish({m \in StatusMessages : Rank(m) <= n})
  /\ lost' = {} /\ UNCHANGED commands

(* A restart: main() runs again, with the counts it loads from flash; the   *)
(* plant goes on as it was.                                                 *)
Reboot ==
  /\ "reboot" \in Faults /\ faults < MaxFaults /\ faults' = faults + 1
  /\ \/ BetweenSections \/ CutDelta \/ CutLoad \/ CutPublish
     \/ CutReset
  /\ order' = DefaultOrder
  /\ tapas_clasificadas_pending' = 0
  /\ tolva_counts' = nvs'
  /\ amr' = NoAmr /\ cobot' = NoCobot /\ pallets' = FirstPallets
  /\ flags' = {}
  /\ emergency_stop' = FALSE /\ events' = <<>> /\ pull_slot' = "empty"
  /\ pc' = "check" /\ job' = NoJob /\ color_counter' = 0 /\ next_caja' = 1

----------------------------------------------------------------------------
(* The SCADA. *)
ScadaCommand ==
  /\ commands < MaxCommands
  /\ commands' = commands + 1
  /\ \/ "status" \in Commands /\ ScadaStatus
     \/ "set_mode" \in Commands /\ \E mode \in Mode : ScadaSetMode(mode)
     \/ /\ "gen" \in Commands
        /\ \E quantity \in Quantities, color \in Tolva, lote \in Lotes \cup {None} :
             ScadaGen(quantity, color, lote)
     \/ "reset" \in Commands /\ ScadaReset(NvsMayFail)
  /\ UNCHANGED faults

Emergency ==
  /\ EmergencyPossible
  /\ EmergencyAction(~emergency_stop)
  /\ UNCHANGED boundVars

(* The Delta sorts a spawned cap into its hopper and says so. *)
DeltaReports(c) ==
  /\ caps[c] > 0
  /\ caps' = [caps EXCEPT ![c] = @ - 1]
  /\ DeltaStatus(c)
  /\ UNCHANGED <<amr_goal, arrivals, cobot_task, completions, bridge, boundVars>>

(* The AMR reaches the place it was last sent to; its report travels apart. *)
AmrArrives ==
  /\ amr_goal # None
  /\ amr_goal' = None
  /\ arrivals' = arrivals \cup {amr_goal}
  /\ Quiet
  /\ UNCHANGED <<controlVars, sharedVars, threadVars, caps, cobot_task, completions,
                 bridge, boundVars>>

AmrReports(l) ==
  /\ l \in arrivals
  /\ AmrStatus(l)
  /\ \/ arrivals' = arrivals \ {l} /\ UNCHANGED boundVars
     \/ UNCHANGED arrivals /\ Fault("duplicate")
  /\ UNCHANGED <<caps, amr_goal, cobot_task, completions, bridge>>

(* The cobot stacks the box in front of it on the pallet it was told. *)
CobotFinishes ==
  /\ cobot_task # None
  /\ cobot_task' = None
  /\ completions' = completions \cup {cobot_task}
  /\ Quiet
  /\ UNCHANGED <<controlVars, sharedVars, threadVars, caps, amr_goal, arrivals,
                 bridge, boundVars>>

CobotReports(p) ==
  /\ p \in completions
  /\ CobotStatus(p)
  /\ \/ completions' = completions \ {p} /\ UNCHANGED boundVars
     \/ UNCHANGED completions /\ Fault("duplicate")
  /\ UNCHANGED <<caps, amr_goal, arrivals, cobot_task, bridge>>

BridgeAnswers ==
  /\ bridge
  /\ bridge' = FALSE
  /\ DbPullResponse
  /\ UNCHANGED <<caps, amr_goal, arrivals, cobot_task, completions, boundVars>>

NoisyReport ==
  /\ Fault("noise")
  /\ DeltaStatus(Unknown) \/ AmrStatus(Unknown)
  /\ UNCHANGED plantVars

----------------------------------------------------------------------------
(* Time.  A timer elapses only while publish_status would look at it.       *)
LoadingDelayElapses ==
  /\ amr.arrived_at = "running"
  /\ amr' = [amr EXCEPT !.arrived_at = "due"]
  /\ Silent
  /\ UNCHANGED <<order, tapas_clasificadas_pending, tolva_counts, cobot, pallets,
                 flags, nvs, sharedVars, threadVars, boundVars>>

AmrTimeoutElapses ==
  /\ Fault("amr_timeout")
  /\ amr.dispatched_at = "running" /\ amr.arrived_tolva = None
  /\ amr' = [amr EXCEPT !.dispatched_at = "due"]
  /\ Silent
  /\ UNCHANGED <<order, tapas_clasificadas_pending, tolva_counts, cobot, pallets,
                 flags, nvs, sharedVars, threadVars>>

CobotTimeoutElapses ==
  /\ Fault("cobot_timeout")
  /\ cobot.started_at = "running" /\ cobot.in_progress
  /\ cobot' = [cobot EXCEPT !.started_at = "due"]
  /\ Silent
  /\ UNCHANGED <<order, tapas_clasificadas_pending, tolva_counts, amr, pallets,
                 flags, nvs, sharedVars, threadVars>>

----------------------------------------------------------------------------
Plant ==
  \/ \E c \in Tolva : DeltaReports(c)
  \/ AmrArrives \/ \E l \in Location : AmrReports(l)
  \/ CobotFinishes \/ \E p \in completions : CobotReports(p)
  \/ BridgeAnswers \/ NoisyReport

Time == LoadingDelayElapses \/ AmrTimeoutElapses \/ CobotTimeoutElapses

Logic == /\ LogicStep
         /\ IF lost' = {} THEN UNCHANGED boundVars ELSE Fault("publish_error")

Next == Logic \/ ScadaCommand \/ Emergency \/ Plant \/ Time \/ Reboot

Spec == Init /\ [][Next]_vars

(* The scheduler runs logic_task, and an Instant that waits is reached.  A  *)
(* try_lock cannot fail at every cycle: the callback holds ControlState for *)
(* one command, emergency_task the MQTT client for one publication.         *)
LogicFairness ==
  /\ WF_vars(Logic)
  /\ SF_vars(Logic /\ (SpawnAuto \/ SpawnManual) /\ out' # {})
  /\ WF_vars(LoadingDelayElapses)
  /\ WF_vars(AmrTimeoutElapses) /\ WF_vars(CobotTimeoutElapses)

(* Robots that do what they are told and report it. *)
RobotFairness ==
  /\ \A c \in Tolva : WF_vars(DeltaReports(c))
  /\ WF_vars(AmrArrives) /\ \A l \in Location : WF_vars(AmrReports(l))
  /\ WF_vars(CobotFinishes) /\ WF_vars(\E p \in completions : CobotReports(p))

BrokenRobotsSpec == Spec /\ LogicFairness
TimelySpec == Spec /\ LogicFairness /\ RobotFairness

----------------------------------------------------------------------------
(* Every variable has its type. *)
ControlTypeOK ==
  /\ order \in Order
  /\ tapas_clasificadas_pending \in Nat
  /\ tolva_counts \in [Tolva -> Nat] /\ nvs \in [Tolva -> Nat]
  /\ amr \in Amr /\ cobot \in Cobot /\ pallets \in [Tolva -> Pallet]
  /\ flags \subseteq Flag
SharedTypeOK ==
  /\ emergency_stop \in BOOLEAN
  /\ events \in Seq(Event)
  /\ pull_slot \in {"empty", "open", "answered"}
ThreadTypeOK ==
  /\ pc \in PC /\ job \in Job
  /\ color_counter \in Tolva /\ next_caja \in Nat
PlantTypeOK ==
  /\ caps \in [Tolva -> Nat]
  /\ amr_goal \in Location \cup {None} /\ arrivals \subseteq Location
  /\ cobot_task \in Nat \cup {None} /\ completions \subseteq Nat
  /\ bridge \in BOOLEAN
TypeOK == /\ ControlTypeOK /\ SharedTypeOK /\ ThreadTypeOK /\ PlantTypeOK
          /\ commands \in Nat /\ faults \in Nat

(* The five fields that follow the AMR agree between any two steps of any   *)
(* thread: it is on its way exactly when it has a hopper, a dispatch time   *)
(* and a box of that hopper, and it is loading only at that hopper.         *)
AmrCoherent ==
  /\ amr.pending_tolva # None <=> amr.dispatched_at # "off"
  /\ amr.pending_tolva # None <=> amr.caja # None
  /\ amr.caja # None => amr.caja.tolva = amr.pending_tolva
  /\ amr.arrived_tolva # None <=> amr.arrived_at # "off"
  /\ amr.arrived_tolva # None => amr.arrived_tolva = amr.pending_tolva

(* An AMR that is sent to the cobot carries a box: that box is registered   *)
(* in the same step, its hopper and no other is emptied, whatever timeouts, *)
(* resets and late reports came before.  (Both messages are handed to       *)
(* publish_text in that step; the client may refuse either.)                *)
WarehouseTripCarriesBox ==
  [][GoTo(AMR_WAREHOUSE_LOCATION) \in out' =>
       /\ amr.caja # None
       /\ BoxCompleted(amr.caja, order.id_lote) \in out'
       /\ tolva_counts' = [tolva_counts EXCEPT ![amr.caja.tolva] = 0] \/ Reboot]_vars

(* The boxes as the database will know them: the one the AMR was sent for,  *)
(* the one in front of the cobot, the one being recorded.                   *)
BoxFlow == INSTANCE Boxes WITH
  Colours <- Tolva,
  Nobody <- None,
  made <- next_caja,
  amr <- amr.caja,
  cobot <- cobot.pending,
  record <- IF job.caja = None THEN None ELSE [tolva |-> job.color, id |-> job.caja]

(* A box is recorded with the colour of the hopper it was filled at, at     *)
(* most once, and never before an earlier one, through timeouts, lost and   *)
(* repeated reports, resets and restarts.                                   *)
BoxesFlow == BoxFlow!Spec

(* Boxes go through the cell in the order of their ids.                     *)
BoxesInOrder ==
  /\ amr.caja # None => amr.caja.id < next_caja
  /\ cobot.pending # None =>
       /\ cobot.pending.id < next_caja
       /\ amr.caja # None => cobot.pending.id < amr.caja.id
  /\ job.caja # None =>
       /\ job.caja < next_caja
       /\ amr.caja # None => job.caja < amr.caja.id
       /\ cobot.pending # None => job.caja < cobot.pending.id

(* Pallets never hold PALLET_CAPACITY boxes between two steps, and the ids  *)
(* of two colours never meet, however many pallets were closed.             *)
PalletSeries ==
  \A t \in Tolva : /\ pallets[t].boxes < PALLET_CAPACITY
                    /\ pallets[t].id % NumTolvas = (t + 1) % NumTolvas

(* While the cobot works, its timeout runs and the firmware has not yet     *)
(* read a report that it finished: handle_cobot_completed stops the clock   *)
(* of the box that was reported and never that of the next one.  It rests   *)
(* on the report being consumed in the cycle that read it, so it needs both *)
(* try_locks of handle_cobot_completed to find ControlState free.           *)
CobotTimed ==
  cobot.in_progress => cobot.started_at # "off" /\ cobot.completed_event = None

(* A restart at any point, in the middle of a save too, brings every hopper *)
(* back with the count it had, or with the change that was being saved: the *)
(* cap of the report being counted, the box being collected, a reset.  (The *)
(* reports still in the queue go with it; and it needs saves that only a    *)
(* restart cuts short.)                                                     *)
RestartKeepsCounts ==
  [][Reboot => \A t \in Tolva :
       \/ tolva_counts'[t] = tolva_counts[t]
       \/ /\ tolva_counts'[t] = tolva_counts[t] + 1
          /\ pc = "drain" /\ events # <<>> /\ Head(events) = [kind |-> "delta", color |-> t]
       \/ /\ tolva_counts'[t] = 0
          /\ \/ pc = "status" /\ amr.arrived_tolva = t
             \/ commands' # commands]_vars

(* An Auto batch is never overrun: late reports of an earlier batch, resets *)
(* and new orders included.                                                 *)
BatchWithinTarget == /\ order.auto_spawned <= order.auto_target
                     /\ order.auto_validated <= order.auto_target

----------------------------------------------------------------------------
(* The client refuses no command to a robot and no batch_complete; it may   *)
(* refuse anything else.                                                    *)
Command(m) == m.topic \in {"robodk", "amr", "cobot"}
CommandsSent == [](\A m \in lost : ~Command(m) /\ m # BatchComplete(order.auto_target))

(* A full hopper is eventually emptied, though the AMR always goes to the   *)
(* first one that is full and hoppers fill again meanwhile.                 *)
FullHopperCollected ==
  CommandsSent =>
    \A t \in Tolva : tolva_counts[t] >= AMR_TOLVA_THRESHOLD ~> tolva_counts[t] = 0

(* Once the SCADA has given its last command, an unfinished Auto batch is   *)
(* completed, and then announced: no notice left over from an earlier one   *)
(* stands for it.  A spawn that is refused counts as spawned all the same   *)
(* and its cap never comes: hence the premise.                              *)
BatchCompletes ==
  CommandsSent =>
    ((/\ commands = MaxCommands
      /\ order.mode = "Auto"
      /\ order.auto_validated < order.auto_target)
       ~> (/\ BatchComplete(order.auto_target) \in out
           /\ order.auto_validated >= order.auto_target))

(* A status request that was accepted is answered, unless an emergency      *)
(* comes in between or the client refuses the answer.                       *)
StatusAnswered == "status" \in flags ~> (Status \in out \/ emergency_stop)

(* In an emergency that lasts, logic_task ends the cycle it is in, whatever *)
(* it was waiting for, and then stays parked where it publishes nothing.    *)
EmergencyParks == (<>[]emergency_stop) => <>[](pc = "check")

(* An AMR or a cobot that never reports back does not block the cell: the   *)
(* timeouts release it, except while an emergency suspends logic_task (and  *)
(* until the bound on faults is used up).                                   *)
Excused == emergency_stop \/ faults = MaxFaults
AmrReleased == amr.pending_tolva # None ~> (amr.pending_tolva = None \/ Excused)
CobotReleased == cobot.in_progress ~> (~cobot.in_progress \/ Excused)

----------------------------------------------------------------------------
(* What the documents say and the code does not do.                         *)

(* mqtt_messages.md: the cobot reports the pallet it put the box on, and    *)
(* caja_paletizada links the box to that pallet.                            *)
BoxCreditedWhereStacked ==
  [][\A m \in Events(out', "caja_paletizada") : m.pallet = job.reported]_vars

(* SISTEMA.md: batch_complete is published when the batch is complete, that *)
(* is, auto_validated >= auto_target.                                       *)
BatchTruthful ==
  [][\A m \in out' : m = BatchComplete(order.auto_target) =>
        order.auto_target > 0 /\ order.auto_validated >= order.auto_target]_vars
=============================================================================
