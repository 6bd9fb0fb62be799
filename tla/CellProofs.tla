----------------------------- MODULE CellProofs -----------------------------
(* What holds of the cell for any number of hoppers, any threshold and      *)
(* pallet capacity, any commands and faults, and any interleaving.          *)
EXTENDS Cell, TLAPS, WellFoundedInduction

(* The values the defaults and the reset write have their types. *)
LEMMA Defaults ==
  /\ DefaultOrder \in Order /\ NoAmr \in Amr /\ NoCobot \in Cobot
  /\ EmptyTolvas \in [Tolva -> Nat] /\ FirstPallets \in [Tolva -> Pallet]
  /\ NoJob \in Job
  <1>1. Red \in Tolva
    BY CellAssumption DEF Red, Tolva
  <1>2. DefaultOrder \in Order
    BY <1>1 DEF DefaultOrder, Order, Mode
  <1>3. NoAmr \in Amr
    BY DEF NoAmr, Amr, Timer
  <1>4. NoCobot \in Cobot
    BY DEF NoCobot, Cobot, Timer
  <1>5. EmptyTolvas \in [Tolva -> Nat]
    BY DEF EmptyTolvas
  <1>6. FirstPallets \in [Tolva -> Pallet]
    BY DEF FirstPallets, Pallet, Tolva
  <1>7. NoJob \in Job
    BY <1>1 DEF NoJob, Job
  <1> QED
    BY <1>2, <1>3, <1>4, <1>5, <1>6, <1>7

(* What the receivers of messages need to know of them to keep their types. *)
Addressed(msgs) == \A m \in msgs : m.topic = "cobot" => m.pallet \in Nat

LEMMA PublishTyped ==
  ASSUME PlantTypeOK, NEW msgs, Addressed(msgs), Publish(msgs)
  PROVE  PlantTypeOK'
  <1> DEFINE received == msgs \ lost'
  <1>1. Deliver(received) /\ Addressed(received)
    BY DEF Publish, Addressed
  <1> HIDE DEF received
  <1>2. caps' \in [Tolva -> Nat]
    BY <1>1 DEF Deliver, PlantTypeOK
  <1>3. amr_goal' \in Location \cup {None}
    BY <1>1 DEF Deliver, PlantTypeOK
  <1>4. cobot_task' \in Nat \cup {None}
    BY <1>1 DEF Deliver, PlantTypeOK, Addressed
  <1>5. bridge' \in BOOLEAN
    BY <1>1, Zenon DEF Deliver, PlantTypeOK
  <1>6. UNCHANGED <<arrivals, completions>>
    BY <1>1 DEF Deliver
  <1> QED
    BY <1>2, <1>3, <1>4, <1>5, <1>6 DEF PlantTypeOK

LEMMA SilentTyped == PlantTypeOK /\ Silent => PlantTypeOK'
  BY DEF Silent, plantVars, PlantTypeOK

LEMMA SaveTyped ==
  ASSUME NEW counts \in [Tolva -> Nat], nvs \in [Tolva -> Nat], NEW MayFail,
         SaveTolvaCounts(counts, MayFail)
  PROVE  nvs' \in [Tolva -> Nat]
  BY DEF SaveTolvaCounts

LEMMA TypeInit == Init => TypeOK
  <1> SUFFICES ASSUME Init PROVE TypeOK
    OBVIOUS
  <1>1. ControlTypeOK
    BY Defaults DEF Init, ControlTypeOK
  <1>2. SharedTypeOK
    <2>1. emergency_stop \in BOOLEAN /\ events = <<>> /\ pull_slot = "empty"
      BY Zenon DEF Init
    <2>2. events \in Seq(Event)
      BY <2>1
    <2> QED
      BY <2>1, <2>2, Zenon DEF SharedTypeOK
  <1>3. ThreadTypeOK
    <2>1. color_counter \in Tolva
      BY CellAssumption DEF Init, Tolva
    <2> QED
      BY <2>1, Defaults DEF Init, ThreadTypeOK, PC
  <1>4. PlantTypeOK
    <2>1. /\ amr_goal = None /\ arrivals = {} /\ cobot_task = None /\ completions = {}
          /\ caps \in [Tolva -> Nat]
      BY Defaults DEF Init
    <2>2. bridge \in BOOLEAN
      BY Zenon DEF Init
    <2> QED
      BY <2>1, <2>2 DEF PlantTypeOK
  <1> QED
    BY <1>1, <1>2, <1>3, <1>4 DEF Init, TypeOK

----------------------------------------------------------------------------
(* Each step keeps the types.  The callback first. *)
LEMMA SharedSame == SharedTypeOK /\ UNCHANGED sharedVars => SharedTypeOK'
  BY DEF sharedVars, SharedTypeOK

LEMMA ControlSame == ControlTypeOK /\ UNCHANGED controlVars => ControlTypeOK'
  BY DEF controlVars, ControlTypeOK

LEMMA ThreadSame == ThreadTypeOK /\ UNCHANGED threadVars => ThreadTypeOK'
  BY DEF threadVars, ThreadTypeOK

LEMMA CommandsTyped == TypeOK /\ ScadaCommand => TypeOK'
  <1> SUFFICES ASSUME TypeOK, ScadaCommand PROVE TypeOK'
    OBVIOUS
  <1>0. ControlTypeOK /\ SharedTypeOK /\ ThreadTypeOK /\ PlantTypeOK
    BY DEF TypeOK
  <1>1. commands' \in Nat /\ faults' \in Nat
    BY DEF ScadaCommand, TypeOK
  <1>2. UNCHANGED <<sharedVars, threadVars>> /\ Silent
    BY DEF ScadaCommand, ScadaStatus, ScadaSetMode, ScadaGen, ScadaReset
  <1>3. SharedTypeOK' /\ ThreadTypeOK' /\ PlantTypeOK'
    BY <1>0, <1>2, SharedSame, ThreadSame, SilentTyped
  <1> SUFFICES ControlTypeOK'
    BY <1>1, <1>3 DEF TypeOK
  <1>4. CASE ScadaStatus
    BY <1>0, <1>4 DEF ScadaStatus, ControlTypeOK, Flag
  <1>5. CASE \E mode \in Mode : ScadaSetMode(mode)
    <2>1. PICK mode \in Mode : ScadaSetMode(mode)
      BY <1>5
    <2>2. [order EXCEPT !.mode = mode, !.id_lote = None] \in Order
      BY <1>0 DEF ControlTypeOK, Order
    <2> QED
      BY <1>0, <2>1, <2>2 DEF ScadaSetMode, ControlTypeOK
  <1>6. ASSUME NEW quantity \in Quantities, NEW color \in Tolva,
               NEW lote \in Lotes \cup {None}, ScadaGen(quantity, color, lote)
        PROVE  ControlTypeOK'
    <2>1. quantity % U32 \in Nat
      BY PlantAssumption, CellAssumption
    <2>2. AutoOrder(quantity, lote) \in Order /\ ManualOrder(color, lote) \in Order
      BY <1>0, <2>1 DEF AutoOrder, ManualOrder, ControlTypeOK, Order
    <2> QED
      BY <1>0, <1>6, <2>2 DEF ScadaGen, ControlTypeOK
  <1>7. CASE ScadaReset(NvsMayFail)
    <2>1. OrderAfterReset \in Order /\ CobotAfterReset \in Cobot
      BY <1>0, Defaults DEF ControlTypeOK, OrderAfterReset, CobotAfterReset, Order, Cobot, NoCobot
    <2>2. nvs' \in [Tolva -> Nat]
      BY <1>0, <1>7, SaveTyped, Defaults DEF ControlTypeOK, ScadaReset
    <2>3. flags' \subseteq Flag
      BY <1>0, <1>7 DEF ControlTypeOK, ScadaReset, Flag
    <2> QED
      <3>1. /\ tolva_counts' = EmptyTolvas /\ pallets' = FirstPallets /\ amr' = NoAmr
            /\ cobot' = CobotAfterReset /\ order' = OrderAfterReset
            /\ tapas_clasificadas_pending' = 0
        BY <1>7 DEF ScadaReset
      <3> QED
        BY <2>1, <2>2, <2>3, <3>1, Defaults DEF ControlTypeOK
  <1> QED
    BY <1>4, <1>5, <1>6, <1>7 DEF ScadaCommand

(* The robots' reports, the bridge's answer and the noise. *)
LEMMA EventsTyped ==
  /\ \A c \in Tolva \cup {Unknown} : [kind |-> "delta", color |-> c] \in Event
  /\ \A l \in Location : [kind |-> "amr", location |-> l] \in Event
  /\ \A p \in Nat : [kind |-> "cobot", pallet |-> p] \in Event
  BY DEF Event

LEMMA SentTyped ==
  ASSUME SharedTypeOK, ControlTypeOK, ThreadTypeOK, NEW event \in Event, RobotStatus(event)
  PROVE  SharedTypeOK' /\ ControlTypeOK' /\ ThreadTypeOK'
  <1>1. events' \in Seq(Event)
    BY DEF RobotStatus, TrySend, SharedTypeOK
  <1>2. SharedTypeOK'
    BY <1>1 DEF RobotStatus, SharedTypeOK
  <1>3. UNCHANGED <<controlVars, threadVars>>
    BY DEF RobotStatus
  <1> QED
    BY <1>2, <1>3, ControlSame, ThreadSame

LEMMA PlantTyped == TypeOK /\ Plant => TypeOK'
  <1> SUFFICES ASSUME TypeOK, Plant PROVE TypeOK'
    OBVIOUS
  <1>0. /\ ControlTypeOK /\ SharedTypeOK /\ ThreadTypeOK /\ PlantTypeOK
        /\ commands \in Nat /\ faults \in Nat
    BY DEF TypeOK
  <1>1. commands' \in Nat /\ faults' \in Nat
    BY <1>0 DEF Plant, DeltaReports, AmrArrives, AmrReports, CobotFinishes, CobotReports,
                BridgeAnswers, NoisyReport, Fault, boundVars
  <1>2. ASSUME NEW c \in Tolva, DeltaReports(c) PROVE TypeOK'
    <2>1. caps[c] - 1 \in Nat
      BY <1>0, <1>2 DEF DeltaReports, PlantTypeOK
    <2>2. PlantTypeOK'
      BY <1>0, <1>2, <2>1 DEF DeltaReports, PlantTypeOK
    <2>3. \E event \in Event : RobotStatus(event)
      BY <1>2, EventsTyped DEF DeltaReports, DeltaStatus
    <2> QED
      BY <1>0, <1>1, <2>2, <2>3, SentTyped DEF TypeOK
  <1>3. CASE AmrArrives
    <2>1. PlantTypeOK'
      BY <1>0, <1>3 DEF AmrArrives, PlantTypeOK
    <2> QED
      BY <1>0, <1>1, <1>3, <2>1, SharedSame, ControlSame, ThreadSame DEF AmrArrives, TypeOK
  <1>4. ASSUME NEW l \in Location, AmrReports(l) PROVE TypeOK'
    <2>1. PlantTypeOK'
      BY <1>0, <1>4 DEF AmrReports, PlantTypeOK
    <2>2. \E event \in Event : RobotStatus(event)
      BY <1>4, EventsTyped DEF AmrReports, AmrStatus
    <2> QED
      BY <1>0, <1>1, <2>1, <2>2, SentTyped DEF TypeOK
  <1>5. CASE CobotFinishes
    <2>1. PlantTypeOK'
      BY <1>0, <1>5 DEF CobotFinishes, PlantTypeOK
    <2> QED
      BY <1>0, <1>1, <1>5, <2>1, SharedSame, ControlSame, ThreadSame DEF CobotFinishes, TypeOK
  <1>6. ASSUME NEW p \in completions, CobotReports(p) PROVE TypeOK'
    <2>1. PlantTypeOK' /\ p \in Nat
      BY <1>0, <1>6 DEF CobotReports, PlantTypeOK
    <2>2. \E event \in Event : RobotStatus(event)
      BY <1>6, <2>1, EventsTyped DEF CobotReports, CobotStatus
    <2> QED
      BY <1>0, <1>1, <2>1, <2>2, SentTyped DEF TypeOK
  <1>7. CASE BridgeAnswers
    <2>1. bridge' \in BOOLEAN
      BY <1>7, Zenon DEF BridgeAnswers
    <2>2. PlantTypeOK'
      BY <1>0, <1>7, <2>1 DEF BridgeAnswers, PlantTypeOK
    <2>3. SharedTypeOK'
      BY <1>0, <1>7 DEF BridgeAnswers, DbPullResponse, SharedTypeOK
    <2> QED
      BY <1>0, <1>1, <1>7, <2>2, <2>3, ControlSame, ThreadSame
      DEF BridgeAnswers, DbPullResponse, TypeOK
  <1>8. CASE NoisyReport
    <2>1. \E event \in Event : RobotStatus(event)
      BY <1>8, EventsTyped DEF NoisyReport, DeltaStatus, AmrStatus, Location
    <2>2. PlantTypeOK'
      BY <1>0, <1>8 DEF NoisyReport, plantVars, PlantTypeOK
    <2> QED
      BY <1>0, <1>1, <2>1, <2>2, SentTyped DEF TypeOK
  <1> QED
    BY <1>2, <1>3, <1>4, <1>5, <1>6, <1>7, <1>8 DEF Plant

(* Timers and the emergency stop. *)
LEMMA TimeTyped == TypeOK /\ Time => TypeOK'
  <1> SUFFICES ASSUME TypeOK, Time PROVE TypeOK'
    OBVIOUS
  <1>0. /\ ControlTypeOK /\ SharedTypeOK /\ ThreadTypeOK /\ PlantTypeOK
        /\ commands \in Nat /\ faults \in Nat
    BY DEF TypeOK
  <1>1. /\ commands' \in Nat /\ faults' \in Nat
        /\ Silent /\ UNCHANGED <<sharedVars, threadVars>>
    BY <1>0 DEF Time, LoadingDelayElapses, AmrTimeoutElapses, CobotTimeoutElapses, Fault,
                boundVars
  <1>2. SharedTypeOK' /\ ThreadTypeOK' /\ PlantTypeOK'
    BY <1>0, <1>1, SharedSame, ThreadSame, SilentTyped
  <1>3. amr' \in Amr /\ cobot' \in Cobot
    BY <1>0 DEF Time, LoadingDelayElapses, AmrTimeoutElapses, CobotTimeoutElapses,
                ControlTypeOK, Amr, Cobot, Timer
  <1>4. UNCHANGED <<order, tapas_clasificadas_pending, tolva_counts, pallets, flags, nvs>>
    BY DEF Time, LoadingDelayElapses, AmrTimeoutElapses, CobotTimeoutElapses
  <1> QED
    BY <1>0, <1>1, <1>2, <1>3, <1>4 DEF ControlTypeOK, TypeOK

LEMMA EmergencyTyped == TypeOK /\ Emergency => TypeOK'
  <1> SUFFICES ASSUME TypeOK, Emergency PROVE TypeOK'
    OBVIOUS
  <1>1. emergency_stop' \in BOOLEAN /\ UNCHANGED <<events, pull_slot>>
    BY Zenon DEF Emergency, EmergencyAction
  <1>2. SharedTypeOK'
    BY <1>1 DEF SharedTypeOK, TypeOK
  <1>3. Silent /\ UNCHANGED <<controlVars, threadVars, boundVars>>
    BY DEF Emergency, EmergencyAction
  <1> QED
    BY <1>2, <1>3, ControlSame, ThreadSame, SilentTyped DEF TypeOK, boundVars

----------------------------------------------------------------------------
(* logic_task.  A publication that fails counts as a fault, no more. *)
Bounded == commands \in Nat /\ faults \in Nat

LEMMA LogicBounded == TypeOK /\ Logic => Bounded' /\ LogicStep
  BY DEF Logic, Fault, TypeOK, Bounded, boundVars

(* The steps that only move it on. *)
LEMMA MovesTyped ==
  ASSUME TypeOK, Bounded',
         \/ BeginCycle \/ EndDrain \/ CheckBeforeSpawn \/ NoCobotEvent \/ ApplyBusy
         \/ TakeAnswer \/ AnswerTimeout
  PROVE  TypeOK'
  <1>0. /\ ControlTypeOK /\ SharedTypeOK /\ ThreadTypeOK /\ PlantTypeOK
        /\ commands \in Nat /\ faults \in Nat
    BY DEF TypeOK
  <1>1. Silent /\ UNCHANGED <<controlVars, emergency_stop, events, color_counter, next_caja>>
    BY DEF BeginCycle, EndDrain, CheckBeforeSpawn, NoCobotEvent, ApplyBusy, TakeAnswer,
           AnswerTimeout, sharedVars
  <1>2. pull_slot' = pull_slot \/ pull_slot' = "empty"
    BY DEF BeginCycle, EndDrain, CheckBeforeSpawn, NoCobotEvent, ApplyBusy, TakeAnswer,
           AnswerTimeout, sharedVars
  <1>3. SharedTypeOK'
    BY <1>0, <1>1, <1>2 DEF SharedTypeOK
  <1>4. pc' \in PC
    BY DEF BeginCycle, EndDrain, CheckBeforeSpawn, NoCobotEvent, ApplyBusy, TakeAnswer,
           AnswerTimeout, PC
  <1>5. job' \in Job
    <2>1. CASE TakeAnswer
      BY <1>0, <2>1 DEF TakeAnswer, ThreadTypeOK, Job
    <2>2. CASE ~TakeAnswer
      BY <1>0, <2>2 DEF BeginCycle, EndDrain, CheckBeforeSpawn, NoCobotEvent, ApplyBusy,
                        AnswerTimeout, ThreadTypeOK
    <2> QED
      BY <2>1, <2>2
  <1> QED
    BY <1>0, <1>1, <1>3, <1>4, <1>5, ControlSame, SilentTyped
    DEF TypeOK, ThreadTypeOK, Bounded

LEMMA EventTyped == TypeOK /\ ProcessRobotEvent /\ Bounded' => TypeOK'
  <1> SUFFICES ASSUME TypeOK, ProcessRobotEvent, Bounded' PROVE TypeOK'
    OBVIOUS
  <1>0. /\ ControlTypeOK /\ SharedTypeOK /\ ThreadTypeOK /\ PlantTypeOK
        /\ commands \in Nat /\ faults \in Nat
    BY DEF TypeOK
  <1>1. events # <<>> /\ events' = Tail(events)
    BY DEF ProcessRobotEvent
  <1>2. Head(events) \in Event /\ events' \in Seq(Event)
    BY <1>0, <1>1 DEF SharedTypeOK
  <1>3. SharedTypeOK'
    BY <1>0, <1>2 DEF ProcessRobotEvent, SharedTypeOK
  <1>4. Silent /\ UNCHANGED threadVars
    BY DEF ProcessRobotEvent
  <1> SUFFICES ControlTypeOK'
    BY <1>0, <1>3, <1>4, SilentTyped, ThreadSame DEF TypeOK, Bounded
  <1>5. CASE Head(events).kind = "delta" /\ DeltaCompleted(Head(events).color)
    <2> DEFINE c == Head(events).color
    <2>1. c \in Tolva \cup {Unknown}
      BY <1>2, <1>5 DEF Event
    <2>2. CASE c = Unknown
      BY <1>0, <1>5, <2>2, ControlSame DEF DeltaCompleted
    <2>3. CASE c # Unknown
      <3>1. c \in Tolva
        BY <2>1, <2>3
      <3>2. [tolva_counts EXCEPT ![c] = @ + 1] \in [Tolva -> Nat]
        BY <1>0, <3>1 DEF ControlTypeOK
      <3>3. /\ tolva_counts' = [tolva_counts EXCEPT ![c] = @ + 1]
            /\ SaveTolvaCounts([tolva_counts EXCEPT ![c] = @ + 1], NvsMayFail)
            /\ tapas_clasificadas_pending' = TapasAfterDelta
            /\ order' = OrderAfterDelta
            /\ flags' = flags \cup When(BatchDone, "batch_complete")
            /\ UNCHANGED <<amr, cobot, pallets>>
        BY <1>5, <2>3 DEF DeltaCompleted
      <3>4. nvs' \in [Tolva -> Nat]
        BY <1>0, <3>2, <3>3, SaveTyped DEF ControlTypeOK
      <3>5. order' \in Order
        BY <1>0, <3>3 DEF OrderAfterDelta, Validates, ControlTypeOK, Order
      <3>6. tapas_clasificadas_pending' \in Nat
        BY <1>0, <3>3 DEF TapasAfterDelta, ControlTypeOK
      <3>7. flags' \subseteq Flag
        BY <1>0, <3>3 DEF When, Flag, ControlTypeOK
      <3> QED
        BY <1>0, <3>2, <3>3, <3>4, <3>5, <3>6, <3>7 DEF ControlTypeOK
    <2> QED
      BY <2>2, <2>3
  <1>6. CASE Head(events).kind = "amr" /\ AmrArrived(Head(events).location)
    <2>1. amr' \in Amr /\ cobot' \in Cobot
      BY <1>0, <1>6 DEF AmrArrived, ControlTypeOK, Amr, Cobot, Timer
    <2> QED
      BY <1>0, <1>6, <2>1 DEF AmrArrived, ControlTypeOK
  <1>7. CASE Head(events).kind = "cobot" /\ CobotCompleted(Head(events).pallet)
    <2>1. Head(events).pallet \in Nat
      BY <1>2, <1>7 DEF Event
    <2>2. cobot' \in Cobot
      BY <1>0, <1>7, <2>1 DEF CobotCompleted, ControlTypeOK, Cobot
    <2> QED
      BY <1>0, <1>7, <2>2 DEF CobotCompleted, ControlTypeOK
  <1> QED
    BY <1>5, <1>6, <1>7 DEF ProcessRobotEvent

LEMMA ModInRange ==
  ASSUME NEW n \in Nat, NEW d \in Nat \ {0}
  PROVE  n % d \in 0 .. d - 1
  OBVIOUS

LEMMA SpawnTyped ==
  ASSUME TypeOK, SpawnAuto \/ SpawnManual \/ SpawnNothing, Bounded'
  PROVE  TypeOK'
  <1>0. /\ ControlTypeOK /\ SharedTypeOK /\ ThreadTypeOK /\ PlantTypeOK
        /\ commands \in Nat /\ faults \in Nat
    BY DEF TypeOK
  <1>1. SpawnUnchanged /\ pc' \in PC
    BY DEF SpawnAuto, SpawnManual, SpawnNothing, PC
  <1>2. color_counter' \in Tolva
    <2>1. (color_counter + 1) % NumTolvas \in Tolva
      <3>1. NumTolvas \in Nat \ {0} /\ color_counter + 1 \in Nat
        BY <1>0, CellAssumption DEF ThreadTypeOK, Tolva
      <3> QED
        BY <3>1, ModInRange DEF Tolva
    <2> QED
      BY <1>0, <2>1 DEF SpawnAuto, SpawnManual, SpawnNothing, NextCounter, ThreadTypeOK
  <1>3. order' \in Order
    <2>1. /\ [order EXCEPT !.auto_spawned = @ + 1] \in Order
          /\ [order EXCEPT !.manual_spawn_pending = FALSE] \in Order
      <3>1. order \in Order
        BY <1>0 DEF ControlTypeOK
      <3>2. order.auto_spawned + 1 \in Nat /\ FALSE \in BOOLEAN
        BY <3>1 DEF Order
      <3>3. [order EXCEPT !.auto_spawned = @ + 1] \in Order
        BY <3>1, <3>2 DEF Order
      <3>4. [order EXCEPT !.manual_spawn_pending = FALSE] \in Order
        BY <3>1, <3>2 DEF Order
      <3> QED
        BY <3>3, <3>4
    <2>2. \/ order' = order
          \/ order' = [order EXCEPT !.auto_spawned = @ + 1]
          \/ order' = [order EXCEPT !.manual_spawn_pending = FALSE]
      BY DEF SpawnAuto, SpawnManual, SpawnNothing
    <2> QED
      BY <1>0, <2>1, <2>2 DEF ControlTypeOK
  <1>4. PlantTypeOK'
    <2>1. \A c : Addressed({Spawn(c)})
      BY DEF Addressed, Spawn
    <2>2. Silent \/ \E c : Publish({Spawn(c)})
      BY DEF SpawnAuto, SpawnManual, SpawnNothing
    <2> QED
      BY <1>0, <2>1, <2>2, SilentTyped, PublishTyped
  <1>5. ControlTypeOK'
    BY <1>0, <1>1, <1>3 DEF SpawnUnchanged, ControlTypeOK
  <1>6. SharedTypeOK' /\ ThreadTypeOK'
    BY <1>0, <1>1, <1>2, SharedSame DEF SpawnUnchanged, ThreadTypeOK
  <1> QED
    BY <1>0, <1>4, <1>5, <1>6 DEF TypeOK, Bounded

LEMMA CobotJobTyped ==
  ASSUME TypeOK, TakeCobotEvent \/ ApplyCobotEvent, Bounded'
  PROVE  TypeOK'
  <1>0. /\ ControlTypeOK /\ SharedTypeOK /\ ThreadTypeOK /\ PlantTypeOK
        /\ commands \in Nat /\ faults \in Nat
    BY DEF TypeOK
  <1>1. /\ Silent /\ pc' \in PC
        /\ UNCHANGED <<order, tapas_clasificadas_pending, tolva_counts, amr, flags, nvs,
                       sharedVars, color_counter, next_caja>>
    BY DEF TakeCobotEvent, ApplyCobotEvent, PC
  <1>2. CASE TakeCobotEvent
    BY <1>0, <1>1, <1>2, SilentTyped, SharedSame
    DEF TakeCobotEvent, ControlTypeOK, ThreadTypeOK, Cobot, Job, TypeOK, Bounded
  <1>3. CASE ApplyCobotEvent
    <2>1. Credited.tolva \in Tolva /\ Credited.id \in Nat \cup {None}
      <3>1. CASE cobot.pending = None
        BY <3>1, CellAssumption DEF Credited, Red, Tolva
      <3>2. CASE cobot.pending # None
        <4>1. cobot.pending \in Caja
          BY <1>0, <3>2 DEF ControlTypeOK, Cobot
        <4> QED
          BY <3>2, <4>1 DEF Credited, Caja
      <3> QED
        BY <3>1, <3>2
    <2>2. pallets[Credited.tolva] \in Pallet
      BY <1>0, <2>1 DEF ControlTypeOK
    <2>3. PalletAfterBox(pallets[Credited.tolva]) \in Pallet
      BY <2>2, CellAssumption DEF PalletAfterBox, Pallet
    <2>4. pallets' \in [Tolva -> Pallet]
      BY <1>0, <1>3, <2>1, <2>3 DEF ApplyCobotEvent, ControlTypeOK
    <2>5. cobot' \in Cobot
      BY <1>0, <1>3 DEF ApplyCobotEvent, ControlTypeOK, Cobot, Timer
    <2>6. FillsPallet \in BOOLEAN /\ pallets[Credited.tolva].id \in Nat
      BY <2>2 DEF FillsPallet, Pallet
    <2>7. job' = [job EXCEPT !.caja = Credited.id, !.color = Credited.tolva,
                             !.pallet = pallets[Credited.tolva].id, !.full = FillsPallet,
                             !.operario = FALSE]
      BY <1>3 DEF ApplyCobotEvent
    <2>8. job' \in Job
      BY <1>0, <2>1, <2>6, <2>7 DEF ThreadTypeOK, Job
    <2>9. ControlTypeOK' /\ ThreadTypeOK'
      BY <1>0, <1>1, <2>4, <2>5, <2>8 DEF ControlTypeOK, ThreadTypeOK
    <2> QED
      BY <1>0, <1>1, <2>9, SilentTyped, SharedSame DEF TypeOK, Bounded
  <1> QED
    BY <1>2, <1>3

LEMMA PublishingTyped ==
  ASSUME TypeOK, AskOperarios \/ PublishCajaPaletizada \/ NotifyPalletFull,
         Bounded'
  PROVE  TypeOK'
  <1>0. /\ ControlTypeOK /\ SharedTypeOK /\ ThreadTypeOK /\ PlantTypeOK
        /\ commands \in Nat /\ faults \in Nat
    BY DEF TypeOK
  <1>1. /\ UNCHANGED <<controlVars, emergency_stop, events, job, color_counter, next_caja>>
        /\ pc' \in PC /\ pull_slot' \in {pull_slot, "open"}
    BY DEF AskOperarios, PublishCajaPaletizada, NotifyPalletFull, sharedVars, PC
  <1>2. PlantTypeOK'
    <2>1. job.caja \in Nat \cup {None}
      BY <1>0 DEF ThreadTypeOK, Job
    <2>2. /\ Addressed({QueryOperarios}) /\ Addressed({CajaPaletizada(job)})
          /\ Addressed({PalletFull(job.pallet, job.color)})
      BY <2>1 DEF Addressed, QueryOperarios, CajaPaletizada, PalletFull
    <2>3. \/ Silent \/ Publish({QueryOperarios}) \/ Publish({CajaPaletizada(job)})
          \/ Publish({PalletFull(job.pallet, job.color)})
      BY DEF AskOperarios, PublishCajaPaletizada, NotifyPalletFull
    <2> QED
      BY <1>0, <2>2, <2>3, SilentTyped, PublishTyped
  <1>3. SharedTypeOK' /\ ThreadTypeOK'
    BY <1>0, <1>1 DEF SharedTypeOK, ThreadTypeOK
  <1> QED
    BY <1>0, <1>1, <1>2, <1>3, ControlSame DEF TypeOK, Bounded

(* publish_status, part by part. *)
LEMMA AmrKeptTyped ==
  ASSUME ControlTypeOK
  PROVE  AmrKept \in Amr
  BY DEF ControlTypeOK, AmrKept, Amr, Timer

LEMMA FirstFullTyped ==
  ASSUME FullTolvas # {}
  PROVE  FirstFull \in FullTolvas /\ FirstFull \in Tolva
  <1>1. FullTolvas \subseteq Nat
    BY DEF FullTolvas, Tolva
  <1>2. \E t \in FullTolvas : \A u \in FullTolvas : t <= u
    <2> DEFINE Less == {x \in Nat \X Nat : x[1] < x[2]}
    <2>1. IsWellFoundedOn(Less, Nat)
      BY NatLessThanWellFounded DEF OpToRel
    <2>2. \E t \in FullTolvas : \A u \in FullTolvas : <<u, t>> \notin Less
      BY <1>1, <2>1, WFMin
    <2>3. ASSUME NEW x \in Nat, NEW y \in Nat, x < y PROVE <<x, y>> \in Less
      <3>1. <<x, y>> \in Nat \X Nat /\ <<x, y>>[1] = x /\ <<x, y>>[2] = y
        OBVIOUS
      <3> QED
        BY <2>3, <3>1
    <2>4. PICK t \in FullTolvas : \A u \in FullTolvas : <<u, t>> \notin Less
      BY <2>2
    <2> HIDE DEF Less
    <2>5. \A u \in FullTolvas : ~(u < t)
      BY <1>1, <2>3, <2>4
    <2> QED
      BY <1>1, <2>5
  <1> QED
    BY <1>2 DEF FirstFull, FullTolvas

LEMMA AmrAfterStatusTyped ==
  ASSUME TypeOK
  PROVE  AmrAfterStatus \in Amr /\ NextCaja \in Nat
  <1>1. AmrKept \in Amr
    BY AmrKeptTyped DEF TypeOK
  <1>2. next_caja \in Nat
    BY DEF TypeOK, ThreadTypeOK
  <1>3. CASE Loaded
    <2>1. ~Dispatched
      BY <1>3 DEF Loaded, Dispatched
    <2> QED
      BY <1>2, <1>3, <2>1, Defaults DEF AmrAfterStatus, NextCaja
  <1>4. CASE ~Loaded /\ Dispatched
    <2>1. FirstFull \in Tolva
      BY <1>4, FirstFullTyped DEF Dispatched
    <2>2. [tolva |-> FirstFull, id |-> next_caja] \in Caja
      BY <1>2, <2>1 DEF Caja
    <2>3. [AmrKept EXCEPT !.pending_tolva = FirstFull, !.dispatched_at = "running",
                          !.caja = [tolva |-> FirstFull, id |-> next_caja]] \in Amr
      BY <1>1, <2>1, <2>2 DEF Amr, Timer
    <2> QED
      BY <1>2, <1>4, <2>3 DEF AmrAfterStatus, NextCaja
  <1>5. CASE ~Loaded /\ ~Dispatched
    BY <1>1, <1>2, <1>5 DEF AmrAfterStatus, NextCaja
  <1> QED
    BY <1>2, <1>3, <1>4, <1>5 DEF NextCaja

LEMMA CobotAfterStatusTyped ==
  ASSUME TypeOK
  PROVE  /\ CobotAfterStatus \in Cobot
         /\ StartColor \in Tolva /\ pallets[StartColor].id \in Nat
  <1>0. cobot \in Cobot /\ AmrKept \in Amr /\ pallets \in [Tolva -> Pallet]
    BY AmrKeptTyped DEF TypeOK, ControlTypeOK
  <1>1. CobotPending \in Caja \cup {None}
    BY <1>0 DEF CobotPending, Amr, Cobot
  <1>2. CobotLost \in BOOLEAN /\ CobotStarts \in BOOLEAN
    BY <1>0 DEF CobotLost, CobotStarts, Cobot
  <1>3. /\ (cobot.ready /\ ~CobotStarts) \in BOOLEAN
        /\ ((cobot.in_progress /\ ~CobotLost) \/ CobotStarts) \in BOOLEAN
    BY Zenon
  <1>4. (IF CobotStarts THEN "running" ELSE IF CobotLost THEN "off" ELSE cobot.started_at)
          \in Timer
    BY <1>0 DEF Cobot, Timer
  <1>5. CobotAfterStatus \in Cobot
    BY <1>0, <1>1, <1>3, <1>4 DEF CobotAfterStatus, Cobot
  <1>6. StartColor \in Tolva
    <2>1. CASE CobotAfterStatus.pending = None
      BY <2>1, CellAssumption DEF StartColor, Red, Tolva
    <2>2. CASE CobotAfterStatus.pending # None
      <3>1. CobotAfterStatus.pending \in Caja
        BY <1>5, <2>2 DEF Cobot
      <3> QED
        BY <2>2, <3>1 DEF StartColor, Caja
    <2> QED
      BY <2>1, <2>2
  <1> QED
    BY <1>0, <1>5, <1>6 DEF Pallet

LEMMA StatusAddressed ==
  ASSUME TypeOK
  PROVE  Addressed(StatusMessages)
  <1>1. Addressed(Notices)
    BY DEF Addressed, Notices, When, TapaClasificada, DbReset, BatchComplete, Status
  <1>2. Addressed(AmrCommands)
    BY DEF Addressed, AmrCommands, When, GoTo, BoxCompleted
  <1>3. Addressed(CobotCommands)
    BY CobotAfterStatusTyped DEF Addressed, CobotCommands, When, CobotStart
  <1> QED
    BY <1>1, <1>2, <1>3 DEF Addressed, StatusMessages

LEMMA CountsAfterLoadTyped ==
  ASSUME ControlTypeOK
  PROVE  CountsAfterLoad \in [Tolva -> Nat]
  BY DEF ControlTypeOK, CountsAfterLoad

LEMMA StatusTyped == TypeOK /\ PublishStatus /\ Bounded' => TypeOK'
  <1> SUFFICES ASSUME TypeOK, PublishStatus, Bounded' PROVE TypeOK'
    OBVIOUS
  <1>0. /\ ControlTypeOK /\ SharedTypeOK /\ ThreadTypeOK /\ PlantTypeOK
        /\ commands \in Nat /\ faults \in Nat
    BY DEF TypeOK
  <1>1. PlantTypeOK'
    BY <1>0, StatusAddressed, PublishTyped DEF PublishStatus
  <1>2. nvs' \in [Tolva -> Nat]
    BY <1>0, CountsAfterLoadTyped, SaveTyped DEF PublishStatus, SaveAfterLoad, ControlTypeOK
  <1>3. tapas_clasificadas_pending' \in Nat
    BY <1>0 DEF PublishStatus, ControlTypeOK
  <1>4. /\ flags' = {} /\ tolva_counts' = CountsAfterLoad /\ amr' = AmrAfterStatus
        /\ next_caja' = NextCaja /\ job' = NoJob /\ cobot' = CobotAfterStatus
        /\ pc' = "check" /\ UNCHANGED <<order, pallets, sharedVars, color_counter>>
    BY DEF PublishStatus
  <1>5. ControlTypeOK'
    BY <1>0, <1>2, <1>3, <1>4, CountsAfterLoadTyped, AmrAfterStatusTyped,
       CobotAfterStatusTyped DEF ControlTypeOK
  <1>6. ThreadTypeOK'
    BY <1>0, <1>4, AmrAfterStatusTyped, Defaults DEF ThreadTypeOK, PC
  <1> QED
    BY <1>0, <1>1, <1>4, <1>5, <1>6, SharedSame DEF TypeOK, Bounded

(* A restart: whatever it cuts short, flash and the plant keep their types. *)
Cut == BetweenSections \/ CutDelta \/ CutLoad \/ CutPublish \/ CutReset

LEMMA CutTyped ==
  ASSUME TypeOK, Cut
  PROVE  nvs' \in [Tolva -> Nat] /\ commands' \in Nat /\ PlantTypeOK'
  <1>0. ControlTypeOK /\ SharedTypeOK /\ PlantTypeOK /\ commands \in Nat
    BY DEF TypeOK
  <1>1. CASE BetweenSections
    BY <1>0, <1>1, SilentTyped DEF BetweenSections, ControlTypeOK
  <1>2. CASE CutDelta
    <2>1. Head(events) \in Event /\ Head(events).kind = "delta"
      BY <1>0, <1>2 DEF CutDelta, SharedTypeOK
    <2>2. Head(events).color \in Tolva
      BY <1>2, <2>1 DEF CutDelta, Event
    <2>3. [tolva_counts EXCEPT ![Head(events).color] = @ + 1] \in [Tolva -> Nat]
      BY <1>0, <2>2 DEF ControlTypeOK
    <2>4. nvs' \in [Tolva -> Nat]
      BY <1>0, <1>2, <2>3, SaveTyped DEF CutDelta, ControlTypeOK
    <2> QED
      BY <1>0, <1>2, <2>4, SilentTyped DEF CutDelta
  <1>3. CASE CutReset
    <2>1. nvs' \in [Tolva -> Nat]
      BY <1>0, <1>3, SaveTyped, Defaults DEF CutReset, ControlTypeOK
    <2> QED
      BY <1>0, <1>3, <2>1, SilentTyped DEF CutReset
  <1>4. CASE CutLoad
    <2>1. nvs' \in [Tolva -> Nat]
      BY <1>0, <1>4, SaveTyped, CountsAfterLoadTyped DEF CutLoad, ControlTypeOK
    <2> QED
      BY <1>0, <1>4, <2>1, SilentTyped DEF CutLoad
  <1>5. CASE CutPublish
    <2>1. nvs' \in [Tolva -> Nat]
      BY <1>0, <1>5, SaveTyped, CountsAfterLoadTyped DEF CutPublish, SaveAfterLoad, ControlTypeOK
    <2>2. PICK n \in 0 .. 6 : Publish({m \in StatusMessages : Rank(m) <= n})
      BY <1>5 DEF CutPublish
    <2>3. Addressed({m \in StatusMessages : Rank(m) <= n})
      BY StatusAddressed DEF Addressed
    <2>4. PlantTypeOK'
      BY <1>0, <2>2, <2>3, PublishTyped
    <2> QED
      BY <1>0, <1>5, <2>1, <2>4 DEF CutPublish
  <1> QED
    BY <1>1, <1>2, <1>3, <1>4, <1>5 DEF Cut

LEMMA RebootTyped == TypeOK /\ Reboot => TypeOK'
  <1> SUFFICES ASSUME TypeOK, Reboot PROVE TypeOK'
    OBVIOUS
  <1>0. nvs' \in [Tolva -> Nat] /\ commands' \in Nat /\ PlantTypeOK'
    BY CutTyped DEF Reboot, Cut
  <1>1. faults' \in Nat
    BY DEF Reboot, TypeOK
  <1>2. ControlTypeOK'
    <2>1. /\ order' = DefaultOrder /\ tapas_clasificadas_pending' = 0
          /\ tolva_counts' = nvs' /\ amr' = NoAmr /\ cobot' = NoCobot
          /\ pallets' = FirstPallets /\ flags' = {}
      BY DEF Reboot
    <2> QED
      BY <1>0, <2>1, Defaults DEF ControlTypeOK
  <1>3. emergency_stop' \in BOOLEAN /\ events' = <<>> /\ pull_slot' = "empty"
    BY Zenon DEF Reboot
  <1>4. events' \in Seq(Event)
    BY <1>3
  <1>5. SharedTypeOK'
    BY <1>3, <1>4, Zenon DEF SharedTypeOK
  <1>6. ThreadTypeOK'
    <2>1. /\ pc' = "check" /\ job' = NoJob /\ color_counter' = 0 /\ next_caja' = 1
      BY DEF Reboot
    <2>2. color_counter' \in Tolva
      BY <2>1, CellAssumption DEF Tolva
    <2> QED
      BY <2>1, <2>2, Defaults DEF ThreadTypeOK, PC
  <1> QED
    BY <1>0, <1>1, <1>2, <1>5, <1>6 DEF TypeOK

LEMMA TypeStep == TypeOK /\ [Next]_vars => TypeOK'
  <1> SUFFICES ASSUME TypeOK, [Next]_vars PROVE TypeOK'
    OBVIOUS
  <1>1. CASE Logic
    BY <1>1, LogicBounded, MovesTyped, EventTyped, SpawnTyped, CobotJobTyped,
       PublishingTyped, StatusTyped DEF LogicStep
  <1>2. CASE UNCHANGED vars
    BY <1>2 DEF vars, controlVars, sharedVars, threadVars, plantVars, boundVars, TypeOK,
                ControlTypeOK, SharedTypeOK, ThreadTypeOK, PlantTypeOK
  <1> QED
    BY <1>1, <1>2, CommandsTyped, PlantTyped, TimeTyped, EmergencyTyped, RebootTyped DEF Next

(* Every variable of the cell keeps its type in every behaviour. *)
THEOREM TypeCorrect == Spec => []TypeOK
  BY TypeInit, TypeStep, PTL DEF Spec

----------------------------------------------------------------------------
(* The AMR's fields. *)

LEMMA AmrSame == AmrCoherent /\ amr' = amr => AmrCoherent'
  BY DEF AmrCoherent

LEMMA AmrCleared == amr' = NoAmr => AmrCoherent'
  BY DEF AmrCoherent, NoAmr

(* The steps that leave the AMR's fields alone. *)
LEMMA AmrLeftAlone ==
  ASSUME \/ BeginCycle \/ EndDrain \/ CheckBeforeSpawn \/ SpawnAuto \/ SpawnManual
         \/ SpawnNothing \/ TakeCobotEvent \/ NoCobotEvent \/ ApplyCobotEvent \/ ApplyBusy
         \/ AskOperarios \/ TakeAnswer \/ AnswerTimeout \/ PublishCajaPaletizada
         \/ NotifyPalletFull \/ Emergency \/ Plant \/ CobotTimeoutElapses
  PROVE  amr' = amr
  <1>1. BeginCycle \/ EndDrain \/ CheckBeforeSpawn \/ NoCobotEvent \/ ApplyBusy => amr' = amr
    BY DEF BeginCycle, EndDrain, CheckBeforeSpawn, NoCobotEvent, ApplyBusy, controlVars
  <1>2. SpawnAuto \/ SpawnManual \/ SpawnNothing => amr' = amr
    BY DEF SpawnAuto, SpawnManual, SpawnNothing, SpawnUnchanged
  <1>3. TakeCobotEvent \/ ApplyCobotEvent => amr' = amr
    BY DEF TakeCobotEvent, ApplyCobotEvent
  <1>4. AskOperarios \/ TakeAnswer \/ AnswerTimeout => amr' = amr
    BY DEF AskOperarios, TakeAnswer, AnswerTimeout, controlVars
  <1>5. PublishCajaPaletizada \/ NotifyPalletFull => amr' = amr
    BY DEF PublishCajaPaletizada, NotifyPalletFull, controlVars
  <1>6. Emergency \/ CobotTimeoutElapses => amr' = amr
    BY DEF Emergency, EmergencyAction, CobotTimeoutElapses, controlVars
  <1>7. Plant => amr' = amr
    BY DEF Plant, DeltaReports, AmrArrives, AmrReports, CobotFinishes, CobotReports,
           BridgeAnswers, NoisyReport, DeltaStatus, AmrStatus, CobotStatus, RobotStatus,
           DbPullResponse, controlVars
  <1> QED
    BY <1>1, <1>2, <1>3, <1>4, <1>5, <1>6, <1>7

LEMMA AmrEvent == TypeOK /\ AmrCoherent /\ ProcessRobotEvent => AmrCoherent'
  <1> SUFFICES ASSUME TypeOK, AmrCoherent, ProcessRobotEvent PROVE AmrCoherent'
    OBVIOUS
  <1>1. \/ \E c : DeltaCompleted(c) \/ \E l : AmrArrived(l) \/ \E p : CobotCompleted(p)
    BY DEF ProcessRobotEvent
  <1>2. ASSUME NEW c, DeltaCompleted(c) PROVE amr' = amr
    BY <1>2 DEF DeltaCompleted, controlVars
  <1>3. ASSUME NEW p, CobotCompleted(p) PROVE amr' = amr
    BY <1>3 DEF CobotCompleted
  <1>4. ASSUME NEW l, AmrArrived(l) PROVE AmrCoherent'
    <2>1. amr \in Amr
      BY DEF TypeOK, ControlTypeOK
    <2>2. CASE l \in Tolva /\ amr.pending_tolva = l
      <3>1. amr' = [amr EXCEPT !.arrived_tolva = l, !.arrived_at = "running"]
        BY <1>4, <2>2 DEF AmrArrived
      <3>2. /\ amr'.arrived_tolva = l /\ amr'.arrived_at = "running"
            /\ amr'.pending_tolva = amr.pending_tolva
            /\ amr'.dispatched_at = amr.dispatched_at /\ amr'.caja = amr.caja
        BY <2>1, <3>1 DEF Amr
      <3>3. l # None
        BY <2>2, CellAssumption DEF Tolva
      <3> QED
        BY <2>2, <3>2, <3>3 DEF AmrCoherent
    <2>3. CASE ~(l \in Tolva /\ amr.pending_tolva = l)
      BY <1>4, <2>3, AmrSame DEF AmrArrived
    <2> QED
      BY <2>2, <2>3
  <1> QED
    BY <1>1, <1>2, <1>3, <1>4, AmrSame

(* The timeout drops the box with the trip, so what is kept is coherent. *)
LEMMA AmrStatusCoherent ==
  ASSUME TypeOK, AmrCoherent, PublishStatus
  PROVE  AmrCoherent'
  <1>1. amr \in Amr /\ AmrKept \in Amr /\ amr' = AmrAfterStatus
    BY AmrKeptTyped DEF TypeOK, ControlTypeOK, PublishStatus
  <1>2. CASE Loaded
    <2>1. ~Dispatched
      BY <1>2 DEF Loaded, Dispatched
    <2> QED
      BY <1>1, <1>2, <2>1, AmrCleared DEF AmrAfterStatus
  <1>3. CASE ~Loaded /\ Dispatched
    <2>1. FirstFull \in Tolva
      BY <1>3, FirstFullTyped DEF Dispatched
    <2>2. FirstFull # None
      BY <2>1, CellAssumption DEF Tolva
    <2>3. [tolva |-> FirstFull, id |-> next_caja] \in Caja
      BY <2>1 DEF Caja, TypeOK, ThreadTypeOK
    <2>4. amr' = [AmrKept EXCEPT !.pending_tolva = FirstFull, !.dispatched_at = "running",
                                 !.caja = [tolva |-> FirstFull, id |-> next_caja]]
      BY <1>1, <1>3 DEF AmrAfterStatus
    <2>5. /\ amr'.pending_tolva = FirstFull /\ amr'.dispatched_at = "running"
          /\ amr'.caja = [tolva |-> FirstFull, id |-> next_caja]
          /\ amr'.arrived_tolva = AmrKept.arrived_tolva
          /\ amr'.arrived_at = AmrKept.arrived_at
      BY <1>1, <2>4 DEF Amr
    <2>6. AmrKept.arrived_tolva = None /\ AmrKept.arrived_at = "off"
      BY <1>1, <1>3 DEF Dispatched, AmrKept, AmrCoherent, Amr
    <2>7. amr'.caja # None /\ amr'.caja.tolva = FirstFull
      BY <2>3, <2>5, CajaAssumption
    <2> QED
      BY <2>2, <2>5, <2>6, <2>7 DEF AmrCoherent
  <1>4. CASE ~Loaded /\ ~Dispatched
    <2>1. amr' = AmrKept
      BY <1>1, <1>4 DEF AmrAfterStatus
    <2>2. CASE AmrLost
      <3>1. amr' = [amr EXCEPT !.pending_tolva = None, !.dispatched_at = "off", !.caja = None]
        BY <2>1, <2>2 DEF AmrKept
      <3>2. /\ amr'.pending_tolva = None /\ amr'.dispatched_at = "off" /\ amr'.caja = None
            /\ amr'.arrived_tolva = amr.arrived_tolva /\ amr'.arrived_at = amr.arrived_at
        BY <1>1, <3>1 DEF Amr
      <3>3. amr.arrived_tolva = None
        BY <2>2 DEF AmrLost
      <3> QED
        BY <3>2, <3>3 DEF AmrCoherent
    <2>3. CASE ~AmrLost
      BY <2>1, <2>3, AmrSame DEF AmrKept
    <2> QED
      BY <2>2, <2>3
  <1> QED
    BY <1>2, <1>3, <1>4

LEMMA AmrStep == TypeOK /\ AmrCoherent /\ [Next]_vars => AmrCoherent'
  <1> SUFFICES ASSUME TypeOK, AmrCoherent, [Next]_vars PROVE AmrCoherent'
    OBVIOUS
  <1>1. CASE Logic
    BY <1>1, AmrLeftAlone, AmrSame, AmrEvent, AmrStatusCoherent DEF Logic, LogicStep
  <1>2. CASE ScadaCommand
    BY <1>2, AmrSame, AmrCleared
    DEF ScadaCommand, ScadaStatus, ScadaSetMode, ScadaGen, ScadaReset
  <1>3. CASE Emergency \/ Plant
    BY <1>3, AmrLeftAlone, AmrSame
  <1>4. CASE Time
    <2>1. amr \in Amr
      BY DEF TypeOK, ControlTypeOK
    <2>2. CASE LoadingDelayElapses
      <3>1. /\ amr.arrived_at = "running" /\ amr'.arrived_at = "due"
            /\ amr'.pending_tolva = amr.pending_tolva
            /\ amr'.dispatched_at = amr.dispatched_at
            /\ amr'.arrived_tolva = amr.arrived_tolva /\ amr'.caja = amr.caja
        BY <2>1, <2>2 DEF LoadingDelayElapses, Amr
      <3> QED
        BY <3>1 DEF AmrCoherent
    <2>3. CASE AmrTimeoutElapses
      <3>1. /\ amr.dispatched_at = "running" /\ amr'.dispatched_at = "due"
            /\ amr'.pending_tolva = amr.pending_tolva
            /\ amr'.arrived_at = amr.arrived_at
            /\ amr'.arrived_tolva = amr.arrived_tolva /\ amr'.caja = amr.caja
        BY <2>1, <2>3 DEF AmrTimeoutElapses, Amr
      <3> QED
        BY <3>1 DEF AmrCoherent
    <2>4. CASE CobotTimeoutElapses
      BY <2>4, AmrLeftAlone, AmrSame
    <2> QED
      BY <1>4, <2>2, <2>3, <2>4 DEF Time
  <1>5. CASE Reboot
    BY <1>5, AmrCleared DEF Reboot
  <1>6. CASE UNCHANGED vars
    BY <1>6, AmrSame DEF vars, controlVars
  <1> QED
    BY <1>1, <1>2, <1>3, <1>4, <1>5, <1>6 DEF Next

(* The five fields that follow the AMR agree in every behaviour: AmrCoherent *)
(* is inductive together with the types.                                    *)
THEOREM AmrFieldsAgree == Spec => []AmrCoherent
  <1>1. Init => AmrCoherent
    BY DEF Init, AmrCoherent, NoAmr
  <1> QED
    BY <1>1, AmrStep, TypeCorrect, PTL DEF Spec

----------------------------------------------------------------------------
(* The trip to the cobot. *)

ToWarehouse(msgs) == GoTo(AMR_WAREHOUSE_LOCATION) \in msgs

(* No section but publish_status sends the AMR anywhere. *)
LEMMA OnlyStatusMovesAmr ==
  ASSUME Next, ~PublishStatus, ~Reboot
  PROVE  ~ToWarehouse(out')
  <1>1. ASSUME Silent PROVE ~ToWarehouse(out')
    BY <1>1 DEF Silent, Quiet, ToWarehouse
  <1>2. ASSUME NEW m, Publish({m}), m.topic # "amr" PROVE ~ToWarehouse(out')
    BY <1>2 DEF Publish, ToWarehouse, GoTo
  <1>3. CASE BeginCycle \/ ProcessRobotEvent \/ EndDrain \/ CheckBeforeSpawn
               \/ SpawnNothing \/ TakeCobotEvent \/ NoCobotEvent \/ ApplyCobotEvent
               \/ ApplyBusy \/ TakeAnswer \/ AnswerTimeout
    BY <1>1, <1>3 DEF BeginCycle, ProcessRobotEvent, EndDrain, CheckBeforeSpawn,
      SpawnNothing, TakeCobotEvent, NoCobotEvent, ApplyCobotEvent, ApplyBusy, TakeAnswer,
      AnswerTimeout
  <1>4. CASE SpawnAuto \/ SpawnManual
    <2>1. \A c : Spawn(c).topic # "amr"
      BY DEF Spawn
    <2>2. Silent \/ \E c : Publish({Spawn(c)})
      BY <1>4 DEF SpawnAuto, SpawnManual
    <2> QED
      BY <1>1, <1>2, <2>1, <2>2
  <1>5. CASE AskOperarios \/ PublishCajaPaletizada \/ NotifyPalletFull
    <2>1. /\ QueryOperarios.topic # "amr" /\ CajaPaletizada(job).topic # "amr"
          /\ PalletFull(job.pallet, job.color).topic # "amr"
      BY DEF QueryOperarios, CajaPaletizada, PalletFull
    <2>2. \/ Silent \/ Publish({QueryOperarios}) \/ Publish({CajaPaletizada(job)})
          \/ Publish({PalletFull(job.pallet, job.color)})
      BY <1>5 DEF AskOperarios, PublishCajaPaletizada, NotifyPalletFull
    <2> QED
      BY <1>1, <1>2, <2>1, <2>2
  <1>6. CASE ScadaCommand \/ Emergency \/ Time
    BY <1>1, <1>6 DEF ScadaCommand, ScadaStatus, ScadaSetMode, ScadaGen, ScadaReset,
      Emergency, EmergencyAction, Time, LoadingDelayElapses, AmrTimeoutElapses,
      CobotTimeoutElapses
  <1>7. CASE Plant
    <2>1. out' = {}
      BY <1>7 DEF Plant, DeltaReports, AmrArrives, AmrReports, CobotFinishes, CobotReports,
        BridgeAnswers, NoisyReport, DeltaStatus, AmrStatus, CobotStatus, RobotStatus,
        DbPullResponse, Quiet
    <2> QED
      BY <2>1 DEF ToWarehouse
  <1> QED
    BY <1>3, <1>4, <1>5, <1>6, <1>7 DEF Next, Logic, LogicStep

(* publish_status sends it to the cobot only when the loading delay is over; *)
(* the fields being coherent, it then has the box of the hopper it stands at. *)
LEMMA TripLoaded ==
  ASSUME TypeOK, AmrCoherent, ToWarehouse(StatusMessages)
  PROVE  /\ amr.caja # None
         /\ BoxCompleted(amr.caja, order.id_lote) \in StatusMessages
         /\ CountsAfterLoad = [tolva_counts EXCEPT ![amr.caja.tolva] = 0]
  <1>3. GoTo(AMR_WAREHOUSE_LOCATION) \notin Notices
    BY DEF Notices, When, TapaClasificada, DbReset, BatchComplete, Status, GoTo
  <1>4. GoTo(AMR_WAREHOUSE_LOCATION) \notin CobotCommands
    BY DEF CobotCommands, When, CobotStart, GoTo
  <1>5. Dispatched => GoTo(FirstFull) # GoTo(AMR_WAREHOUSE_LOCATION)
    <2>1. Dispatched => FirstFull \in Nat
      BY FirstFullTyped DEF Dispatched, Tolva
    <2>2. AMR_WAREHOUSE_LOCATION \notin Nat
      BY CellAssumption
    <2>3. \A k, l : GoTo(k) = GoTo(l) => k = l
      <3>1. \A l : GoTo(l).location = l
        BY DEF GoTo
      <3> QED
        BY <3>1
    <2> QED
      BY <2>1, <2>2, <2>3
  <1>6. Loaded
    <2>1. AmrKept.caja # None =>
            BoxCompleted(AmrKept.caja, order.id_lote) # GoTo(AMR_WAREHOUSE_LOCATION)
      BY DEF BoxCompleted, GoTo
    <2> QED
      BY <1>3, <1>4, <1>5, <2>1 DEF ToWarehouse, StatusMessages, AmrCommands, When
  <1>7. /\ amr.arrived_tolva # None /\ amr.arrived_tolva = amr.pending_tolva
        /\ amr.caja # None /\ amr.caja.tolva = amr.arrived_tolva
    BY <1>6 DEF Loaded, AmrCoherent
  <1>8. AmrKept = amr
    BY <1>7 DEF AmrKept, AmrLost
  <1>9. BoxCompleted(amr.caja, order.id_lote) \in StatusMessages
    BY <1>6, <1>7, <1>8 DEF StatusMessages, AmrCommands, When
  <1>10. CountsAfterLoad = [tolva_counts EXCEPT ![amr.caja.tolva] = 0]
    BY <1>6, <1>7 DEF CountsAfterLoad, Emptied
  <1> QED
    BY <1>7, <1>9, <1>10

(* A restart that lets that message out has let box_completed out before.   *)
LEMMA TripStep ==
  ASSUME TypeOK, AmrCoherent, Next, ToWarehouse(out')
  PROVE  /\ amr.caja # None
         /\ BoxCompleted(amr.caja, order.id_lote) \in out'
         /\ tolva_counts' = [tolva_counts EXCEPT ![amr.caja.tolva] = 0] \/ Reboot
  <1>1. CASE PublishStatus
    <2>1. out' = StatusMessages /\ tolva_counts' = CountsAfterLoad
      BY <1>1 DEF PublishStatus, Publish
    <2> QED
      BY <2>1, TripLoaded
  <1>2. CASE Reboot
    <2>1. CutPublish
      BY <1>2 DEF Reboot, BetweenSections, CutDelta, CutLoad, CutReset, Silent, Quiet,
         ToWarehouse
    <2>2. PICK n \in 0 .. 6 : out' = {m \in StatusMessages : Rank(m) <= n}
      BY <2>1 DEF CutPublish, Publish
    <2>3. ToWarehouse(StatusMessages) /\ Rank(GoTo(AMR_WAREHOUSE_LOCATION)) <= n
      BY <2>2 DEF ToWarehouse
    <2>4. Rank(GoTo(AMR_WAREHOUSE_LOCATION)) = 6
      BY DEF Rank, GoTo
    <2>5. Rank(BoxCompleted(amr.caja, order.id_lote)) = 5
      BY DEF Rank, BoxCompleted
    <2> QED
      BY <1>2, <2>2, <2>3, <2>4, <2>5, TripLoaded
  <1> QED
    BY <1>1, <1>2, OnlyStatusMovesAmr

(* An AMR sent to the cobot carries a box, which is registered in that step *)
(* and whose hopper is the one emptied, in every behaviour.                 *)
THEOREM WarehouseTripsCarryBoxes == Spec => WarehouseTripCarriesBox
  <1>1. TypeOK /\ AmrCoherent /\ [Next]_vars =>
          [GoTo(AMR_WAREHOUSE_LOCATION) \in out' =>
             /\ amr.caja # None
             /\ BoxCompleted(amr.caja, order.id_lote) \in out'
             /\ tolva_counts' = [tolva_counts EXCEPT ![amr.caja.tolva] = 0] \/ Reboot]_vars
    BY TripStep DEF ToWarehouse
  <1> QED
    BY <1>1, TypeCorrect, AmrFieldsAgree, PTL DEF Spec, WarehouseTripCarriesBox

----------------------------------------------------------------------------
(* Flash and the order. *)

(* The steps that touch neither. *)
LEMMA CountsLeftAlone ==
  ASSUME \/ BeginCycle \/ EndDrain \/ CheckBeforeSpawn \/ SpawnNothing \/ TakeCobotEvent
         \/ NoCobotEvent \/ ApplyCobotEvent \/ ApplyBusy \/ AskOperarios \/ TakeAnswer
         \/ AnswerTimeout \/ PublishCajaPaletizada \/ NotifyPalletFull
         \/ Emergency \/ Plant \/ Time \/ UNCHANGED vars
  PROVE  UNCHANGED <<order, tolva_counts, nvs>>
  <1>1. BeginCycle \/ EndDrain \/ CheckBeforeSpawn \/ NoCobotEvent \/ ApplyBusy
          => UNCHANGED <<order, tolva_counts, nvs>>
    BY DEF BeginCycle, EndDrain, CheckBeforeSpawn, NoCobotEvent, ApplyBusy, controlVars
  <1>2. SpawnNothing => UNCHANGED <<order, tolva_counts, nvs>>
    BY DEF SpawnNothing, SpawnUnchanged
  <1>3. TakeCobotEvent \/ ApplyCobotEvent => UNCHANGED <<order, tolva_counts, nvs>>
    BY DEF TakeCobotEvent, ApplyCobotEvent
  <1>4. AskOperarios \/ TakeAnswer \/ AnswerTimeout => UNCHANGED <<order, tolva_counts, nvs>>
    BY DEF AskOperarios, TakeAnswer, AnswerTimeout, controlVars
  <1>5. PublishCajaPaletizada \/ NotifyPalletFull => UNCHANGED <<order, tolva_counts, nvs>>
    BY DEF PublishCajaPaletizada, NotifyPalletFull, controlVars
  <1>6. Emergency \/ Time => UNCHANGED <<order, tolva_counts, nvs>>
    BY DEF Emergency, EmergencyAction, Time, LoadingDelayElapses, AmrTimeoutElapses,
           CobotTimeoutElapses, controlVars
  <1>7. Plant => UNCHANGED <<order, tolva_counts, nvs>>
    BY DEF Plant, DeltaReports, AmrArrives, AmrReports, CobotFinishes, CobotReports,
           BridgeAnswers, NoisyReport, DeltaStatus, AmrStatus, CobotStatus, RobotStatus,
           DbPullResponse, controlVars
  <1>8. UNCHANGED vars => UNCHANGED <<order, tolva_counts, nvs>>
    BY DEF vars, controlVars
  <1> QED
    BY <1>1, <1>2, <1>3, <1>4, <1>5, <1>6, <1>7, <1>8

(* A save that does not fail writes every hopper. *)
LEMMA SaveWritesAll ==
  ASSUME NEW counts \in [Tolva -> Nat], SaveTolvaCounts(counts, FALSE)
  PROVE  nvs' = counts
  <1>1. nvs' = [t \in Tolva |-> IF t < NumTolvas THEN counts[t] ELSE nvs[t]]
    BY DEF SaveTolvaCounts
  <1>2. \A t \in Tolva : t < NumTolvas
    BY CellAssumption DEF Tolva
  <1> QED
    BY <1>1, <1>2

(* Between two steps flash holds what memory does; only what is in the      *)
(* middle of a section can differ.                                          *)
FlashCurrent == nvs = tolva_counts

LEMMA FlashStep == ~NvsMayFail /\ TypeOK /\ FlashCurrent /\ [Next]_vars => FlashCurrent'
  <1> SUFFICES ASSUME ~NvsMayFail, TypeOK, FlashCurrent, [Next]_vars PROVE FlashCurrent'
    OBVIOUS
  <1>1. tolva_counts \in [Tolva -> Nat] /\ nvs = tolva_counts /\ NvsMayFail = FALSE
    BY LogicAssumption DEF TypeOK, ControlTypeOK, FlashCurrent
  <1>2. ASSUME UNCHANGED <<tolva_counts, nvs>> PROVE FlashCurrent'
    BY <1>1, <1>2 DEF FlashCurrent
  <1>3. CASE ProcessRobotEvent
    <2>1. \/ \E c \in Tolva \cup {Unknown} : DeltaCompleted(c)
          \/ \E l : AmrArrived(l) \/ \E p : CobotCompleted(p)
      <3>1. Head(events) \in Event
        BY <1>3 DEF ProcessRobotEvent, TypeOK, SharedTypeOK
      <3>2. Head(events).kind = "delta" => Head(events).color \in Tolva \cup {Unknown}
        BY <3>1 DEF Event
      <3> QED
        BY <1>3, <3>2 DEF ProcessRobotEvent
    <2>2. ASSUME NEW c \in Tolva \cup {Unknown}, DeltaCompleted(c) PROVE FlashCurrent'
      <3>1. CASE c = Unknown
        BY <1>2, <2>2, <3>1 DEF DeltaCompleted, controlVars
      <3>2. CASE c # Unknown
        <4>1. [tolva_counts EXCEPT ![c] = @ + 1] \in [Tolva -> Nat]
          BY <1>1, <3>2
        <4>2. /\ tolva_counts' = [tolva_counts EXCEPT ![c] = @ + 1]
              /\ SaveTolvaCounts([tolva_counts EXCEPT ![c] = @ + 1], FALSE)
          BY <1>1, <2>2, <3>2 DEF DeltaCompleted
        <4> QED
          BY <4>1, <4>2, SaveWritesAll DEF FlashCurrent
      <3> QED
        BY <3>1, <3>2
    <2>3. ASSUME NEW l, AmrArrived(l) PROVE FlashCurrent'
      BY <1>2, <2>3 DEF AmrArrived
    <2>4. ASSUME NEW p, CobotCompleted(p) PROVE FlashCurrent'
      BY <1>2, <2>4 DEF CobotCompleted
    <2> QED
      BY <2>1, <2>2, <2>3, <2>4
  <1>4. CASE PublishStatus
    <2>1. tolva_counts' = CountsAfterLoad /\ CountsAfterLoad \in [Tolva -> Nat]
      BY <1>4, CountsAfterLoadTyped DEF PublishStatus, TypeOK
    <2>2. CASE Loaded /\ Emptied # None
      <3>1. SaveTolvaCounts(CountsAfterLoad, FALSE)
        BY <1>1, <1>4, <2>2 DEF PublishStatus, SaveAfterLoad
      <3> QED
        BY <2>1, <3>1, SaveWritesAll DEF FlashCurrent
    <2>3. CASE ~(Loaded /\ Emptied # None)
      <3>1. CountsAfterLoad = tolva_counts
        BY <2>3 DEF CountsAfterLoad
      <3>2. UNCHANGED nvs
        BY <1>4, <2>3 DEF PublishStatus, SaveAfterLoad
      <3> QED
        BY <1>2, <2>1, <3>1, <3>2
    <2> QED
      BY <2>2, <2>3
  <1>5. CASE SpawnAuto \/ SpawnManual
    BY <1>2, <1>5 DEF SpawnAuto, SpawnManual, SpawnUnchanged
  <1>6. CASE ScadaCommand
    <2>1. CASE ScadaReset(NvsMayFail)
      <3>1. tolva_counts' = EmptyTolvas /\ SaveTolvaCounts(EmptyTolvas, FALSE)
        BY <1>1, <2>1 DEF ScadaReset
      <3> QED
        BY <3>1, Defaults, SaveWritesAll DEF FlashCurrent
    <2>2. CASE ~ScadaReset(NvsMayFail)
      BY <1>2, <1>6, <2>2 DEF ScadaCommand, ScadaStatus, ScadaSetMode, ScadaGen
    <2> QED
      BY <2>1, <2>2
  <1>7. CASE Reboot
    BY <1>7 DEF Reboot, FlashCurrent
  <1> QED
    BY <1>2, <1>3, <1>4, <1>5, <1>6, <1>7, CountsLeftAlone DEF Next, Logic, LogicStep

(* A save cut short leaves each hopper with its old count or its new one.   *)
LEMMA CutSave ==
  ASSUME NEW counts \in [Tolva -> Nat], NEW MayFail, SaveTolvaCounts(counts, MayFail),
         NEW t \in Tolva
  PROVE  nvs'[t] = nvs[t] \/ nvs'[t] = counts[t]
  BY DEF SaveTolvaCounts

(* So a restart changes no count but those that were being saved.           *)
LEMMA RestartStep ==
  ASSUME TypeOK, AmrCoherent, FlashCurrent, Reboot, NEW t \in Tolva
  PROVE  \/ tolva_counts'[t] = tolva_counts[t]
         \/ /\ tolva_counts'[t] = tolva_counts[t] + 1
            /\ pc = "drain" /\ events # <<>> /\ Head(events) = [kind |-> "delta", color |-> t]
         \/ /\ tolva_counts'[t] = 0
            /\ \/ pc = "status" /\ amr.arrived_tolva = t
               \/ commands' # commands
  <1>0. /\ tolva_counts \in [Tolva -> Nat] /\ nvs = tolva_counts /\ tolva_counts' = nvs'
        /\ commands \in Nat
    BY DEF TypeOK, ControlTypeOK, FlashCurrent, Reboot
  <1>1. CASE UNCHANGED nvs
    BY <1>0, <1>1
  <1>2. CASE CutDelta
    <2> DEFINE c == Head(events).color
    <2>1. Head(events) \in Event /\ Head(events).kind = "delta"
      BY <1>2 DEF CutDelta, TypeOK, SharedTypeOK
    <2>2. c \in Tolva
      BY <1>2, <2>1 DEF CutDelta, Event
    <2>3. [tolva_counts EXCEPT ![c] = @ + 1] \in [Tolva -> Nat]
      BY <1>0, <2>2
    <2>4. SaveTolvaCounts([tolva_counts EXCEPT ![c] = @ + 1], TRUE)
      BY <1>2 DEF CutDelta
    <2>5. nvs'[t] = nvs[t] \/ nvs'[t] = [tolva_counts EXCEPT ![c] = @ + 1][t]
      BY <2>3, <2>4, CutSave
    <2>6. CASE c = t
      <3>1. Head(events) = [kind |-> "delta", color |-> t]
        BY <2>1, <2>6 DEF Event
      <3> QED
        BY <1>0, <1>2, <2>2, <2>5, <2>6, <3>1 DEF CutDelta
    <2>7. CASE c # t
      BY <1>0, <2>5, <2>7
    <2> QED
      BY <2>6, <2>7
  <1>3. CASE CutReset
    <2>1. nvs'[t] = nvs[t] \/ nvs'[t] = EmptyTolvas[t]
      BY <1>3, Defaults, CutSave DEF CutReset
    <2>2. commands' # commands
      BY <1>0, <1>3 DEF CutReset
    <2> QED
      BY <1>0, <2>1, <2>2 DEF EmptyTolvas
  <1>4. ASSUME pc = "status", Loaded, NEW MayFail, SaveTolvaCounts(CountsAfterLoad, MayFail)
        PROVE  \/ tolva_counts'[t] = tolva_counts[t]
               \/ tolva_counts'[t] = 0 /\ pc = "status" /\ amr.arrived_tolva = t
    <2>1. nvs'[t] = nvs[t] \/ nvs'[t] = CountsAfterLoad[t]
      BY <1>4, CountsAfterLoadTyped, CutSave DEF TypeOK
    <2>2. Emptied = amr.arrived_tolva
      BY <1>4 DEF Loaded, AmrCoherent, Emptied
    <2>3. \/ CountsAfterLoad[t] = tolva_counts[t]
          \/ CountsAfterLoad[t] = 0 /\ amr.arrived_tolva = t
      BY <1>0, <2>2 DEF CountsAfterLoad
    <2> QED
      BY <1>0, <1>4, <2>1, <2>3
  <1>5. CASE CutLoad
    BY <1>4, <1>5 DEF CutLoad
  <1>6. CASE CutPublish
    BY <1>1, <1>4, <1>6 DEF CutPublish, SaveAfterLoad
  <1> QED
    BY <1>1, <1>2, <1>3, <1>5, <1>6 DEF Reboot, BetweenSections

(* With saves that only a restart cuts short, a restart at any point of any *)
(* behaviour finds every hopper with its count or the one being saved.      *)
THEOREM RestartsKeepCounts == ~NvsMayFail => (Spec => RestartKeepsCounts)
  <1> SUFFICES ASSUME ~NvsMayFail PROVE Spec => RestartKeepsCounts
    OBVIOUS
  <1>1. Init => FlashCurrent
    BY DEF Init, FlashCurrent
  <1>2. TypeOK /\ FlashCurrent /\ [Next]_vars => FlashCurrent'
    BY FlashStep
  <1>3. TypeOK /\ AmrCoherent /\ FlashCurrent /\ [Next]_vars =>
          [Reboot => \A t \in Tolva :
             \/ tolva_counts'[t] = tolva_counts[t]
             \/ /\ tolva_counts'[t] = tolva_counts[t] + 1
                /\ pc = "drain" /\ events # <<>> /\ Head(events) = [kind |-> "delta", color |-> t]
             \/ /\ tolva_counts'[t] = 0
                /\ \/ pc = "status" /\ amr.arrived_tolva = t
                   \/ commands' # commands]_vars
    BY RestartStep
  <1> QED
    BY <1>1, <1>2, <1>3, TypeCorrect, AmrFieldsAgree, PTL DEF Spec, RestartKeepsCounts

LEMMA BatchStep == TypeOK /\ BatchWithinTarget /\ [Next]_vars => BatchWithinTarget'
  <1> SUFFICES ASSUME TypeOK, BatchWithinTarget, [Next]_vars PROVE BatchWithinTarget'
    OBVIOUS
  <1>1. /\ order \in Order /\ order.auto_spawned <= order.auto_target
        /\ order.auto_validated <= order.auto_target
    BY DEF TypeOK, ControlTypeOK, BatchWithinTarget
  <1>2. /\ order.auto_target \in Nat /\ order.auto_spawned \in Nat
        /\ order.auto_validated \in Nat
    BY <1>1 DEF Order
  <1>3. ASSUME order' = order PROVE BatchWithinTarget'
    BY <1>1, <1>3 DEF BatchWithinTarget
  <1>4. CASE ProcessRobotEvent
    <2>1. order' = order \/ order' = OrderAfterDelta
      BY <1>4 DEF ProcessRobotEvent, DeltaCompleted, AmrArrived, CobotCompleted, controlVars
    <2>2. CASE Validates /\ order' = OrderAfterDelta
      <3>1. order' = [order EXCEPT !.auto_validated = @ + 1]
            /\ order.auto_validated < order.auto_target
        BY <2>2 DEF OrderAfterDelta, Validates
      <3>2. /\ order'.auto_validated = order.auto_validated + 1
            /\ order'.auto_target = order.auto_target
            /\ order'.auto_spawned = order.auto_spawned
        BY <1>1, <3>1 DEF Order
      <3> QED
        BY <1>1, <1>2, <3>1, <3>2 DEF BatchWithinTarget
    <2>3. CASE ~Validates /\ order' = OrderAfterDelta
      <3>1. order' = order \/ order' = [order EXCEPT !.manual_remaining = @ - 1]
        BY <2>3 DEF OrderAfterDelta
      <3>2. /\ order'.auto_validated = order.auto_validated
            /\ order'.auto_target = order.auto_target
            /\ order'.auto_spawned = order.auto_spawned
        BY <1>1, <3>1 DEF Order
      <3> QED
        BY <1>1, <3>2 DEF BatchWithinTarget
    <2> QED
      BY <1>3, <2>1, <2>2, <2>3
  <1>5. CASE SpawnAuto
    <2>1. order.auto_spawned < order.auto_target
      BY <1>5 DEF SpawnAuto, AutoSpawnDue
    <2>2. order' = order \/ order' = [order EXCEPT !.auto_spawned = @ + 1]
      BY <1>5 DEF SpawnAuto
    <2>3. CASE order' = [order EXCEPT !.auto_spawned = @ + 1]
      <3>1. /\ order'.auto_spawned = order.auto_spawned + 1
            /\ order'.auto_target = order.auto_target
            /\ order'.auto_validated = order.auto_validated
        BY <1>1, <2>3 DEF Order
      <3> QED
        BY <1>1, <1>2, <2>1, <3>1 DEF BatchWithinTarget
    <2> QED
      BY <1>3, <2>2, <2>3
  <1>6. CASE SpawnManual
    <2>1. order' = order \/ order' = [order EXCEPT !.manual_spawn_pending = FALSE]
      BY <1>6 DEF SpawnManual
    <2>2. /\ order'.auto_spawned = order.auto_spawned
          /\ order'.auto_target = order.auto_target
          /\ order'.auto_validated = order.auto_validated
      BY <1>1, <2>1 DEF Order
    <2> QED
      BY <1>1, <2>2 DEF BatchWithinTarget
  <1>7. CASE PublishStatus
    BY <1>3, <1>7 DEF PublishStatus
  <1>8. CASE ScadaCommand
    <2>1. CASE ScadaStatus
      BY <1>3, <2>1 DEF ScadaStatus
    <2>2. ASSUME NEW mode \in Mode, ScadaSetMode(mode) PROVE BatchWithinTarget'
      <3>1. order' = [order EXCEPT !.mode = mode, !.id_lote = None]
        BY <2>2 DEF ScadaSetMode
      <3>2. /\ order'.auto_spawned = order.auto_spawned
            /\ order'.auto_target = order.auto_target
            /\ order'.auto_validated = order.auto_validated
        BY <1>1, <3>1 DEF Order
      <3> QED
        BY <1>1, <3>2 DEF BatchWithinTarget
    <2>3. ASSUME NEW quantity \in Quantities, NEW color \in Tolva,
                 NEW lote \in Lotes \cup {None}, ScadaGen(quantity, color, lote)
          PROVE  BatchWithinTarget'
      <3>1. order' = AutoOrder(quantity, lote) \/ order' = ManualOrder(color, lote)
        BY <2>3 DEF ScadaGen
      <3>2. CASE order' = AutoOrder(quantity, lote)
        <4>1. quantity % U32 \in Nat
          BY PlantAssumption, CellAssumption
        <4>2. /\ order'.auto_spawned = 0 /\ order'.auto_validated = 0
              /\ order'.auto_target = quantity % U32
          BY <1>1, <3>2 DEF AutoOrder, Order
        <4> QED
          BY <4>1, <4>2 DEF BatchWithinTarget
      <3>3. CASE order' = ManualOrder(color, lote)
        <4>1. /\ order'.auto_spawned = order.auto_spawned
              /\ order'.auto_target = order.auto_target
              /\ order'.auto_validated = order.auto_validated
          BY <1>1, <3>3 DEF ManualOrder, Order
        <4> QED
          BY <1>1, <4>1 DEF BatchWithinTarget
      <3> QED
        BY <3>1, <3>2, <3>3
    <2>4. CASE ScadaReset(NvsMayFail)
      <3>1. order' = OrderAfterReset
        BY <2>4 DEF ScadaReset
      <3>2. /\ order'.auto_spawned = 0 /\ order'.auto_validated = 0
            /\ order'.auto_target = 0
        BY <1>1, <3>1 DEF OrderAfterReset, Order
      <3> QED
        BY <3>2 DEF BatchWithinTarget
    <2> QED
      BY <1>8, <2>1, <2>2, <2>3, <2>4 DEF ScadaCommand
  <1>9. CASE Reboot
    BY <1>9 DEF Reboot, DefaultOrder, BatchWithinTarget
  <1> QED
    BY <1>3, <1>4, <1>5, <1>6, <1>7, <1>8, <1>9, CountsLeftAlone DEF Next, Logic, LogicStep

(* No batch is overrun, whatever orders, mode changes, resets, restarts and *)
(* late reports of earlier batches come in between.                         *)
THEOREM BatchesWithinTarget == Spec => []BatchWithinTarget
  <1>1. Init => BatchWithinTarget
    BY DEF Init, BatchWithinTarget, DefaultOrder
  <1> QED
    BY <1>1, BatchStep, TypeCorrect, PTL DEF Spec

----------------------------------------------------------------------------
(* The cobot's clock. *)

(* From the taking of a report to the next drain no report waits: the       *)
(* phases in which none does.                                               *)
Consumed == {"cobot_apply", "query", "wait", "push", "notify", "status", "check"}

(* CobotTimed is not inductive: that handle_cobot_completed stops the clock *)
(* of a cobot that stands still has to be carried along, and that           *)
(* publish_status, which starts the cobot, runs when no report waits.       *)
CobotTimedInv ==
  /\ cobot.in_progress => cobot.started_at # "off"
  /\ cobot.completed_event # None => ~cobot.in_progress
  /\ pc = "cobot_apply" => ~cobot.in_progress
  /\ pc \in Consumed => cobot.completed_event = None

LEMMA ClockSame ==
  CobotTimedInv /\ cobot' = cobot /\ (pc' = pc \/ pc' \notin Consumed) => CobotTimedInv'
  BY DEF CobotTimedInv, Consumed

LEMMA ClockStopped ==
  ASSUME cobot'.in_progress = FALSE, cobot'.completed_event = None
  PROVE  CobotTimedInv'
  BY DEF CobotTimedInv

(* The steps of logic_task that leave the cobot alone. *)
LEMMA ClockLeftAlone ==
  ASSUME CobotTimedInv,
         \/ BeginCycle \/ EndDrain \/ CheckBeforeSpawn \/ SpawnAuto \/ SpawnManual
         \/ SpawnNothing \/ AskOperarios \/ TakeAnswer \/ AnswerTimeout
         \/ PublishCajaPaletizada \/ NotifyPalletFull
  PROVE  CobotTimedInv'
  <1>1. CASE BeginCycle \/ EndDrain \/ CheckBeforeSpawn
    BY <1>1, ClockSame DEF BeginCycle, EndDrain, CheckBeforeSpawn, controlVars, Consumed
  <1>2. CASE SpawnAuto \/ SpawnManual \/ SpawnNothing
    BY <1>2, ClockSame DEF SpawnAuto, SpawnManual, SpawnNothing, SpawnUnchanged, Consumed
  <1>3. CASE AskOperarios \/ TakeAnswer \/ AnswerTimeout
    <2>1. cobot' = cobot /\ pc \in Consumed /\ pc' \in {"wait", "push"}
      BY <1>3 DEF AskOperarios, TakeAnswer, AnswerTimeout, controlVars, Consumed
    <2> QED
      BY <2>1 DEF CobotTimedInv, Consumed
  <1>4. CASE PublishCajaPaletizada \/ NotifyPalletFull
    <2>1. cobot' = cobot /\ pc \in Consumed /\ pc' \in {"notify", "status"}
      BY <1>4 DEF PublishCajaPaletizada, NotifyPalletFull, controlVars, Consumed
    <2> QED
      BY <2>1 DEF CobotTimedInv, Consumed
  <1> QED
    BY <1>1, <1>2, <1>3, <1>4

LEMMA ClockEvent == TypeOK /\ CobotTimedInv /\ ProcessRobotEvent => CobotTimedInv'
  <1> SUFFICES ASSUME TypeOK, CobotTimedInv, ProcessRobotEvent PROVE CobotTimedInv'
    OBVIOUS
  <1>1. cobot \in Cobot /\ pc = "drain" /\ pc' = "drain"
    BY DEF TypeOK, ControlTypeOK, ProcessRobotEvent, threadVars
  <1>2. \/ \E c : DeltaCompleted(c) \/ \E l : AmrArrived(l) \/ \E p : CobotCompleted(p)
    BY DEF ProcessRobotEvent
  <1>3. ASSUME NEW c, DeltaCompleted(c) PROVE CobotTimedInv'
    <2>1. cobot' = cobot
      BY <1>3 DEF DeltaCompleted, controlVars
    <2> QED
      BY <1>1, <2>1, ClockSame
  <1>4. ASSUME NEW l, AmrArrived(l) PROVE CobotTimedInv'
    <2>1. cobot' = cobot \/ cobot' = [cobot EXCEPT !.ready = TRUE]
      BY <1>4 DEF AmrArrived
    <2>2. /\ cobot'.in_progress = cobot.in_progress
          /\ cobot'.started_at = cobot.started_at
          /\ cobot'.completed_event = cobot.completed_event
      BY <1>1, <2>1 DEF Cobot
    <2> QED
      BY <1>1, <2>2 DEF CobotTimedInv
  <1>5. ASSUME NEW p, CobotCompleted(p) PROVE CobotTimedInv'
    <2>1. cobot'.in_progress = FALSE
      BY <1>1, <1>5 DEF CobotCompleted, Cobot
    <2> QED
      BY <1>1, <2>1 DEF CobotTimedInv, Consumed
  <1> QED
    BY <1>2, <1>3, <1>4, <1>5

(* handle_cobot_completed takes the report, then stops the clock. *)
LEMMA ClockReport ==
  ASSUME ~LocksContended, TypeOK, CobotTimedInv,
         TakeCobotEvent \/ NoCobotEvent \/ ApplyCobotEvent \/ ApplyBusy
  PROVE  CobotTimedInv'
  <1>1. cobot \in Cobot
    BY DEF TypeOK, ControlTypeOK
  <1>2. CASE TakeCobotEvent
    <2>1. ~cobot.in_progress
      BY <1>2 DEF TakeCobotEvent, CobotTimedInv
    <2>2. cobot'.in_progress = cobot.in_progress /\ cobot'.completed_event = None
      BY <1>1, <1>2 DEF TakeCobotEvent, Cobot
    <2> QED
      BY <2>1, <2>2 DEF CobotTimedInv
  <1>3. CASE NoCobotEvent
    <2>1. cobot' = cobot /\ cobot.completed_event = None /\ pc' = "status"
      BY <1>3 DEF NoCobotEvent, controlVars
    <2> QED
      BY <2>1 DEF CobotTimedInv
  <1>4. CASE ApplyCobotEvent
    <2>1. ~cobot.in_progress /\ cobot.completed_event = None
      BY <1>4 DEF ApplyCobotEvent, CobotTimedInv, Consumed
    <2>2. /\ cobot'.in_progress = cobot.in_progress
          /\ cobot'.completed_event = cobot.completed_event
      BY <1>1, <1>4 DEF ApplyCobotEvent, Cobot
    <2> QED
      BY <2>1, <2>2 DEF CobotTimedInv
  <1>5. CASE ApplyBusy
    BY <1>5 DEF ApplyBusy
  <1> QED
    BY <1>2, <1>3, <1>4, <1>5

(* publish_status starts the clock with the cobot. *)
LEMMA ClockStatus == TypeOK /\ CobotTimedInv /\ PublishStatus => CobotTimedInv'
  <1> SUFFICES ASSUME TypeOK, CobotTimedInv, PublishStatus PROVE CobotTimedInv'
    OBVIOUS
  <1>1. cobot \in Cobot /\ cobot' = CobotAfterStatus
    BY DEF TypeOK, ControlTypeOK, PublishStatus
  <1>2. /\ cobot'.in_progress = ((cobot.in_progress /\ ~CobotLost) \/ CobotStarts)
        /\ cobot'.started_at = IF CobotStarts THEN "running"
                                 ELSE IF CobotLost THEN "off" ELSE cobot.started_at
        /\ cobot'.completed_event = cobot.completed_event
    BY <1>1 DEF CobotAfterStatus, Cobot
  <1>3. cobot.completed_event = None /\ pc' = "check"
    BY DEF PublishStatus, CobotTimedInv, Consumed
  <1> QED
    BY <1>2, <1>3 DEF CobotTimedInv

LEMMA ClockStep ==
  ASSUME ~LocksContended, TypeOK, CobotTimedInv, [Next]_vars
  PROVE  CobotTimedInv'
  <1>1. CASE Logic
    BY <1>1, ClockLeftAlone, ClockEvent, ClockReport, ClockStatus DEF Logic, LogicStep
  <1>2. CASE ScadaCommand
    <2>1. \/ UNCHANGED <<cobot, pc>>
          \/ cobot' = CobotAfterReset
      BY <1>2 DEF ScadaCommand, ScadaStatus, ScadaSetMode, ScadaGen, ScadaReset, threadVars
    <2>2. /\ CobotAfterReset.in_progress = FALSE
          /\ CobotAfterReset.completed_event = None
      BY DEF CobotAfterReset, NoCobot
    <2> QED
      BY <2>1, <2>2, ClockSame, ClockStopped
  <1>3. CASE Emergency \/ Plant
    <2>1. UNCHANGED <<cobot, pc>>
      BY <1>3
      DEF Emergency, EmergencyAction, Plant, DeltaReports, AmrArrives, AmrReports,
          CobotFinishes, CobotReports, BridgeAnswers, NoisyReport, DeltaStatus, AmrStatus,
          CobotStatus, RobotStatus, DbPullResponse, controlVars, threadVars
    <2> QED
      BY <2>1, ClockSame
  <1>4. CASE Time
    <2>1. CASE LoadingDelayElapses \/ AmrTimeoutElapses
      BY <2>1, ClockSame DEF LoadingDelayElapses, AmrTimeoutElapses, threadVars
    <2>2. CASE CobotTimeoutElapses
      <3>1. cobot \in Cobot
        BY DEF TypeOK, ControlTypeOK
      <3>2. /\ cobot'.in_progress = cobot.in_progress
            /\ cobot'.started_at = "due"
            /\ cobot'.completed_event = cobot.completed_event
            /\ pc' = pc
        BY <2>2, <3>1 DEF CobotTimeoutElapses, Cobot, threadVars
      <3> QED
        BY <3>2 DEF CobotTimedInv
    <2> QED
      BY <1>4, <2>1, <2>2 DEF Time
  <1>5. CASE Reboot
    BY <1>5, ClockStopped DEF Reboot, NoCobot
  <1>6. CASE UNCHANGED vars
    BY <1>6, ClockSame DEF vars, controlVars, threadVars
  <1> QED
    BY <1>1, <1>2, <1>3, <1>4, <1>5, <1>6 DEF Next

(* While the cobot works its timeout runs and no report of it waits, as     *)
(* long as logic_task's try_locks succeed: nothing can leave it busy with a *)
(* stopped clock, which is what CobotReleased needs to be released.         *)
THEOREM CobotAlwaysTimed == ~LocksContended => (Spec => []CobotTimed)
  <1> SUFFICES ASSUME ~LocksContended PROVE Spec => []CobotTimed
    OBVIOUS
  <1>1. Init => CobotTimedInv
    BY DEF Init, CobotTimedInv, NoCobot
  <1>2. TypeOK /\ CobotTimedInv /\ [Next]_vars => CobotTimedInv'
    BY ClockStep
  <1>3. CobotTimedInv => CobotTimed
    BY DEF CobotTimedInv, CobotTimed
  <1> QED
    BY <1>1, <1>2, <1>3, TypeCorrect, PTL DEF Spec
=============================================================================
