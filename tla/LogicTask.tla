------------------------------ MODULE LogicTask ------------------------------
(* logic_task.rs: the thread that runs one cycle every 500 ms.  Each action *)
(* is one section the thread runs under the ControlState mutex, or one      *)
(* publication; between two of them the MQTT callback, the buttons and the  *)
(* robots may act.  A try_lock that finds its mutex taken skips its section *)
(* (SpawnNothing, NoCobotEvent, ApplyBusy and the TryLockMqtt choices).     *)
(*                                                                          *)
(* Some operators are preceded by a variant that nothing uses, such as      *)
(* FillsPalletOver before FillsPallet: a plausible slip in that line, which *)
(* README.md pairs with the property that notices it.  So in the other      *)
(* modules.                                                                 *)
EXTENDS CellState

CONSTANTS
  LocksContended,   \* a try_lock of logic_task may find the mutex taken
  NvsMayFail        \* a save to flash may stop half way

ASSUME LogicAssumption == LocksContended \in BOOLEAN /\ NvsMayFail \in BOOLEAN

(* Whether a try_lock on the MQTT client succeeds; emergency_task is the    *)
(* only other thread that locks it.                                         *)
TryLockMqtt == IF LocksContended THEN BOOLEAN ELSE {TRUE}

When(condition, msg) == IF condition THEN {msg} ELSE {}

----------------------------------------------------------------------------
(* The top of the loop.  While the emergency stop is set the thread sleeps  *)
(* 100 ms and looks again, which changes nothing.                           *)
BeginCycleAnyway ==
  /\ pc = "check"
  /\ pc' = "drain"
  /\ Silent
  /\ UNCHANGED <<controlVars, sharedVars, job, color_counter, next_caja>>
BeginCycle ==
  /\ pc = "check"
  /\ ~emergency_stop
  /\ pc' = "drain"
  /\ Silent
  /\ UNCHANGED <<controlVars, sharedVars, job, color_counter, next_caja>>

(* process_robot_event, DeltaCompleted *)
Validates == order.mode = "Auto" /\ order.auto_validated < order.auto_target
OrderAfterDelta ==
  IF order.mode = "Auto"
    THEN IF Validates THEN [order EXCEPT !.auto_validated = @ + 1] ELSE order
    ELSE IF order.manual_remaining > 0 THEN [order EXCEPT !.manual_remaining = @ - 1]
                                       ELSE order
BatchDoneLate == Validates /\ order.auto_validated + 1 > order.auto_target
BatchDone == Validates /\ order.auto_validated + 1 >= order.auto_target
TapasAfterDelta == tapas_clasificadas_pending + IF order.id_lote # None THEN 1 ELSE 0

DeltaCompleted(color) ==
  IF color = Unknown
    THEN UNCHANGED controlVars
    ELSE LET counts == [tolva_counts EXCEPT ![color] = @ + 1] IN
         /\ tolva_counts' = counts
         /\ tapas_clasificadas_pending' = TapasAfterDelta
         /\ order' = OrderAfterDelta
         /\ flags' = flags \cup When(BatchDone, "batch_complete")
         /\ SaveTolvaCounts(counts, NvsMayFail)
         /\ UNCHANGED <<amr, cobot, pallets>>

AmrArrivedUnasked(location) ==
  /\ cobot' = IF location = AMR_WAREHOUSE_LOCATION
                THEN [cobot EXCEPT !.ready = TRUE] ELSE cobot
  /\ amr' = IF location \in Tolva
              THEN [amr EXCEPT !.arrived_tolva = location, !.arrived_at = "running"]
              ELSE amr
  /\ UNCHANGED <<order, tapas_clasificadas_pending, tolva_counts, pallets, flags, nvs>>

(* process_robot_event, AmrArrived: at the warehouse, at the hopper it was  *)
(* sent to, or somewhere else, which is only logged.                        *)
AmrArrived(location) ==
  /\ cobot' = IF location = AMR_WAREHOUSE_LOCATION
                THEN [cobot EXCEPT !.ready = TRUE] ELSE cobot
  /\ amr' = IF location \in Tolva /\ amr.pending_tolva = location
              THEN [amr EXCEPT !.arrived_tolva = location, !.arrived_at = "running"]
              ELSE amr
  /\ UNCHANGED <<order, tapas_clasificadas_pending, tolva_counts, pallets, flags, nvs>>

CobotCompletedBusy(pallet) ==
  /\ cobot' = [cobot EXCEPT !.completed_event = pallet]
  /\ UNCHANGED <<order, tapas_clasificadas_pending, tolva_counts, amr, pallets,
                 flags, nvs>>
(* process_robot_event, CobotCompleted *)
CobotCompleted(pallet) ==
  /\ cobot' = [cobot EXCEPT !.completed_event = pallet, !.in_progress = FALSE]
  /\ UNCHANGED <<order, tapas_clasificadas_pending, tolva_counts, amr, pallets,
                 flags, nvs>>

ProcessRobotEvent ==
  /\ pc = "drain"
  /\ events # <<>>
  /\ events' = Tail(events)
  /\ LET event == Head(events) IN
       \/ event.kind = "delta" /\ DeltaCompleted(event.color)
       \/ event.kind = "amr" /\ AmrArrived(event.location)
       \/ event.kind = "cobot" /\ CobotCompleted(event.pallet)
  /\ Silent
  /\ UNCHANGED <<emergency_stop, pull_slot, threadVars>>

EndDrain ==
  /\ pc = "drain"
  /\ events = <<>>
  /\ pc' = "spawn_check"
  /\ Silent
  /\ UNCHANGED <<controlVars, sharedVars, job, color_counter, next_caja>>

----------------------------------------------------------------------------
(* try_spawn_caps: the emergency stop is looked at again before, not under, *)
(* the lock.                                                                *)
CheckBeforeSpawn ==
  /\ pc = "spawn_check"
  /\ pc' = IF emergency_stop THEN "cobot" ELSE "spawn"
  /\ Silent
  /\ UNCHANGED <<controlVars, sharedVars, job, color_counter, next_caja>>

AutoSpawnDueOneMore == order.mode = "Auto" /\ order.auto_spawned <= order.auto_target
AutoSpawnDue == order.mode = "Auto" /\ order.auto_spawned < order.auto_target
ManualSpawnDue == order.mode = "Manual" /\ order.manual_spawn_pending
HasRoom(tolva) == tolva_counts[tolva] < AMR_TOLVA_THRESHOLD

NextColor == Rotation[color_counter]
NextCounterUnbounded == color_counter + 1
NextCounter == (color_counter + 1) % NumTolvas
SpawnUnchanged == UNCHANGED <<tapas_clasificadas_pending, tolva_counts, amr, cobot,
                              pallets, flags, nvs, sharedVars, job, next_caja>>

(* get_random_color moves on even when the cap is not spawned. *)
SpawnAuto ==
  /\ pc = "spawn" /\ pc' = "cobot"
  /\ AutoSpawnDue
  /\ color_counter' = NextCounter
  /\ \E free \in TryLockMqtt :
       IF HasRoom(NextColor) /\ free
         THEN /\ order' = [order EXCEPT !.auto_spawned = @ + 1]
              /\ Publish({Spawn(NextColor)})
         ELSE UNCHANGED order /\ Silent
  /\ SpawnUnchanged

SpawnManual ==
  /\ pc = "spawn" /\ pc' = "cobot"
  /\ ManualSpawnDue
  /\ \E free \in TryLockMqtt :
       IF HasRoom(order.manual_color) /\ free
         THEN /\ order' = [order EXCEPT !.manual_spawn_pending = FALSE]
              /\ Publish({Spawn(order.manual_color)})
         ELSE UNCHANGED order /\ Silent
  /\ UNCHANGED color_counter
  /\ SpawnUnchanged

(* Nothing to spawn, or the callback holds ControlState. *)
SpawnNothing ==
  /\ pc = "spawn" /\ pc' = "cobot"
  /\ LocksContended \/ ~(AutoSpawnDue \/ ManualSpawnDue)
  /\ Silent
  /\ UNCHANGED <<order, color_counter>>
  /\ SpawnUnchanged

----------------------------------------------------------------------------
(* handle_cobot_completed, first section: take the event. *)
TakeCobotEvent ==
  /\ pc = "cobot"
  /\ cobot.completed_event # None
  /\ cobot' = [cobot EXCEPT !.completed_event = None]
  /\ job' = [job EXCEPT !.reported = cobot.completed_event]
  /\ pc' = "cobot_apply"
  /\ Silent
  /\ UNCHANGED <<order, tapas_clasificadas_pending, tolva_counts, amr, pallets,
                 flags, nvs, sharedVars, color_counter, next_caja>>

NoCobotEvent ==
  /\ pc = "cobot"
  /\ LocksContended \/ cobot.completed_event = None
  /\ pc' = "status"
  /\ Silent
  /\ UNCHANGED <<controlVars, sharedVars, job, color_counter, next_caja>>

(* Second section: credit the box cobot_pending names, or a red box without *)
(* an id when it names none, to its colour's pallet.                        *)
CreditedFromAmr == IF amr.caja = None THEN [tolva |-> Red, id |-> None] ELSE amr.caja
Credited == IF cobot.pending = None THEN [tolva |-> Red, id |-> None] ELSE cobot.pending
FillsPalletOver == pallets[Credited.tolva].boxes + 1 > PALLET_CAPACITY
FillsPallet == pallets[Credited.tolva].boxes + 1 >= PALLET_CAPACITY
PalletAfterBox(pallet) == IF FillsPallet
                            THEN [id |-> pallet.id + NumTolvas, boxes |-> 0]
                            ELSE [pallet EXCEPT !.boxes = @ + 1]

ApplyCobotEvent ==
  /\ pc = "cobot_apply"
  /\ cobot' = [cobot EXCEPT !.pending = None, !.started_at = "off"]
  /\ pallets' = [pallets EXCEPT ![Credited.tolva] = PalletAfterBox(@)]
  /\ job' = [job EXCEPT !.caja = Credited.id, !.color = Credited.tolva,
                        !.pallet = pallets[Credited.tolva].id, !.full = FillsPallet,
                        !.operario = FALSE]
  /\ pc' = IF FillsPallet THEN "query" ELSE "push"
  /\ Silent
  /\ UNCHANGED <<order, tapas_clasificadas_pending, tolva_counts, amr, flags, nvs,
                 sharedVars, color_counter, next_caja>>

(* The callback holds ControlState: the event, already taken, is dropped. *)
ApplyBusy ==
  /\ pc = "cobot_apply"
  /\ LocksContended
  /\ pc' = "status"
  /\ Silent
  /\ UNCHANGED <<controlVars, sharedVars, job, color_counter, next_caja>>

----------------------------------------------------------------------------
(* query_operarios: deposit a channel in the slot, ask, wait for at most 5  *)
(* seconds without holding a lock, clear the slot.  The thread waits even   *)
(* when the question could not be published.                                *)
AskOperarios ==
  /\ pc = "query" /\ pc' = "wait"
  /\ pull_slot' = "open"
  /\ \E heard \in TryLockMqtt : IF heard THEN Publish({QueryOperarios}) ELSE Silent
  /\ UNCHANGED <<controlVars, emergency_stop, events, job, color_counter, next_caja>>

(* The answer may list nobody, or not be readable: no operario then. *)
TakeAnswer ==
  /\ pc = "wait" /\ pc' = "push"
  /\ pull_slot = "answered"
  /\ pull_slot' = "empty"
  /\ \E found \in BOOLEAN : job' = [job EXCEPT !.operario = found]
  /\ Silent
  /\ UNCHANGED <<controlVars, emergency_stop, events, color_counter, next_caja>>

AnswerTimeout ==
  /\ pc = "wait" /\ pc' = "push"
  /\ pull_slot = "open"
  /\ pull_slot' = "empty"
  /\ Silent
  /\ UNCHANGED <<controlVars, emergency_stop, events, job, color_counter, next_caja>>

PublishCajaPaletizada ==
  /\ pc = "push" /\ pc' = IF job.full THEN "notify" ELSE "status"
  /\ \E heard \in TryLockMqtt : IF heard THEN Publish({CajaPaletizada(job)}) ELSE Silent
  /\ UNCHANGED <<controlVars, sharedVars, job, color_counter, next_caja>>

NotifyPalletFull ==
  /\ pc = "notify" /\ pc' = "status"
  /\ \E heard \in TryLockMqtt :
       IF heard THEN Publish({PalletFull(job.pallet, job.color)}) ELSE Silent
  /\ UNCHANGED <<controlVars, sharedVars, job, color_counter, next_caja>>

----------------------------------------------------------------------------
(* publish_status: one section under the ControlState mutex, publications   *)
(* included.  Its parts, in the order the code runs them.                   *)

(* The notices, as they stand when the section begins. *)
Reported == order.id_lote # None /\ tapas_clasificadas_pending > 0
NoticesWithLote ==
  When(Reported, TapaClasificada(order.id_lote, tapas_clasificadas_pending))
    \cup When("reset_db" \in flags /\ order.id_lote # None, DbReset(order.id_lote))
    \cup When("batch_complete" \in flags, BatchComplete(order.auto_target))
    \cup When("status" \in flags /\ Reported, Status)
Notices ==
  When(Reported, TapaClasificada(order.id_lote, tapas_clasificadas_pending))
    \cup When("reset_db" \in flags /\ order.id_lote # None, DbReset(order.id_lote))
    \cup When("batch_complete" \in flags, BatchComplete(order.auto_target))
    \cup When("status" \in flags, Status)

(* The AMR did not reach its hopper in AMR_TIMEOUT_SECS. *)
AmrLostEvenLoading == amr.pending_tolva # None /\ amr.dispatched_at = "due"
AmrLostNever == FALSE
AmrLost == /\ amr.pending_tolva # None
           /\ amr.arrived_tolva = None
           /\ amr.dispatched_at = "due"
AmrKept == IF AmrLost THEN [amr EXCEPT !.pending_tolva = None,
                                       !.dispatched_at = "off", !.caja = None]
                      ELSE amr

(* It stood at its hopper for AMR_ARRIVAL_DELAY_SECS: send it to the cobot. *)
Loaded == amr.arrived_at = "due"
Emptied == IF amr.arrived_tolva # None THEN amr.arrived_tolva ELSE AmrKept.pending_tolva
CountsAfterLoad == IF Loaded /\ Emptied # None
                     THEN [tolva_counts EXCEPT ![Emptied] = 0] ELSE tolva_counts

(* It is free, and a hopper has a boxful: send it there. *)
FullTolvasOver == {t \in Tolva : tolva_counts[t] > AMR_TOLVA_THRESHOLD}
FullTolvas == {t \in Tolva : tolva_counts[t] >= AMR_TOLVA_THRESHOLD}
FirstFull == CHOOSE t \in FullTolvas : \A u \in FullTolvas : t <= u
Dispatched == /\ amr.arrived_at = "off"
              /\ AmrKept.pending_tolva = None
              /\ FullTolvas # {}

AmrAfterStatus ==
  CASE Loaded -> NoAmr
    [] Dispatched -> [AmrKept EXCEPT !.pending_tolva = FirstFull,
                                     !.dispatched_at = "running",
                                     !.caja = [tolva |-> FirstFull, id |-> next_caja]]
    [] OTHER -> AmrKept

NextCajaSame == next_caja
NextCaja == IF Dispatched THEN next_caja + 1 ELSE next_caja

AmrCommands ==
  When(Dispatched, GoTo(FirstFull))
    \cup When(Loaded, GoTo(AMR_WAREHOUSE_LOCATION))
    \cup When(Loaded /\ AmrKept.caja # None, BoxCompleted(AmrKept.caja, order.id_lote))

(* The cobot: cobot_pending as the AMR part leaves it, the timeout, and the *)
(* next start.                                                              *)
CobotPending == IF Loaded /\ AmrKept.caja # None THEN AmrKept.caja ELSE cobot.pending
CobotLostUnloaded == cobot.in_progress /\ cobot.started_at = "due" /\ cobot.pending = None
CobotLost == cobot.in_progress /\ cobot.started_at = "due"
CobotStarts == cobot.ready /\ (~cobot.in_progress \/ CobotLost)
CobotAfterStatus ==
  [cobot EXCEPT
     !.ready = @ /\ ~CobotStarts,
     !.in_progress = (@ /\ ~CobotLost) \/ CobotStarts,
     !.started_at = IF CobotStarts THEN "running" ELSE IF CobotLost THEN "off" ELSE @,
     !.pending = IF CobotLost THEN None ELSE CobotPending]
StartColor == IF CobotAfterStatus.pending = None THEN Red
                                                 ELSE CobotAfterStatus.pending.tolva
CobotCommands == When(CobotStarts, CobotStart(pallets[StartColor].id, StartColor))

SaveAfterLoad == IF Loaded /\ Emptied # None
                   THEN SaveTolvaCounts(CountsAfterLoad, NvsMayFail) ELSE UNCHANGED nvs
StatusMessages == Notices \cup AmrCommands \cup CobotCommands

PublishStatus ==
  /\ pc = "status" /\ pc' = "check"
  /\ flags' = {}
  /\ tapas_clasificadas_pending' = IF Reported THEN 0 ELSE tapas_clasificadas_pending
  /\ tolva_counts' = CountsAfterLoad
  /\ SaveAfterLoad
  /\ amr' = AmrAfterStatus
  /\ next_caja' = NextCaja
  /\ job' = NoJob
  /\ cobot' = CobotAfterStatus
  /\ Publish(StatusMessages)
  /\ UNCHANGED <<order, pallets, sharedVars, color_counter>>

----------------------------------------------------------------------------
LogicStep ==
  \/ BeginCycle \/ ProcessRobotEvent \/ EndDrain
  \/ CheckBeforeSpawn \/ SpawnAuto \/ SpawnManual \/ SpawnNothing
  \/ TakeCobotEvent \/ NoCobotEvent \/ ApplyCobotEvent \/ ApplyBusy
  \/ AskOperarios \/ TakeAnswer \/ AnswerTimeout
  \/ PublishCajaPaletizada \/ NotifyPalletFull \/ PublishStatus
=============================================================================
