---------------------------- MODULE MqttCallback ----------------------------
(* The closure EspMqttClient runs for each received message                 *)
(* (mqtt_manager.rs), on the MQTT client's thread.  It only ever try_locks  *)
(* ControlState: while another thread holds the lock the command is logged  *)
(* and dropped, which is a step that changes nothing and needs no action.   *)
(* The same holds for a payload that is not JSON, an unknown command, a     *)
(* Manual gen with an unknown colour and a status other than "completed" or *)
(* "arrived".                                                               *)
EXTENDS CellState

(* scada/action is ignored while the emergency stop is set. *)
Scada == ~emergency_stop

ScadaStatus ==
  /\ Scada
  /\ flags' = flags \cup {"status"}
  /\ Silent
  /\ UNCHANGED <<order, tapas_clasificadas_pending, tolva_counts, amr, cobot,
                 pallets, nvs, sharedVars, threadVars>>

ScadaSetMode(mode) ==
  /\ Scada
  /\ order' = [order EXCEPT !.mode = mode, !.id_lote = None]
  /\ Silent
  /\ UNCHANGED <<tapas_clasificadas_pending, tolva_counts, amr, cobot, pallets,
                 flags, nvs, sharedVars, threadVars>>

(* gen: lote is None when the message carries an empty id_lote. *)
AutoOrder(quantity, lote) ==
  [order EXCEPT !.auto_target = quantity % U32, !.auto_spawned = 0,
                !.auto_validated = 0, !.id_lote = lote]
ManualOrder(color, lote) ==
  [order EXCEPT !.manual_remaining = 1, !.manual_color = color,
                !.manual_spawn_pending = TRUE,
                !.id_lote = IF @ = None THEN lote ELSE @]

ScadaGen(quantity, color, lote) ==
  /\ Scada
  /\ order' = IF order.mode = "Auto" THEN AutoOrder(quantity, lote)
                                     ELSE ManualOrder(color, lote)
  /\ Silent
  /\ UNCHANGED <<tapas_clasificadas_pending, tolva_counts, amr, cobot, pallets,
                 flags, nvs, sharedVars, threadVars>>

(* What reset leaves of the order, and of the cobot's bookkeeping: the mode *)
(* and a Manual order survive, and so does cobot_started_at.                *)
OrderAfterReset == [order EXCEPT !.auto_target = 0, !.auto_spawned = 0,
                                 !.auto_validated = 0, !.id_lote = None]
CobotAfterReset == [NoCobot EXCEPT !.started_at = cobot.started_at]

ScadaReset(NvsMayFail) ==
  /\ Scada
  /\ tolva_counts' = EmptyTolvas
  /\ SaveTolvaCounts(EmptyTolvas, NvsMayFail)
  /\ pallets' = FirstPallets
  /\ amr' = NoAmr
  /\ cobot' = CobotAfterReset
  /\ order' = OrderAfterReset
  /\ tapas_clasificadas_pending' = 0
  /\ flags' = flags \cup {"reset_db"}
  /\ Silent
  /\ UNCHANGED <<sharedVars, threadVars>>

(* A robot's report joins the event queue, or is dropped when it is full. *)
TrySend(event) ==
  events' = IF Len(events) < QUEUE_CAPACITY THEN Append(events, event) ELSE events

RobotStatus(event) ==
  /\ TrySend(event)
  /\ Quiet
  /\ UNCHANGED <<controlVars, emergency_stop, pull_slot, threadVars>>

DeltaStatus(c) == RobotStatus([kind |-> "delta", color |-> c])
AmrStatus(l) == RobotStatus([kind |-> "amr", location |-> l])
CobotStatus(p) == RobotStatus([kind |-> "cobot", pallet |-> p])

EmergencyAction(stop) ==
  /\ emergency_stop' = stop
  /\ Silent
  /\ UNCHANGED <<controlVars, events, pull_slot, threadVars>>

(* db/pull/response: handed to whoever waits in the slot; the channel in it *)
(* holds one answer, and a second one is dropped.                           *)
DbPullResponse ==
  /\ pull_slot' = IF pull_slot = "open" THEN "answered" ELSE pull_slot
  /\ Quiet
  /\ UNCHANGED <<controlVars, emergency_stop, events, threadVars>>
=============================================================================
