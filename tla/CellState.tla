----------------------------- MODULE CellState -----------------------------
(* The state of the sorting-cell firmware (Project ESP32S3/rust): the       *)
(* mutex-protected ControlState, the objects main() shares between the      *)
(* threads, the locals of logic_task, and, outside the firmware, what the   *)
(* robots, the database bridge and the broker hold.                         *)
(*                                                                          *)
(* A colour and its hopper (tolva) are the same index, as color_to_index    *)
(* and tolva_index_to_color make them.  An Instant is only ever compared    *)
(* with a fixed delay, so it is a Timer: "off" (None), "running", or "due"  *)
(* once the delay it is compared with has passed.                           *)
EXTENDS Naturals, Sequences

CONSTANTS
  NumTolvas,              \* hoppers, colours and pallet series (6 in the code)
  AMR_TOLVA_THRESHOLD,    \* caps that make a box (20)
  PALLET_CAPACITY,        \* boxes that fill a pallet (6)
  U32,                    \* size of the u32 range a gen quantity is cut to (2^32)
  QUEUE_CAPACITY,         \* sync_channel capacity of the robot event queue (64)
  Rotation,               \* VALID_COLORS: position in the rotation -> colour
  AMR_WAREHOUSE_LOCATION, \* "cobot_pick"
  Lotes,                  \* batch identifiers the SCADA uses
  Unknown,                \* a colour or a location the firmware does not know
  None                    \* Option::None

Tolva == 0 .. NumTolvas - 1
Red == 0

ASSUME CellAssumption ==
  /\ NumTolvas \in Nat \ {0}
  /\ AMR_TOLVA_THRESHOLD \in Nat \ {0}
  /\ PALLET_CAPACITY \in Nat \ {0}
  /\ U32 \in Nat \ {0}
  /\ QUEUE_CAPACITY \in Nat \ {0}
  /\ Rotation \in [Tolva -> Tolva]
  /\ \A c \in Tolva : \E i \in Tolva : Rotation[i] = c
  /\ None \notin Nat /\ Unknown \notin Nat /\ AMR_WAREHOUSE_LOCATION \notin Nat
  /\ None # Unknown /\ None # AMR_WAREHOUSE_LOCATION
  /\ Unknown # AMR_WAREHOUSE_LOCATION
  /\ None \notin Lotes

VARIABLES
  \* ControlState, behind its mutex
  order,                      \* mode and the Auto and Manual orders
  tapas_clasificadas_pending, \* caps sorted but not yet reported to the database
  tolva_counts,               \* caps per hopper
  amr, cobot, pallets,        \* the robots' bookkeeping
  flags,                      \* notices that publish_status has still to publish
  \* shared by main() with the other threads
  nvs,                        \* tolva_counts as flash holds them
  emergency_stop, events, pull_slot,
  \* logic_task
  pc, job, color_counter, next_caja,
  \* outside the firmware
  out, lost,                  \* messages the last step handed to publish_text,
                              \* and those of them that failed to be published
  caps,                       \* caps spawned and not yet reported by the Delta
  amr_goal, arrivals,         \* where the AMR is going; its reports under way
  cobot_task, completions,    \* pallet the cobot works on; its reports under way
  bridge,                     \* the bridge owes an answer to db/pull
  commands, faults             \* inputs used up (bounded by the environment)

controlVars == <<order, tapas_clasificadas_pending, tolva_counts, amr, cobot,
                 pallets, flags, nvs>>
sharedVars == <<emergency_stop, events, pull_slot>>
threadVars == <<pc, job, color_counter, next_caja>>
plantVars == <<caps, amr_goal, arrivals, cobot_task, completions, bridge>>
boundVars == <<commands, faults>>
vars == <<controlVars, sharedVars, threadVars, out, lost, plantVars, boundVars>>

----------------------------------------------------------------------------
Mode == {"Manual", "Auto"}
Timer == {"off", "running", "due"}
Flag == {"status", "batch_complete", "reset_db"}
PC == {"check", "drain", "spawn_check", "spawn", "cobot", "cobot_apply",
       "query", "wait", "push", "notify", "status"}

Location == Tolva \cup {AMR_WAREHOUSE_LOCATION, Unknown}

Order == [mode: Mode, auto_target: Nat, auto_spawned: Nat, auto_validated: Nat,
          id_lote: Lotes \cup {None}, manual_remaining: Nat,
          manual_color: Tolva, manual_spawn_pending: BOOLEAN]

Caja == [tolva: Tolva, id: Nat]      \* a box: the hopper it was filled at, its id
Amr == [pending_tolva: Tolva \cup {None}, dispatched_at: Timer,
        arrived_tolva: Tolva \cup {None}, arrived_at: Timer,
        caja: Caja \cup {None}]
Cobot == [ready: BOOLEAN, in_progress: BOOLEAN, started_at: Timer,
          pending: Caja \cup {None}, completed_event: Nat \cup {None}]
Pallet == [id: Nat, boxes: Nat]

Job == [caja: Nat \cup {None}, color: Tolva, pallet: Nat, full: BOOLEAN,
        reported: Nat, operario: BOOLEAN]

ASSUME CajaAssumption == None \notin Caja

Event == [kind: {"delta"}, color: Tolva \cup {Unknown}]
           \cup [kind: {"amr"}, location: Location]
           \cup [kind: {"cobot"}, pallet: Nat]

----------------------------------------------------------------------------
(* ControlState::default *)
DefaultOrder == [mode |-> "Manual", auto_target |-> 0, auto_spawned |-> 0,
                 auto_validated |-> 0, id_lote |-> None, manual_remaining |-> 0,
                 manual_color |-> Red, manual_spawn_pending |-> FALSE]
NoAmr == [pending_tolva |-> None, dispatched_at |-> "off", arrived_tolva |-> None,
          arrived_at |-> "off", caja |-> None]
NoCobot == [ready |-> FALSE, in_progress |-> FALSE, started_at |-> "off",
            pending |-> None, completed_event |-> None]
EmptyTolvas == [t \in Tolva |-> 0]
FirstPallets == [t \in Tolva |-> [id |-> t + 1, boxes |-> 0]]

(* handle_cobot_completed's locals, out of scope. *)
NoJob == [caja |-> None, color |-> Red, pallet |-> 0, full |-> FALSE,
          reported |-> 0, operario |-> FALSE]

(* tolva_counts, one key after the other; the first key that cannot be      *)
(* written ends the save, and those before it stay written.                 *)
SaveTolvaCountsButLast(counts, MayFail) ==
  \E written \in IF MayFail THEN 0 .. NumTolvas ELSE {NumTolvas} :
    nvs' = [t \in Tolva |-> IF t + 1 < written THEN counts[t] ELSE nvs[t]]
SaveTolvaCounts(counts, MayFail) ==
  \E written \in IF MayFail THEN 0 .. NumTolvas ELSE {NumTolvas} :
    nvs' = [t \in Tolva |-> IF t < written THEN counts[t] ELSE nvs[t]]

----------------------------------------------------------------------------
(* Messages the firmware publishes, by topic.  A record's other fields are  *)
(* those the properties tell apart.                                         *)
Spawn(c) == [topic |-> "robodk", color |-> c]
GoTo(l) == [topic |-> "amr", location |-> l]
CobotStart(p, c) == [topic |-> "cobot", pallet |-> p, color |-> c]
BoxCompleted(b, lote) == [topic |-> "db", event |-> "box_completed", caja |-> b.id,
                          color |-> b.tolva, lote |-> lote]
CajaPaletizada(j) == [topic |-> "db", event |-> "caja_paletizada", caja |-> j.caja,
                      color |-> j.color, pallet |-> j.pallet, closed |-> j.full,
                      operario |-> j.operario]
TapaClasificada(lote, n) == [topic |-> "db", event |-> "tapa_clasificada",
                             lote |-> lote, cantidad |-> n]
DbReset(lote) == [topic |-> "db", event |-> "reset", lote |-> lote]
Status == [topic |-> "scada", event |-> "status"]
BatchComplete(n) == [topic |-> "scada", event |-> "batch_complete", total |-> n]
PalletFull(p, c) == [topic |-> "scada", event |-> "pallet_full", pallet |-> p,
                     color |-> c]
QueryOperarios == [topic |-> "db_pull"]

Events(msgs, e) == {m \in msgs : m.topic = "db" /\ m.event = e}

(* What the receivers make of messages that reach them: the Delta gets a    *)
(* cap to sort, the AMR and the cobot take the newest command.              *)
Deliver(msgs) ==
  /\ caps' = [c \in Tolva |-> caps[c] + IF Spawn(c) \in msgs THEN 1 ELSE 0]
  /\ amr_goal' = IF \E l \in Location : GoTo(l) \in msgs
                   THEN CHOOSE l \in Location : GoTo(l) \in msgs
                   ELSE amr_goal
  /\ cobot_task' = IF \E m \in msgs : m.topic = "cobot"
                     THEN (CHOOSE m \in msgs : m.topic = "cobot").pallet
                     ELSE cobot_task
  /\ bridge' = (bridge \/ QueryOperarios \in msgs)
  /\ UNCHANGED <<arrivals, completions>>

(* publish_text, for each of msgs: a message the client refuses is logged   *)
(* and gone, and the caller goes on as if it had been sent.                 *)
Publish(msgs) ==
  /\ out' = msgs
  /\ lost' \in SUBSET msgs
  /\ Deliver(msgs \ lost')

Quiet == out' = {} /\ lost' = {}
Silent == Quiet /\ UNCHANGED plantVars
=============================================================================
