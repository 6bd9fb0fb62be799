----------------------------- MODULE CellReset -----------------------------
(* Cell with a history variable: the batch that was active when the SCADA's *)
(* last reset was accepted, until publish_status takes the request.         *)
EXTENDS Cell

VARIABLE reset_lote

ResetInit == Init /\ reset_lote = None

ResetNext ==
  /\ Next
  /\ reset_lote' = IF "reset_db" \in flags' \ flags THEN order.id_lote
                    ELSE IF "reset_db" \in flags' THEN reset_lote ELSE None

ResetSpec == ResetInit /\ [][ResetNext]_<<vars, reset_lote>>

(* SISTEMA.md: reset_db_pending makes publish_status send the database a    *)
(* reset, mqtt_messages.md adds: for the active batch, if there is one.     *)
ResetReachesDatabase ==
  [][(reset_lote # None /\ flags' = {} /\ pc = "status" /\ pc' = "check")
        => DbReset(reset_lote) \in out']_<<vars, reset_lote>>
=============================================================================
