---------------------------- MODULE WifiManager ----------------------------
(* The wifi-manager thread (Project ESP32S3, wifi_manager.rs): it connects, *)
(* watches the association and connects again.  The driver and the access   *)
(* point are external: any call that may fail fails or succeeds.            *)

VARIABLES
  wifi,         \* where the thread is
  link,         \* the station, as the driver has it
  wifi_ready

wifiVars == <<wifi, link, wifi_ready>>

Link == {"stopped", "started", "associated", "online"}

WifiTypeOK ==
  /\ wifi \in {"setup", "connect", "netif", "retry",
               "monitor", "restart", "reconnect", "renetif", "ended"}
  /\ link \in Link
  /\ wifi_ready = (wifi = "monitor")

WifiInit == wifi = "setup" /\ link = "stopped" /\ wifi_ready = FALSE

(* connect_wifi up to its loop; every failure ends the thread. *)
SetUp ==
  /\ wifi = "setup"
  /\ \/ wifi' = "connect" /\ link' = "started"
     \/ wifi' = "ended" /\ UNCHANGED link
  /\ UNCHANGED wifi_ready

(* disconnect, stop, wait, start: the station starts afresh, or not.        *)
RestartedNever == {"stopped"}
Restarted == {"started", "stopped"}

(* connect_wifi tries to connect even when start failed ... *)
Retry ==
  /\ wifi = "retry" /\ wifi' = "connect"
  /\ link' \in Restarted
  /\ UNCHANGED wifi_ready

(* ... reconnect_wifi starts again. *)
Restart ==
  /\ wifi = "restart"
  /\ link' \in Restarted
  /\ wifi' = IF link' = "started" THEN "reconnect" ELSE "restart"
  /\ UNCHANGED wifi_ready

Failed == /\ wifi' = IF wifi \in {"connect", "netif"} THEN "retry" ELSE "restart"
          /\ UNCHANGED <<link, wifi_ready>>

Connects ==
  /\ wifi \in {"connect", "reconnect"}
  /\ link = "started" /\ link' = "associated"
  /\ wifi' = IF wifi = "connect" THEN "netif" ELSE "renetif"
  /\ UNCHANGED wifi_ready
ConnectFails == wifi \in {"connect", "reconnect"} /\ Failed

(* wait_netif_up; once there is an address the thread says so and watches.  *)
NetifUp ==
  /\ wifi \in {"netif", "renetif"} /\ wifi' = "monitor"
  /\ link = "associated" /\ link' = "online"
  /\ wifi_ready' = TRUE
NetifFails == wifi \in {"netif", "renetif"} /\ Failed

(* is_connected asks for the association, not for the address. *)
LostNever == FALSE
Lost == link \notin {"associated", "online"}
LeaveMonitorReady == /\ wifi = "monitor" /\ wifi' = "restart"
                     /\ UNCHANGED <<wifi_ready, link>>
LeaveMonitor == /\ wifi = "monitor" /\ wifi' = "restart"
                /\ wifi_ready' = FALSE
                /\ UNCHANGED link
Monitor == /\ wifi = "monitor"
           /\ IF Lost THEN LeaveMonitor ELSE UNCHANGED wifiVars

WifiStep == \/ SetUp \/ Retry \/ Restart \/ Connects \/ ConnectFails
            \/ NetifUp \/ NetifFails \/ Monitor

(* The association, or only the address, is lost. *)
LinkDrops == /\ link \in {"associated", "online"} /\ link' = "started"
             /\ UNCHANGED <<wifi, wifi_ready>>
AddressLost == /\ link = "online" /\ link' = "associated"
               /\ UNCHANGED <<wifi, wifi_ready>>
=============================================================================
