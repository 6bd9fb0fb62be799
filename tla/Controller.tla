----------------------------- MODULE Controller -----------------------------
(* The cell controller's threads and what they share (main.rs): start-up,   *)
(* the Wi-Fi manager, the MQTT client with its session at the broker, the   *)
(* emergency task, and the locks logic_task takes in a cycle.  What a cycle *)
(* does under its locks is Cell's matter.                                   *)
EXTENDS WifiManager, EmergencyTask, Naturals, Sequences

CONSTANTS
  MQTT_SUB_TOPICS,   \* topics in the order they are subscribed to
  EMERGENCY_ACTION,  \* the one that carries estop and resume
  MaxDrops,          \* bound: losses of link, address or session, failed queries
  MaxDropsInCycles   \* the same, in a behaviour in which logic_task runs cycles

Topics == {MQTT_SUB_TOPICS[i] : i \in 1 .. Len(MQTT_SUB_TOPICS)}

ASSUME ControllerAssumption ==
  /\ MQTT_SUB_TOPICS \in Seq(Topics)
  /\ EMERGENCY_ACTION \in Topics
  /\ MaxDrops \in Nat /\ MaxDropsInCycles \in 0 .. MaxDrops
  /\ None \notin Thread

VARIABLES
  main,         \* where main() is
  next_topic,   \* subscribe_all_topics' place in the list
  session,      \* the client is connected to the broker
  subscribed,   \* topics the broker has for this session (external)
  mqtt,         \* the library's thread: idle, or in the callback
  logic,        \* where logic_task is with its locks
  drops,        \* history: faults so far, to bound them
  cycles        \* bound: whether logic_task runs cycles in this behaviour

vars == <<wifiVars, taskVars, emergency_stop, holder, main, next_topic, session,
          subscribed, mqtt, logic, drops, cycles>>

bounds == <<drops, cycles>>
netVars == <<session, subscribed>>
restOfMain == <<main, next_topic>>

FirstTopic == 1

Init ==
  /\ WifiInit /\ TaskInit
  /\ holder = [l \in Lock |-> None]
  /\ main = "wait" /\ next_topic = FirstTopic
  /\ session = FALSE /\ subscribed = {}
  /\ mqtt = "off" /\ logic = "off"
  /\ drops = 0 /\ cycles \in BOOLEAN

----------------------------------------------------------------------------
Wifi == /\ WifiStep
        /\ UNCHANGED <<taskVars, emergency_stop, holder, restOfMain, netVars, mqtt,
                       logic, bounds>>

Drop == /\ drops < IF cycles THEN MaxDropsInCycles ELSE MaxDrops
        /\ drops' = drops + 1
        /\ UNCHANGED cycles

(* The access point goes; only the address; is_connected fails.             *)
NetworkFault ==
  /\ Drop
  /\ LinkDrops \/ AddressLost \/ LeaveMonitor
  /\ UNCHANGED <<taskVars, emergency_stop, holder, restOfMain, netVars, mqtt,
                 logic>>

----------------------------------------------------------------------------
(* main(): wait_until_ready, the MQTT client, the subscriptions, the tasks. *)
WaitUntilReady ==
  /\ main = "wait"
  /\ main' = IF wifi_ready THEN "client" ELSE "wait"
  /\ UNCHANGED <<wifiVars, taskVars, emergency_stop, holder, next_topic, netVars,
                 mqtt, logic, bounds>>

NewClient ==
  /\ main = "client"
  /\ \/ main' = "subscribe" /\ mqtt' = "idle"
     \/ main' = "ended" /\ UNCHANGED mqtt
  /\ UNCHANGED <<wifiVars, taskVars, emergency_stop, holder, next_topic, netVars,
                 logic, bounds>>

(* subscribe_all_topics: a topic that fails is tried again after 2 s.       *)
AfterErrorSkips == next_topic + 1
AfterError == next_topic
Subscribe ==
  /\ main = "subscribe" /\ next_topic <= Len(MQTT_SUB_TOPICS)
  /\ Free("library")
  /\ \/ /\ session
        /\ subscribed' = subscribed \cup {MQTT_SUB_TOPICS[next_topic]}
        /\ next_topic' = next_topic + 1
     \/ /\ next_topic' = AfterError
        /\ UNCHANGED subscribed
  /\ UNCHANGED <<wifiVars, taskVars, emergency_stop, holder, main, session, mqtt,
                 logic, bounds>>

SpawnTasks ==
  /\ main = "subscribe" /\ next_topic > Len(MQTT_SUB_TOPICS)
  /\ main' = "running" /\ logic' = "cycle" /\ task' = "arm"
  /\ UNCHANGED <<wifiVars, taskLocals, led, announced, emergency_stop, holder,
                 next_topic, netVars, mqtt, bounds>>

Start == WaitUntilReady \/ NewClient \/ Subscribe \/ SpawnTasks

----------------------------------------------------------------------------
(* The client's session (clean: the broker forgets its topics when it ends).*)
SessionOpens ==
  /\ mqtt # "off" /\ link = "online" /\ ~session
  /\ session' = TRUE
  /\ UNCHANGED <<wifiVars, taskVars, emergency_stop, holder, restOfMain, subscribed,
                 mqtt, logic, bounds>>

SessionEnds ==
  /\ session
  /\ session' = FALSE /\ subscribed' = {}
  /\ IF link = "online" THEN Drop ELSE UNCHANGED bounds
  /\ UNCHANGED <<wifiVars, taskVars, emergency_stop, holder, restOfMain, mqtt,
                 logic>>

(* A message of emergency/action.                                           *)
EmergencyAction(stop) ==
  /\ mqtt = "idle" /\ Free("library")
  /\ session /\ EMERGENCY_ACTION \in subscribed
  /\ emergency_stop' = stop
  /\ UNCHANGED <<wifiVars, taskVars, holder, restOfMain, netVars, mqtt, logic,
                 bounds>>

(* A SCADA command, or an answer to db/pull: the library's lock is held     *)
(* while the callback runs, ControlState or the slot only tried.            *)
MessageArrives ==
  /\ mqtt = "idle" /\ mqtt' \in {"command", "answer"}
  /\ session /\ subscribed # {}
  /\ Take("library", "mqtt")
  /\ UNCHANGED <<wifiVars, taskVars, emergency_stop, restOfMain, netVars, logic,
                 bounds>>

TryControlWaits == Free("control")
TryControl == TRUE
Callback ==
  /\ mqtt = "command"
  /\ TryControl
  /\ IF Free("control") /\ ~emergency_stop
       THEN mqtt' = "control" /\ Take("control", "mqtt")
       ELSE mqtt' = "idle" /\ Release({"library"})
  /\ UNCHANGED <<wifiVars, taskVars, emergency_stop, restOfMain, netVars, logic,
                 bounds>>

TrySlot ==
  /\ mqtt = "answer"
  /\ IF Free("slot") THEN mqtt' = "slot" /\ Take("slot", "mqtt")
                     ELSE mqtt' = "idle" /\ Release({"library"})
  /\ UNCHANGED <<wifiVars, taskVars, emergency_stop, restOfMain, netVars, logic,
                 bounds>>

CallbackEnds ==
  /\ mqtt \in {"control", "slot"} /\ mqtt' = "idle"
  /\ Release({"library", mqtt})
  /\ UNCHANGED <<wifiVars, taskVars, emergency_stop, restOfMain, netVars, logic,
                 bounds>>

----------------------------------------------------------------------------
(* A cycle of logic_task, as far as its locks go: what it finds under them  *)
(* (a report in the queue, a cap to spawn, a completion, a full pallet) is  *)
(* open here.  Sections that ask for no other lock are one step.            *)
logicRest == <<wifiVars, taskVars, emergency_stop, restOfMain, netVars, mqtt, bounds>>

Goes(from, next) == logic = from /\ logic' \in next /\ UNCHANGED logicRest
Passes(from, next) == Goes(from, next) /\ UNCHANGED holder

BeginCycle == cycles /\ ~emergency_stop /\ Passes("cycle", {"drain"})

(* The drain: for each report it finds, process_robot_event waits for       *)
(* ControlState (a report that names nothing known is passed over).         *)
DrainEvent == Passes("drain", {"event"})
ProcessEvent == Free("control") /\ Passes("event", {"drain"})
EndDrain == Passes("drain", {"spawn"})

(* try_spawn_caps: both locks are tried, ControlState first.                *)
SkipSpawn == Passes("spawn", {"cobot"})
TrySpawn == /\ ~emergency_stop
            /\ Goes("spawn", {"spawn_client"}) /\ Take("control", "logic")
HeldInVainStays == {}
HeldInVain == {"control"}
SpawnInVain == Goes("spawn_client", {"cobot"}) /\ Release(HeldInVain)
SpawnClient == Goes("spawn_client", {"spawn_publish"}) /\ Take("client", "logic")
PublishSpawn == /\ Free("library")
                /\ Goes("spawn_publish", {"cobot"}) /\ Release({"client", "control"})

(* handle_cobot_completed: ControlState is tried twice, to take the report  *)
(* and to apply it; a full pallet asks for an operario.                     *)
NoCompletion == \E from \in {"cobot", "apply"} : Passes(from, {"status"})
TakeCompletion == Free("control") /\ Passes("cobot", {"apply"})
ApplyCompletion == Free("control") /\ Passes("apply", {"push", "ask"})

(* query_operarios: the channel is put in the slot and taken out again,     *)
(* each time waiting for the slot; in between it asks and waits for the     *)
(* answer, 5 s at most, without a lock.                                     *)
FillSlot == Free("slot") /\ Passes("ask", {"query"})
AwaitAnswer == Passes("answer", {"clear"})
ClearSlot == Free("slot") /\ Passes("clear", {"push"})

(* Its question, caja_paletizada and pallet_full: the client is tried.      *)
Message == {"query", "push", "notify"}
Publishing(m) == CASE m = "query" -> "query_publish"
                   [] m = "push" -> "push_publish"
                   [] m = "notify" -> "notify_publish"
Then(m) == CASE m = "query" -> {"answer"}
             [] m = "push" -> {"notify", "status"}
             [] m = "notify" -> {"status"}
NoClient(m) == ~Free("client") /\ Passes(m, Then(m))
TryClient(m) == Goes(m, {Publishing(m)}) /\ Take("client", "logic")
PublishMessage(m) == /\ Free("library")
                     /\ Goes(Publishing(m), Then(m)) /\ Release({"client"})

(* publish_status: both locks are waited for, ControlState first.           *)
LockControl == Goes("status", {"status_client"}) /\ Take("control", "logic")
LockStatusClient == Goes("status_client", {"status_publish"}) /\ Take("client", "logic")
PublishStatus == /\ Free("library")
                 /\ Goes("status_publish", {"cycle"}) /\ Release({"client", "control"})

LogicStep ==
  \/ BeginCycle \/ DrainEvent \/ ProcessEvent \/ EndDrain
  \/ SkipSpawn \/ TrySpawn \/ SpawnInVain \/ SpawnClient \/ PublishSpawn
  \/ NoCompletion \/ TakeCompletion \/ ApplyCompletion
  \/ FillSlot \/ AwaitAnswer \/ ClearSlot
  \/ \E m \in Message : NoClient(m) \/ TryClient(m) \/ PublishMessage(m)
  \/ LockControl \/ LockStatusClient \/ PublishStatus

----------------------------------------------------------------------------
Buttons == /\ \E b \in Button : Press(b)
           /\ UNCHANGED <<wifiVars, restOfMain, netVars, mqtt, logic, bounds>>

Task == /\ TaskStep
        /\ UNCHANGED <<wifiVars, restOfMain, netVars, mqtt, logic, bounds>>

Mqtt == \/ SessionOpens \/ SessionEnds \/ MessageArrives \/ Callback \/ TrySlot
        \/ CallbackEnds
        \/ \E stop \in BOOLEAN : EmergencyAction(stop)

Next == Wifi \/ NetworkFault \/ Start \/ Mqtt \/ LogicStep \/ Buttons \/ Task

Spec == Init /\ [][Next]_vars

(* The lock a thread is waiting for: a try_lock waits for none.             *)
WaitsFor(t) ==
  CASE t = "logic" ->
         CASE logic \in {"event", "status"} -> {"control"}
           [] logic \in {"ask", "clear"} -> {"slot"}
           [] logic = "status_client" -> {"client"}
           [] logic \in {"spawn_publish", "query_publish", "push_publish",
                         "notify_publish", "status_publish"} -> {"library"}
           [] OTHER -> {}
    [] t = "emergency" -> CASE task = "lock" -> {"client"}
                            [] task = "publish" -> {"library"}
                            [] OTHER -> {}
    [] t = "mqtt" -> IF mqtt = "command" /\ ~TryControl THEN {"control"} ELSE {}

(* Threads run; a mutex that is free again and again is given to who waits, *)
(* and a drain finds its queue empty in the end: the robots report what     *)
(* cycles asked of them, and none asks while it drains.                     *)
ThreadFairness ==
  /\ WF_vars(WaitUntilReady) /\ WF_vars(NewClient) /\ WF_vars(SpawnTasks)
  /\ WF_vars(Task) /\ SF_vars(Task /\ task \in {"lock", "publish"})
  /\ WF_vars(Callback \/ TrySlot) /\ WF_vars(CallbackEnds)
  /\ WF_vars(LogicStep) /\ SF_vars(EndDrain)
  /\ SF_vars(LogicStep /\ WaitsFor("logic") # {})

(* The network and the broker answer a call that is made again and again,   *)
(* and the client notices that its connection is gone.                      *)
NetworkFairness ==
  /\ WF_vars(Wifi)
  /\ SF_vars(Wifi /\ Connects) /\ SF_vars(Wifi /\ NetifUp)
  /\ SF_vars(Wifi /\ (Retry \/ Restart) /\ link' = "started")
  /\ WF_vars(SessionOpens) /\ WF_vars(SessionEnds /\ link # "online")
  /\ SF_vars(Subscribe /\ subscribed' # subscribed)

FairSpec == Spec /\ ThreadFairness /\ NetworkFairness

----------------------------------------------------------------------------
(* Types; next_topic stays inside the list, and wifi_ready, which main()    *)
(* waits for, is set exactly while an association is being watched.         *)
ControllerTypeOK ==
  /\ WifiTypeOK /\ TaskTypeOK
  /\ holder \in [Lock -> Thread \cup {None}]
  /\ main \in {"wait", "client", "subscribe", "running", "ended"}
  /\ next_topic \in 1 .. Len(MQTT_SUB_TOPICS) + 1
  /\ session \in BOOLEAN /\ subscribed \subseteq Topics
  /\ mqtt \in {"off", "idle", "command", "answer", "control", "slot"}
  /\ logic \in {"off", "cycle", "drain", "event", "spawn", "spawn_client",
                "spawn_publish", "cobot", "apply", "ask", "query", "query_publish",
                "answer", "clear", "push", "push_publish", "notify",
                "notify_publish", "status", "status_client", "status_publish"}
  /\ drops \in 0 .. MaxDrops /\ cycles \in BOOLEAN

(* Subscriptions fail while the client is not yet connected, and the tasks  *)
(* still start with every topic subscribed to: as long as nothing is lost,  *)
(* no command goes unheard (subscribe_all_topics).                          *)
SubscribedAtFirst == main = "running" /\ drops = 0 => subscribed = Topics

(* An emergency press seen before the swap stops the cell, whatever the     *)
(* resume button and emergency/action do in the same wake-up.               *)
PressHeard == ("emergency_button" \in flags /\ task = "wait") ~> emergency_stop

(* Whatever the buttons and emergency/action do while the emergency task    *)
(* waits for the client, it remembers what it shows and has announced: LED  *)
(* and last status agree with last_state, but on the way from a change      *)
(* shown to its status, when the LED is ahead of them (emergency_task.rs).  *)
LampRemembered ==
  /\ announced \in {None, last_state}
  /\ led = IF task \in {"lock", "publish"} THEN current_state ELSE last_state
  /\ task \in {"lock", "publish"} => current_state # last_state

(* Once emergency_stop settles, the LED and the last emergency/status agree *)
(* with it: no change slips between reading it and remembering what was     *)
(* shown, while the task waits for the client.                              *)
StopShown == \A stop \in BOOLEAN :
  <>[](main = "running" /\ emergency_stop = stop)
     => <>[](led = stop /\ (announced # None => announced = stop))

(* No threads wait for each other in a circle: logic_task takes the client  *)
(* under ControlState and the library's lock under both, and the callback,  *)
(* which has the library's lock, only tries ControlState and the slot.      *)
NoCircularWait ==
  \A S \in (SUBSET Thread) \ {{}} :
    \E t \in S : \A l \in WaitsFor(t) : holder[l] \notin S

(* Every cycle of logic_task ends, from the drain to publish_status: what   *)
(* the other two threads do with the locks, and a section that gave up for  *)
(* one it only tried, never keep it from the rest.                          *)
CycleEnds == logic \notin {"off", "cycle"} ~> logic = "cycle"

(* The cell starts, or a call of start-up failed; the exception is a        *)
(* station that is associated for ever without an address: nobody tries     *)
(* again then, and the client never connects.                               *)
StartsUp == \/ <>(main \in {"running", "ended"} \/ wifi = "ended")
            \/ <>[](link = "associated")

(* A lost association is noticed and made good, with an address. *)
NetworkRecovers == link = "started" ~> (link = "online" \/ wifi = "ended")

(* A running cell with a session hears emergency/action, as SISTEMA.md says *)
(* of it.                                                                   *)
NeverDeaf == main = "running" /\ session
               ~> (EMERGENCY_ACTION \in subscribed \/ ~session)
=============================================================================
