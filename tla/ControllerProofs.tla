-------------------------- MODULE ControllerProofs --------------------------
(* Proofs about the controller's threads: types, subscriptions and locks. *)
EXTENDS Controller, TLAPS

(* Who holds a lock is where it has taken it and not given it back. *)
LocksAgree ==
  /\ holder["library"] # None => holder["library"] = "mqtt"
  /\ holder["library"] = "mqtt" <=> mqtt \in {"command", "answer", "control", "slot"}
  /\ holder["slot"] # None => holder["slot"] = "mqtt"
  /\ holder["slot"] = "mqtt" <=> mqtt = "slot"
  /\ holder["control"] # "emergency"
  /\ holder["control"] = "mqtt" <=> mqtt = "control"
  /\ holder["control"] = "logic" <=> logic \in {"spawn_client", "spawn_publish",
                                                "status_client", "status_publish"}
  /\ holder["client"] # "mqtt"
  /\ holder["client"] = "logic" <=> logic \in {"spawn_publish", "query_publish",
                                               "push_publish", "notify_publish",
                                               "status_publish"}
  /\ holder["client"] = "emergency" <=> task = "publish"

(* Without a fault the thread only watches an address it has, ... *)
LinkKept == drops = 0 => (wifi = "monitor" => link = "online")
                         /\ (session => wifi = "monitor")
                         /\ (link = "online" => wifi = "monitor")

(* ... so a session never ends, and the broker has the topics passed. *)
TopicsPassed == drops = 0 =>
  subscribed = {MQTT_SUB_TOPICS[i] : i \in 1 .. next_topic - 1}

(* The client comes after the wait, and the tasks after the list. *)
NotBefore == /\ main \in {"wait", "client"} => mqtt = "off"
             /\ main # "running" => task = "off" /\ logic = "off"
PastTheList == main = "running" => next_topic = Len(MQTT_SUB_TOPICS) + 1

Inv == ControllerTypeOK /\ LocksAgree /\ LinkKept /\ TopicsPassed /\ PastTheList
       /\ NotBefore

ListFacts == Len(MQTT_SUB_TOPICS) \in Nat
             /\ \A i \in 1 .. Len(MQTT_SUB_TOPICS) : MQTT_SUB_TOPICS[i] \in Topics

LEMMA List == ListFacts
BY ControllerAssumption DEF ListFacts, Topics, ControllerAssumption

(* The program starts in the invariant. *)
LEMMA InitInv == Init => Inv
<1> SUFFICES ASSUME Init PROVE Inv
  OBVIOUS
<1> USE DEF Init, WifiInit, TaskInit, FirstTopic
<1>1. ControllerTypeOK
  <2>1. WifiTypeOK /\ TaskTypeOK
    BY DEF WifiTypeOK, TaskTypeOK, Link
  <2>2. holder \in [Lock -> Thread \cup {None}]
    OBVIOUS
  <2>3. next_topic \in 1 .. Len(MQTT_SUB_TOPICS) + 1 /\ drops \in 0 .. MaxDrops
        /\ cycles \in BOOLEAN
    BY List, ControllerAssumption DEF ListFacts, ControllerAssumption
  <2> QED
    BY <2>1, <2>2, <2>3 DEF ControllerTypeOK
<1>2. LocksAgree
  BY ControllerAssumption DEF LocksAgree, Lock, Thread, ControllerAssumption
<1>3. LinkKept /\ TopicsPassed /\ PastTheList /\ NotBefore
  BY DEF LinkKept, TopicsPassed, PastTheList, NotBefore
<1> QED
  BY <1>1, <1>2, <1>3 DEF Inv

(* A step of logic_task touches no more than its place and the locks. *)
LEMMA LogicQuiet == LogicStep => UNCHANGED logicRest /\ logic # "off" /\ logic' # "off"
<1> SUFFICES ASSUME LogicStep
             PROVE  UNCHANGED logicRest /\ logic # "off" /\ logic' # "off"
  OBVIOUS
<1> USE DEF Goes, Passes
<1>1. CASE BeginCycle \/ DrainEvent \/ ProcessEvent \/ EndDrain
  BY <1>1 DEF BeginCycle, DrainEvent, ProcessEvent, EndDrain
<1>2. CASE SkipSpawn \/ TrySpawn \/ SpawnInVain \/ SpawnClient \/ PublishSpawn
  BY <1>2 DEF SkipSpawn, TrySpawn, SpawnInVain, SpawnClient, PublishSpawn
<1>3. CASE NoCompletion \/ TakeCompletion \/ ApplyCompletion
  BY <1>3 DEF NoCompletion, TakeCompletion, ApplyCompletion
<1>4. CASE FillSlot \/ AwaitAnswer \/ ClearSlot
  BY <1>4 DEF FillSlot, AwaitAnswer, ClearSlot
<1>5. CASE \E m \in Message : NoClient(m) \/ TryClient(m) \/ PublishMessage(m)
  BY <1>5 DEF Message, NoClient, TryClient, PublishMessage, Publishing, Then
<1>6. CASE LockControl \/ LockStatusClient \/ PublishStatus
  BY <1>6 DEF LockControl, LockStatusClient, PublishStatus
<1> QED
  BY <1>1, <1>2, <1>3, <1>4, <1>5, <1>6 DEF LogicStep

(* The count of faults stays within its bounds. *)
LEMMA DropsStep ==
  ControllerTypeOK /\ [Next]_vars => drops' \in 0 .. MaxDrops /\ UNCHANGED cycles
<1> SUFFICES ASSUME drops \in 0 .. MaxDrops, Drop \/ UNCHANGED bounds
             PROVE  drops' \in 0 .. MaxDrops /\ UNCHANGED cycles
  <2> SUFFICES ASSUME [Next]_vars PROVE Drop \/ UNCHANGED bounds
    BY DEF ControllerTypeOK
  <2> QED
    BY LogicQuiet
    DEF Next, vars, bounds, Wifi, NetworkFault, Start, WaitUntilReady, NewClient,
        Subscribe, SpawnTasks, Mqtt, SessionOpens, SessionEnds, MessageArrives, Callback, TrySlot,
        CallbackEnds, EmergencyAction, logicRest, Buttons, Task
<1> QED
  BY ControllerAssumption DEF Drop, bounds, ControllerAssumption

(* So do the Wi-Fi thread and the station. *)
LEMMA WifiStepTyped ==
  WifiTypeOK /\ (WifiStep \/ LinkDrops \/ AddressLost \/ LeaveMonitor) => WifiTypeOK'
<1> SUFFICES ASSUME WifiTypeOK, WifiStep \/ LinkDrops \/ AddressLost \/ LeaveMonitor
             PROVE  WifiTypeOK'
  OBVIOUS
<1> USE DEF WifiTypeOK, Link
<1>1. CASE SetUp \/ Retry \/ Restart
  BY <1>1 DEF SetUp, Retry, Restarted, Restart
<1>2. CASE Connects \/ ConnectFails
  BY <1>2 DEF Connects, ConnectFails, Failed
<1>3. CASE NetifUp
  BY <1>3 DEF NetifUp
<1>4. CASE NetifFails
  BY <1>4 DEF NetifFails, Failed
<1>5. CASE Monitor \/ LeaveMonitor
  BY <1>5 DEF Monitor, LeaveMonitor, wifiVars
<1>6. CASE LinkDrops \/ AddressLost
  BY <1>6 DEF LinkDrops, AddressLost
<1> QED
  BY <1>1, <1>2, <1>3, <1>4, <1>5, <1>6 DEF WifiStep

(* So do logic_task and the locks. *)
Place == {"off", "cycle", "drain", "event", "spawn", "spawn_client", "spawn_publish",
          "cobot", "apply", "ask", "query", "query_publish", "answer", "clear",
          "push", "push_publish", "notify", "notify_publish",
          "status", "status_client", "status_publish"}

LEMMA LogicTyped ==
  holder \in [Lock -> Thread \cup {None}] /\ LogicStep
    => holder' \in [Lock -> Thread \cup {None}] /\ logic' \in Place
<1> SUFFICES ASSUME holder \in [Lock -> Thread \cup {None}], LogicStep
             PROVE  holder' \in [Lock -> Thread \cup {None}] /\ logic' \in Place
  OBVIOUS
<1> USE DEF Goes, Passes, Place, Take, Release, Lock, Thread
<1>1. CASE BeginCycle \/ DrainEvent \/ ProcessEvent \/ EndDrain
  BY <1>1 DEF BeginCycle, DrainEvent, ProcessEvent, EndDrain
<1>2. CASE SkipSpawn \/ TrySpawn \/ SpawnInVain \/ SpawnClient \/ PublishSpawn
  BY <1>2 DEF SkipSpawn, TrySpawn, SpawnInVain, SpawnClient, PublishSpawn
<1>3. CASE NoCompletion \/ TakeCompletion \/ ApplyCompletion
  BY <1>3 DEF NoCompletion, TakeCompletion, ApplyCompletion
<1>4. CASE FillSlot \/ AwaitAnswer \/ ClearSlot
  BY <1>4 DEF FillSlot, AwaitAnswer, ClearSlot
<1>5. CASE \E m \in Message : NoClient(m) \/ TryClient(m) \/ PublishMessage(m)
  BY <1>5 DEF Message, NoClient, TryClient, PublishMessage, Publishing, Then
<1>6. CASE LockControl \/ LockStatusClient \/ PublishStatus
  BY <1>6 DEF LockControl, LockStatusClient, PublishStatus
<1> QED
  BY <1>1, <1>2, <1>3, <1>4, <1>5, <1>6 DEF LogicStep

(* A step leaves every variable in its type. *)
LEMMA TypeStep == ControllerTypeOK /\ [Next]_vars => ControllerTypeOK'
<1> SUFFICES ASSUME ControllerTypeOK, [Next]_vars PROVE ControllerTypeOK'
  OBVIOUS
<1>0. drops' \in 0 .. MaxDrops /\ UNCHANGED cycles
  BY DropsStep
<1>00. WifiTypeOK
  BY DEF ControllerTypeOK
<1>1. CASE Wifi
  <2>1. WifiTypeOK'
    BY <1>00, <1>1, WifiStepTyped DEF Wifi
  <2> QED
    BY <1>1, <1>0, <2>1 DEF Wifi, ControllerTypeOK, TaskTypeOK, taskVars, taskLocals,
       restOfMain, netVars
<1>2. CASE NetworkFault
  <2>1. WifiTypeOK'
    BY <1>00, <1>2, WifiStepTyped DEF NetworkFault
  <2> QED
    BY <1>2, <1>0, <2>1 DEF NetworkFault, ControllerTypeOK, TaskTypeOK, taskVars,
       taskLocals, restOfMain, netVars
<1> USE List, <1>0 DEF ControllerTypeOK, WifiTypeOK, TaskTypeOK
<1>3. CASE Start
  BY <1>3 DEF Start, WaitUntilReady, NewClient, Subscribe, SpawnTasks, AfterError,
     ListFacts, wifiVars, taskVars, taskLocals, restOfMain, netVars
<1>4. CASE Mqtt
  <2> USE DEF wifiVars, taskVars, taskLocals, restOfMain, netVars, Take, Release, Free,
          Lock, Thread
  <2>1. CASE SessionOpens
    BY <2>1 DEF SessionOpens
  <2>2. CASE SessionEnds
    <3>1. session' \in BOOLEAN /\ subscribed' \subseteq Topics
      BY <2>2 DEF SessionEnds
    <3>2. UNCHANGED <<wifiVars, taskVars, emergency_stop, holder, restOfMain, mqtt, logic>>
      BY <2>2 DEF SessionEnds
    <3> QED
      BY <3>1, <3>2
  <2>3. CASE MessageArrives
    BY <2>3 DEF MessageArrives
  <2>4. CASE Callback \/ TrySlot
    BY <2>4 DEF Callback, TrySlot
  <2>5. CASE CallbackEnds
    BY <2>5 DEF CallbackEnds
  <2>6. CASE \E stop \in BOOLEAN : EmergencyAction(stop)
    BY <2>6 DEF EmergencyAction
  <2> QED
    BY <1>4, <2>1, <2>2, <2>3, <2>4, <2>5, <2>6 DEF Mqtt
<1>5. CASE LogicStep
  <2>1. UNCHANGED logicRest
    BY <1>5, LogicQuiet
  <2> HIDE DEF WifiTypeOK, TaskTypeOK
  <2>2. holder' \in [Lock -> Thread \cup {None}] /\ logic' \in Place
    BY <1>5, LogicTyped DEF Place
  <2>3. WifiTypeOK' /\ TaskTypeOK'
    BY <2>1 DEF logicRest, WifiTypeOK, TaskTypeOK, wifiVars, taskVars, taskLocals
  <2> QED
    BY <2>1, <2>2, <2>3 DEF logicRest, restOfMain, netVars, Place
<1>6. CASE Buttons
  BY <1>6 DEF Buttons, Press, wifiVars, restOfMain, netVars
<1>7. CASE Task
  <2> USE DEF wifiVars, restOfMain, netVars, taskLocals
  <2>1. CASE Arm \/ Show
    BY <1>7, <2>1 DEF Task, Arm, Show, Button
  <2>2. CASE SwapFlag
    <3>1. flags' \subseteq Button /\ emergency_stop' \in BOOLEAN
      BY <2>2 DEF SwapFlag
    <3>2. task' \in {"swap", "show"}
      BY <2>2 DEF SwapFlag
    <3> QED
      BY <1>7, <2>2, <3>1, <3>2 DEF Task, SwapFlag
  <2>3. CASE LockClient
    BY <1>7, <2>3 DEF Task, LockClient, Take, Free, Lock, Thread
  <2>4. CASE PublishEmergency
    BY <1>7, <2>4 DEF Task, PublishEmergency, Release, Shown, Lock
  <2> QED
    BY <1>7, <2>1, <2>2, <2>3, <2>4 DEF Task, TaskStep
<1>8. CASE UNCHANGED vars
  BY <1>8 DEF vars, wifiVars, taskVars, taskLocals
<1> QED
  BY <1>1, <1>2, <1>3, <1>4, <1>5, <1>6, <1>7, <1>8 DEF Next

(* A lock is where its holder is: every action takes and gives back what    *)
(* its place says.                                                          *)
LEMMA LocksStep ==
  ControllerTypeOK /\ LocksAgree /\ NotBefore /\ [Next]_vars => LocksAgree'
<1> SUFFICES ASSUME ControllerTypeOK, LocksAgree, NotBefore, [Next]_vars PROVE LocksAgree'
  OBVIOUS
<1>1. holder \in [Lock -> Thread \cup {None}] /\ None \notin Thread
  BY ControllerAssumption DEF ControllerTypeOK, ControllerAssumption
<1>2. CASE UNCHANGED <<holder, mqtt, logic, task>>
  BY <1>2 DEF LocksAgree
<1> USE <1>1 DEF LocksAgree, Take, Release, Free, Lock, Thread
<1>3. CASE Mqtt
  <2>1. CASE MessageArrives
    BY <2>1 DEF MessageArrives, taskVars
  <2>2. CASE Callback
    BY <2>2 DEF Callback, taskVars
  <2>3. CASE TrySlot
    BY <2>3 DEF TrySlot, taskVars
  <2>4. CASE CallbackEnds
    BY <2>4 DEF CallbackEnds, taskVars
  <2> QED
    BY <1>2, <1>3, <2>1, <2>2, <2>3, <2>4
    DEF Mqtt, SessionOpens, SessionEnds, EmergencyAction, taskVars
<1>4. CASE LogicStep
  <2>0. UNCHANGED <<mqtt, task>>
    BY <1>4, LogicQuiet DEF logicRest, taskVars
  <2> USE <2>0 DEF Goes, Passes
  <2>1. CASE BeginCycle \/ DrainEvent \/ ProcessEvent \/ EndDrain
    BY <2>1 DEF BeginCycle, DrainEvent, ProcessEvent, EndDrain
  <2>2. CASE SkipSpawn \/ TrySpawn
    BY <2>2 DEF SkipSpawn, TrySpawn
  <2>3. CASE SpawnInVain \/ SpawnClient
    BY <2>3 DEF SpawnInVain, SpawnClient, HeldInVain
  <2>4. CASE PublishSpawn
    BY <2>4 DEF PublishSpawn
  <2>5. CASE NoCompletion \/ TakeCompletion \/ ApplyCompletion
    BY <2>5 DEF NoCompletion, TakeCompletion, ApplyCompletion
  <2>6. CASE FillSlot \/ AwaitAnswer \/ ClearSlot
    BY <2>6 DEF FillSlot, AwaitAnswer, ClearSlot
  <2>7. ASSUME NEW m \in Message, NoClient(m) \/ TryClient(m) \/ PublishMessage(m)
        PROVE  LocksAgree'
    <3>1. CASE m = "query"
      BY <2>7, <3>1 DEF NoClient, TryClient, PublishMessage, Publishing, Then
    <3>2. CASE m = "push"
      BY <2>7, <3>2 DEF NoClient, TryClient, PublishMessage, Publishing, Then
    <3>3. CASE m = "notify"
      BY <2>7, <3>3 DEF NoClient, TryClient, PublishMessage, Publishing, Then
    <3> QED
      BY <3>1, <3>2, <3>3 DEF Message
  <2>8. CASE LockControl
    BY <2>8 DEF LockControl
  <2>9. CASE LockStatusClient
    BY <2>9 DEF LockStatusClient
  <2>10. CASE PublishStatus
    BY <2>10 DEF PublishStatus
  <2> QED
    BY <1>4, <2>1, <2>2, <2>3, <2>4, <2>5, <2>6, <2>7, <2>8, <2>9, <2>10 DEF LogicStep
<1>5. CASE Task
  <2>1. CASE Arm \/ SwapFlag \/ Show
    BY <1>5, <2>1 DEF Task, Arm, SwapFlag, Show
  <2>2. CASE LockClient
    BY <1>5, <2>2 DEF Task, LockClient
  <2>3. CASE PublishEmergency
    BY <1>5, <2>3 DEF Task, PublishEmergency
  <2> QED
    BY <1>5, <2>1, <2>2, <2>3 DEF Task, TaskStep
<1>6. CASE SpawnTasks
  BY <1>6 DEF SpawnTasks, NotBefore
<1>7. CASE Wifi \/ NetworkFault \/ Buttons
  <2>. UNCHANGED <<holder, mqtt, logic, task>>
    BY <1>7 DEF Wifi, NetworkFault, Buttons, Press, taskVars
  <2> QED
    BY <1>2
<1>8. CASE WaitUntilReady \/ Subscribe
  BY <1>2, <1>8 DEF WaitUntilReady, Subscribe, taskVars
<1>9. CASE NewClient
  BY <1>9 DEF NewClient, taskVars, NotBefore
<1> QED
  BY <1>2, <1>3, <1>4, <1>5, <1>6, <1>7, <1>8, <1>9 DEF Next, vars, taskVars, Start

(* The tasks are spawned once, when the whole list has been subscribed to. *)
LEMMA SpawnStep ==
  ControllerTypeOK /\ NotBefore /\ PastTheList /\ [Next]_vars => NotBefore' /\ PastTheList'
<1> SUFFICES ASSUME ControllerTypeOK, NotBefore, PastTheList, [Next]_vars
             PROVE  NotBefore' /\ PastTheList'
  OBVIOUS
<1> USE DEF NotBefore, PastTheList
<1>1. CASE /\ UNCHANGED <<main, next_topic>>
           /\ main = "running" \/ UNCHANGED <<task, logic>>
           /\ main = "running" \/ mqtt # "off" \/ UNCHANGED mqtt
  BY <1>1 DEF ControllerTypeOK
<1>2. CASE Start
  <2>1. CASE WaitUntilReady \/ NewClient
    BY <2>1 DEF WaitUntilReady, NewClient, taskVars
  <2>2. CASE Subscribe
    BY <2>2 DEF Subscribe, taskVars
  <2>3. CASE SpawnTasks
    BY <2>3, List DEF SpawnTasks, ControllerTypeOK, ListFacts
  <2> QED
    BY <1>2, <2>1, <2>2, <2>3 DEF Start
<1>3. CASE Mqtt
  BY <1>1, <1>3 DEF Mqtt, SessionOpens, SessionEnds, MessageArrives, Callback, TrySlot,
     CallbackEnds, EmergencyAction, restOfMain, taskVars
<1>4. CASE LogicStep
  <2>1. main = "running"
    BY <1>4, LogicQuiet
  <2> QED
    BY <1>1, <1>4, <2>1, LogicQuiet DEF logicRest, restOfMain
<1>5. CASE Task \/ Buttons
  <2>1. main = "running"
    BY <1>5 DEF Task, TaskStep, Arm, SwapFlag, Show, LockClient, PublishEmergency, Buttons,
       Press
  <2> QED
    BY <1>1, <1>5, <2>1 DEF Task, Buttons, restOfMain
<1>6. CASE Wifi \/ NetworkFault
  BY <1>1, <1>6 DEF Wifi, NetworkFault, restOfMain, taskVars
<1> QED
  BY <1>1, <1>2, <1>3, <1>4, <1>5, <1>6 DEF Next, vars, taskVars

(* Without a fault the station that is online stays so, and is watched. *)
LEMMA LinkStep == ControllerTypeOK /\ LinkKept /\ [Next]_vars => LinkKept'
<1> SUFFICES ASSUME ControllerTypeOK, LinkKept, [Next]_vars, drops' = 0
             PROVE  LinkKept'
  BY DEF LinkKept
<1>1. drops \in Nat /\ (Drop => drops' # 0)
  BY ControllerAssumption DEF ControllerTypeOK, Drop, ControllerAssumption
<1>2. CASE Wifi
  <2>1. drops = 0 /\ UNCHANGED session
    BY <1>2 DEF Wifi, netVars, bounds
  <2>2. CASE SetUp \/ Retry \/ Restart
    BY <2>1, <2>2 DEF LinkKept, SetUp, Retry, Restart, Restarted
  <2>3. CASE Connects \/ ConnectFails \/ NetifFails
    BY <2>1, <2>3 DEF LinkKept, Connects, ConnectFails, NetifFails, Failed
  <2>4. CASE NetifUp
    BY <2>1, <2>4 DEF LinkKept, NetifUp
  <2>5. CASE Monitor
    BY <2>1, <2>5 DEF LinkKept, Monitor, Lost, wifiVars
  <2> QED
    BY <1>2, <2>2, <2>3, <2>4, <2>5 DEF Wifi, WifiStep
<1>3. CASE SessionOpens
  BY <1>3 DEF LinkKept, SessionOpens, wifiVars, bounds
<1>4. CASE SessionEnds
  BY <1>1, <1>4 DEF LinkKept, SessionEnds, wifiVars, bounds
<1>5. ~NetworkFault
  BY <1>1 DEF NetworkFault
<1>6. CASE UNCHANGED <<wifiVars, session, drops>>
  BY <1>6 DEF LinkKept, wifiVars
<1>7. CASE Start
  BY <1>6, <1>7 DEF Start, WaitUntilReady, NewClient, Subscribe, SpawnTasks, netVars, bounds
<1>8. CASE LogicStep
  BY <1>6, <1>8, LogicQuiet DEF logicRest, netVars, bounds
<1>9. CASE Task \/ Buttons
  BY <1>6, <1>9 DEF Task, Buttons, netVars, bounds
<1>10. CASE Mqtt
  BY <1>3, <1>4, <1>6, <1>10 DEF Mqtt, MessageArrives, Callback, TrySlot, CallbackEnds,
     EmergencyAction, netVars, bounds
<1> QED
  BY <1>2, <1>5, <1>6, <1>7, <1>8, <1>9, <1>10 DEF Next, vars, netVars, bounds

(* Without a fault the broker has every topic the list has passed. *)
LEMMA TopicsStep ==
  ControllerTypeOK /\ LinkKept /\ TopicsPassed /\ [Next]_vars => TopicsPassed'
<1> SUFFICES ASSUME ControllerTypeOK, LinkKept, TopicsPassed, [Next]_vars, drops' = 0
             PROVE  TopicsPassed'
  BY DEF TopicsPassed
<1>1. drops \in Nat /\ (Drop => drops' # 0)
  BY ControllerAssumption DEF ControllerTypeOK, Drop, ControllerAssumption
<1>2. CASE UNCHANGED <<subscribed, next_topic, drops>>
  BY <1>2 DEF TopicsPassed
<1>3. CASE Subscribe
  <2>1. drops = 0 /\ next_topic \in Nat
    BY <1>3, List DEF Subscribe, ControllerTypeOK, ListFacts, bounds
  <2>2. CASE UNCHANGED subscribed /\ next_topic' = next_topic
    BY <2>1, <2>2 DEF TopicsPassed
  <2>3. CASE /\ subscribed' = subscribed \cup {MQTT_SUB_TOPICS[next_topic]}
             /\ next_topic' = next_topic + 1
    <3>1. 1 .. next_topic' - 1 = (1 .. next_topic - 1) \cup {next_topic}
      BY <2>1, <2>3, List DEF ControllerTypeOK, ListFacts
    <3> QED
      BY <2>1, <2>3, <3>1 DEF TopicsPassed
  <2> QED
    BY <1>3, <2>2, <2>3 DEF Subscribe, AfterError
<1>4. CASE SessionEnds
  <2>1. drops = 0 /\ link # "online"
    BY <1>1, <1>4 DEF SessionEnds, bounds
  <2> QED
    BY <1>4, <2>1 DEF LinkKept, SessionEnds
<1>5. ~NetworkFault
  BY <1>1 DEF NetworkFault
<1>6. CASE Start
  BY <1>2, <1>3, <1>6 DEF Start, WaitUntilReady, NewClient, SpawnTasks, netVars, bounds
<1>7. CASE LogicStep
  BY <1>2, <1>7, LogicQuiet DEF logicRest, netVars, restOfMain, bounds
<1>8. CASE Task \/ Buttons \/ Wifi
  BY <1>2, <1>8 DEF Task, Buttons, Wifi, netVars, restOfMain, bounds
<1>9. CASE Mqtt
  BY <1>2, <1>4, <1>9 DEF Mqtt, SessionOpens, MessageArrives, Callback, TrySlot,
     CallbackEnds, EmergencyAction, netVars, restOfMain, bounds
<1> QED
  BY <1>2, <1>5, <1>6, <1>7, <1>8, <1>9 DEF Next, vars, netVars, restOfMain, bounds

(* The parts together are an invariant of the controller. *)
LEMMA Invariant == Spec => []Inv
<1>1. Inv /\ [Next]_vars => Inv'
  BY TypeStep, LocksStep, SpawnStep, LinkStep, TopicsStep DEF Inv
<1> QED
  BY InitInv, <1>1, PTL DEF Spec

(* Every variable keeps its type, whatever the topics and the faults. *)
THEOREM ControllerTypeCorrect == Spec => []ControllerTypeOK
<1>1. Inv => ControllerTypeOK
  BY DEF Inv
<1> QED
  BY Invariant, <1>1, PTL

(* When the tasks start the broker has every topic, if nothing was lost. *)
THEOREM StartsSubscribed == Spec => []SubscribedAtFirst
<1>1. Inv => SubscribedAtFirst
  <2> SUFFICES ASSUME Inv, main = "running", drops = 0 PROVE subscribed = Topics
    BY DEF SubscribedAtFirst
  <2>1. next_topic - 1 = Len(MQTT_SUB_TOPICS)
    BY List DEF Inv, PastTheList, ListFacts
  <2> QED
    BY <2>1 DEF Inv, TopicsPassed, Topics
<1> QED
  BY Invariant, <1>1, PTL

(* The three threads never wait for each other's locks in a circle, through *)
(* the drain, the spawns, handle_cobot_completed and publish_status.        *)
THEOREM NoDeadlockOfLocks == Spec => []NoCircularWait
<1>1. Inv => NoCircularWait
  <2> SUFFICES ASSUME Inv, NEW S \in (SUBSET Thread) \ {{}},
                      \A t \in S : \E l \in WaitsFor(t) : holder[l] \in S
               PROVE  FALSE
    BY DEF NoCircularWait
  <2>1. S \subseteq Thread /\ \E t \in S : TRUE
    OBVIOUS
  <2>2. "mqtt" \notin S
    BY DEF WaitsFor, TryControl
  <2>3. holder["library"] \notin S /\ holder["slot"] \notin S
    BY <2>1, <2>2, ControllerAssumption
    DEF Inv, LocksAgree, ControllerAssumption
  <2>4. "emergency" \notin S
    <3> SUFFICES ASSUME "emergency" \in S PROVE FALSE
      OBVIOUS
    <3>1. PICK l \in WaitsFor("emergency") : holder[l] \in S
      OBVIOUS
    <3>2. l = "client" /\ task = "lock"
      BY <2>3, <3>1 DEF WaitsFor
    <3>3. holder["client"] = "logic"
      BY <2>1, <3>1, <3>2 DEF Inv, LocksAgree, Thread
    <3>4. \E k \in WaitsFor("logic") : holder[k] \in S
      BY <3>1, <3>2, <3>3
    <3>5. WaitsFor("logic") = {"library"}
      BY <3>3 DEF Inv, LocksAgree, WaitsFor
    <3> QED
      BY <2>3, <3>4, <3>5
  <2>5. S = {"logic"}
    BY <2>1, <2>2, <2>4 DEF Thread
  <2>6. PICK l \in WaitsFor("logic") : holder[l] = "logic"
    BY <2>5
  <2> QED
    BY <2>6, <2>3, <2>5 DEF Inv, LocksAgree, WaitsFor
<1> QED
  BY Invariant, <1>1, PTL

(* The LED follows the change of state that is shown, and the memory of it  *)
(* the status: no other step of any thread touches one of the four.         *)
LEMMA LampStep ==
  ControllerTypeOK /\ NotBefore /\ LampRemembered /\ [Next]_vars => LampRemembered'
<1> SUFFICES ASSUME ControllerTypeOK, NotBefore, LampRemembered, [Next]_vars
             PROVE  LampRemembered'
  OBVIOUS
<1> DEFINE Waiting == task \in {"lock", "publish"}
<1> USE DEF LampRemembered
<1>1. CASE UNCHANGED <<current_state, last_state, led, announced>> /\ Waiting' = Waiting
  BY <1>1
<1>2. CASE Task
  <2>1. CASE Arm \/ SwapFlag
    <3>1. UNCHANGED <<current_state, last_state, led, announced>>
      BY <2>1 DEF Arm, SwapFlag
    <3>2. ~Waiting /\ ~Waiting'
      BY <2>1 DEF Arm, SwapFlag
    <3> QED
      BY <1>1, <3>1, <3>2
  <2>2. CASE Show
    <3>1. /\ UNCHANGED <<last_state, announced>>
          /\ current_state' = emergency_stop /\ led = last_state
      BY <2>2 DEF Show
    <3>2. CASE emergency_stop # last_state
      BY <2>2, <3>1, <3>2 DEF Show
    <3>3. CASE emergency_stop = last_state
      BY <2>2, <3>1, <3>3 DEF Show
    <3> QED
      BY <3>2, <3>3
  <2>3. CASE LockClient
    <3>1. UNCHANGED <<current_state, last_state, led, announced>>
      BY <2>3 DEF LockClient, taskLocals
    <3>2. Waiting /\ Waiting'
      BY <2>3 DEF LockClient
    <3> QED
      BY <1>1, <3>1, <3>2
  <2>4. CASE PublishEmergency
    BY <2>4 DEF PublishEmergency, Shown
  <2> QED
    BY <1>2, <2>1, <2>2, <2>3, <2>4 DEF Task, TaskStep
<1>3. CASE UNCHANGED <<taskLocals, led, announced>> /\ Waiting' = Waiting
  BY <1>1, <1>3 DEF taskLocals
<1>4. CASE Start
  <2>1. CASE SpawnTasks
    BY <1>3, <2>1 DEF SpawnTasks, NotBefore
  <2> QED
    BY <1>3, <1>4, <2>1 DEF Start, WaitUntilReady, NewClient, Subscribe, taskVars
<1>5. CASE Wifi \/ NetworkFault \/ Mqtt
  BY <1>3, <1>5 DEF Wifi, NetworkFault, Mqtt, SessionOpens, SessionEnds, MessageArrives,
     Callback, TrySlot, CallbackEnds, EmergencyAction, taskVars
<1>6. CASE LogicStep
  BY <1>3, <1>6, LogicQuiet DEF logicRest, taskVars
<1>7. CASE Buttons
  BY <1>1, <1>7 DEF Buttons, Press
<1> QED
  BY <1>2, <1>3, <1>4, <1>5, <1>6, <1>7 DEF Next, vars, taskVars

(* However a press, a resume or emergency/action fall into the task's wait  *)
(* for the client, what it remembers is what it has shown and announced.    *)
THEOREM LampIsRemembered == Spec => []LampRemembered
<1>1. Init => LampRemembered
  BY DEF Init, TaskInit, LampRemembered
<1>2. LampRemembered /\ Inv /\ [Next]_vars => LampRemembered'
  BY LampStep DEF Inv
<1> QED
  BY Invariant, <1>1, <1>2, PTL DEF Spec
=============================================================================
