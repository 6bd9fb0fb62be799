--------------------------- MODULE CellStopProofs ---------------------------
(* An emergency stop leaves every robot at most one more command.           *)
EXTENDS CellStop, CellProofs, FiniteSetTheorems

(* The phases of a cycle from which logic_task may still command a robot.   *)
MayCommand(robot) == IF robot = "robodk" THEN {"drain", "spawn_check", "spawn"}
                                         ELSE PC \ {"check"}

(* LastCommands is not inductive: a robot that got its command must be one  *)
(* this cycle does not come back to, and no cycle begins while the stop is  *)
(* set.                                                                     *)
LateInv ==
  /\ late \in [Robot -> 0 .. 1]
  /\ ~emergency_stop => \A r \in Robot : late[r] = 0
  /\ \A r \in Robot : late[r] = 1 => pc \notin MayCommand(r)

LEMMA AtMostOne ==
  ASSUME NEW m, NEW S, S \subseteq {m}
  PROVE  Cardinality(S) \in 0 .. 1 /\ (S = {} => Cardinality(S) = 0)
  <1>1. S = {} \/ S = {m}
    OBVIOUS
  <1>2. S = {} => Cardinality(S) = 0
    BY FS_EmptySet, Zenon
  <1>3. S = {m} => Cardinality(S) = 1
    BY FS_Singleton, Zenon
  <1> QED
    BY <1>1, <1>2, <1>3

(* The steps that command no robot, though some publish. *)
LEMMA NobodyTold ==
  ASSUME Next, ~Reboot, ~SpawnAuto, ~SpawnManual, ~PublishStatus, NEW r \in Robot
  PROVE  SentTo(r) = {}
  <1>1. ASSUME out' = {} PROVE SentTo(r) = {}
    BY <1>1 DEF SentTo
  <1>2. ASSUME NEW m, Publish({m}), m.topic \notin Robot PROVE SentTo(r) = {}
    BY <1>2 DEF Publish, SentTo
  <1>3. CASE BeginCycle \/ ProcessRobotEvent \/ EndDrain \/ CheckBeforeSpawn
               \/ SpawnNothing \/ TakeCobotEvent \/ NoCobotEvent \/ ApplyCobotEvent
               \/ ApplyBusy \/ TakeAnswer \/ AnswerTimeout
    BY <1>1, <1>3 DEF BeginCycle, ProcessRobotEvent, EndDrain, CheckBeforeSpawn,
      SpawnNothing, TakeCobotEvent, NoCobotEvent, ApplyCobotEvent, ApplyBusy, TakeAnswer,
      AnswerTimeout, Silent, Quiet
  <1>4. CASE AskOperarios
    <2>1. Silent \/ Publish({QueryOperarios})
      BY <1>4 DEF AskOperarios
    <2> QED
      BY <1>1, <1>2, <2>1 DEF QueryOperarios, Silent, Quiet, Robot
  <1>5. CASE PublishCajaPaletizada
    <2>1. Silent \/ Publish({CajaPaletizada(job)})
      BY <1>5 DEF PublishCajaPaletizada
    <2> QED
      BY <1>1, <1>2, <2>1 DEF CajaPaletizada, Silent, Quiet, Robot
  <1>6. CASE NotifyPalletFull
    <2>1. Silent \/ Publish({PalletFull(job.pallet, job.color)})
      BY <1>6 DEF NotifyPalletFull
    <2> QED
      BY <1>1, <1>2, <2>1 DEF PalletFull, Silent, Quiet, Robot
  <1>7. CASE ScadaCommand \/ Emergency \/ Time
    BY <1>1, <1>7 DEF ScadaCommand, ScadaStatus, ScadaSetMode, ScadaGen, ScadaReset,
      Emergency, EmergencyAction, Time, LoadingDelayElapses, AmrTimeoutElapses,
      CobotTimeoutElapses, Silent, Quiet
  <1>8. CASE Plant
    BY <1>1, <1>8 DEF Plant, DeltaReports, AmrArrives, AmrReports, CobotFinishes,
      CobotReports, BridgeAnswers, NoisyReport, DeltaStatus, AmrStatus, CobotStatus,
      RobotStatus, DbPullResponse, Silent, Quiet
  <1> QED
    BY <1>3, <1>4, <1>5, <1>6, <1>7, <1>8 DEF Next, Logic, LogicStep

(* The spawn section commands the Delta alone, once. *)
LEMMA SpawnTells ==
  ASSUME SpawnAuto \/ SpawnManual, NEW r \in Robot
  PROVE  /\ \E m : SentTo(r) \subseteq {m}
         /\ SentTo(r) # {} => pc \in MayCommand(r) /\ pc' \notin MayCommand(r)
  <1>1. PICK c : out' = {} \/ out' = {Spawn(c)}
    BY DEF SpawnAuto, SpawnManual, Silent, Quiet, Publish
  <1>2. SentTo(r) \subseteq {Spawn(c)}
    BY <1>1 DEF SentTo
  <1>3. SentTo(r) # {} => r = "robodk"
    BY <1>1 DEF SentTo, Spawn
  <1>4. pc = "spawn" /\ pc' = "cobot"
    BY DEF SpawnAuto, SpawnManual
  <1> QED
    BY <1>2, <1>3, <1>4 DEF MayCommand

(* publish_status sends the AMR to a hopper or to the cobot, never both,    *)
(* and starts the cobot once.                                               *)
LEMMA StatusTells ==
  ASSUME PublishStatus, NEW r \in Robot
  PROVE  /\ \E m : SentTo(r) \subseteq {m}
         /\ SentTo(r) # {} => pc \in MayCommand(r) /\ pc' \notin MayCommand(r)
  <1>1. out' = Notices \cup AmrCommands \cup CobotCommands
    BY DEF PublishStatus, Publish, StatusMessages
  <1>2. \A m \in Notices : m.topic \notin Robot
    BY DEF Notices, When, TapaClasificada, DbReset, BatchComplete, Status, Robot
  <1>3. PICK goal : \A m \in AmrCommands : m.topic \in Robot => m.topic = "amr" /\ m = GoTo(goal)
    <2>1. ~(Loaded /\ Dispatched)
      BY DEF Loaded, Dispatched
    <2>2. \A b, lote : BoxCompleted(b, lote).topic \notin Robot
      BY DEF BoxCompleted, Robot
    <2>3. \A l : GoTo(l).topic = "amr"
      BY DEF GoTo
    <2>4. CASE Loaded
      BY <2>1, <2>2, <2>3, <2>4 DEF AmrCommands, When
    <2>5. CASE ~Loaded
      BY <2>3, <2>5 DEF AmrCommands, When
    <2> QED
      BY <2>4, <2>5
  <1> DEFINE start == CobotStart(pallets[StartColor].id, StartColor)
  <1>4. CobotCommands \subseteq {start} /\ start.topic = "cobot"
    BY DEF CobotCommands, When, CobotStart
  <1> HIDE DEF start
  <1>5. SentTo(r) \subseteq {IF r = "amr" THEN GoTo(goal) ELSE start}
    BY <1>1, <1>2, <1>3, <1>4 DEF SentTo
  <1>6. SentTo(r) # {} => r # "robodk"
    BY <1>1, <1>2, <1>3, <1>4 DEF SentTo
  <1>7. pc = "status" /\ pc' = "check"
    BY DEF PublishStatus
  <1> QED
    BY <1>5, <1>6, <1>7 DEF MayCommand, PC

(* A step that leaves the stop set commands a robot at most once, from a    *)
(* phase where it may, and the cycle then has no such phase left.  (A       *)
(* restart may cut publish_status short, but comes up with the stop clear.) *)
LEMMA Told ==
  ASSUME Next, emergency_stop', NEW r \in Robot
  PROVE  /\ Cardinality(SentTo(r)) \in 0 .. 1
         /\ SentTo(r) = {} => Cardinality(SentTo(r)) = 0
         /\ SentTo(r) # {} => pc \in MayCommand(r) /\ pc' \notin MayCommand(r)
  <1>1. /\ \E m : SentTo(r) \subseteq {m}
        /\ SentTo(r) # {} => pc \in MayCommand(r) /\ pc' \notin MayCommand(r)
    BY NobodyTold, SpawnTells, StatusTells DEF Reboot
  <1> QED
    BY <1>1, AtMostOne

(* While the stop is set a cycle goes on to its end and none begins. *)
LEMMA NoWayBack ==
  ASSUME Next, emergency_stop, emergency_stop', NEW r \in Robot, pc \notin MayCommand(r)
  PROVE  pc' \notin MayCommand(r)
  <1>1. CASE pc' = pc
    BY <1>1
  <1>2. CASE BeginCycle \/ Reboot
    BY <1>2 DEF BeginCycle, Reboot
  <1>3. CASE EndDrain \/ CheckBeforeSpawn \/ SpawnAuto \/ SpawnManual \/ SpawnNothing
    <2>1. pc \in {"drain", "spawn_check", "spawn"}
      BY <1>3 DEF EndDrain, CheckBeforeSpawn, SpawnAuto, SpawnManual, SpawnNothing
    <2> QED
      BY <2>1 DEF MayCommand, PC
  <1>4. CASE TakeCobotEvent \/ NoCobotEvent \/ ApplyCobotEvent \/ ApplyBusy \/ AskOperarios
               \/ TakeAnswer \/ AnswerTimeout \/ PublishCajaPaletizada \/ NotifyPalletFull
    <2>1. /\ pc \in PC \ {"check"}
          /\ pc' \in {"cobot_apply", "query", "wait", "push", "notify", "status"}
      BY <1>4 DEF TakeCobotEvent, NoCobotEvent, ApplyCobotEvent, ApplyBusy, AskOperarios,
        TakeAnswer, AnswerTimeout, PublishCajaPaletizada, NotifyPalletFull, PC
    <2> QED
      BY <2>1 DEF MayCommand
  <1>5. CASE PublishStatus
    BY <1>5 DEF PublishStatus, MayCommand
  <1>6. ProcessRobotEvent \/ ScadaCommand \/ Emergency \/ Plant \/ Time => pc' = pc
    BY DEF ProcessRobotEvent, ScadaCommand, ScadaStatus, ScadaSetMode, ScadaGen, ScadaReset,
      Emergency, EmergencyAction, Plant, DeltaReports, AmrArrives, AmrReports,
      CobotFinishes, CobotReports, BridgeAnswers, NoisyReport, DeltaStatus, AmrStatus,
      CobotStatus, RobotStatus, DbPullResponse, Time, LoadingDelayElapses,
      AmrTimeoutElapses, CobotTimeoutElapses, threadVars
  <1> QED
    BY <1>1, <1>2, <1>3, <1>4, <1>5, <1>6 DEF Next, Logic, LogicStep

LEMMA LateStep == LateInv /\ StopNext => LateInv'
  <1> SUFFICES ASSUME LateInv, StopNext PROVE LateInv'
    OBVIOUS
  <1>1. Next
    BY DEF StopNext
  <1>2. CASE ~(emergency_stop /\ emergency_stop')
    <2>1. late' = [r \in Robot |-> 0]
      BY <1>2 DEF StopNext
    <2> QED
      BY <2>1 DEF LateInv
  <1>3. CASE emergency_stop /\ emergency_stop'
    <2>1. late' = [r \in Robot |-> late[r] + Cardinality(SentTo(r))]
      BY <1>3 DEF StopNext
    <2>2. ASSUME NEW r \in Robot
          PROVE  /\ late[r] + Cardinality(SentTo(r)) \in 0 .. 1
                 /\ late[r] + Cardinality(SentTo(r)) = 1 => pc' \notin MayCommand(r)
      <3>1. late[r] \in 0 .. 1 /\ (late[r] = 1 => pc \notin MayCommand(r))
        BY DEF LateInv
      <3>2. CASE SentTo(r) = {}
        BY <1>1, <1>3, <3>1, <3>2, Told, NoWayBack
      <3>3. CASE SentTo(r) # {}
        BY <1>1, <1>3, <3>1, <3>3, Told
      <3> QED
        BY <3>2, <3>3
    <2> QED
      BY <1>3, <2>1, <2>2 DEF LateInv
  <1> QED
    BY <1>2, <1>3

(* However long an emergency lasts and whatever the robots report in it, no *)
(* robot gets more than one command after it was set.                       *)
THEOREM AtMostOneLastCommand == StopSpec => []LastCommands
  <1>1. StopInit => LateInv
    BY DEF StopInit, Init, LateInv
  <1>2. LateInv /\ [StopNext]_<<vars, late>> => LateInv'
    <2>1. ASSUME LateInv, UNCHANGED <<vars, late>> PROVE LateInv'
      BY <2>1 DEF LateInv, vars, sharedVars, threadVars
    <2> QED
      BY <2>1, LateStep
  <1>3. LateInv => LastCommands
    BY DEF LateInv, LastCommands
  <1> QED
    BY <1>1, <1>2, <1>3, PTL DEF StopSpec
=============================================================================
