----------------------------- MODULE BoxProofs -----------------------------
(* The cell implements Boxes, keeps them in order, and numbers its pallets  *)
(* the way it began to.                                                     *)
EXTENDS CellProofs, Integers

(* The box that is being recorded, as BoxFlow has it. *)
Recorded == IF job.caja = None THEN None ELSE [tolva |-> job.color, id |-> job.caja]

boxes == <<next_caja, amr.caja, cobot.pending, Recorded>>

(* The steps that touch no box. *)
LEMMA BoxesLeftAlone ==
  ASSUME \/ BeginCycle \/ EndDrain \/ CheckBeforeSpawn \/ SpawnAuto \/ SpawnManual
         \/ SpawnNothing \/ NoCobotEvent \/ ApplyBusy \/ AskOperarios \/ AnswerTimeout
         \/ PublishCajaPaletizada \/ NotifyPalletFull \/ Emergency \/ Plant
         \/ UNCHANGED vars
  PROVE  UNCHANGED <<next_caja, amr, cobot, job>>
  <1> USE DEF controlVars, threadVars
  <1>1. BeginCycle \/ EndDrain \/ CheckBeforeSpawn \/ NoCobotEvent \/ ApplyBusy
          => UNCHANGED <<next_caja, amr, cobot, job>>
    BY DEF BeginCycle, EndDrain, CheckBeforeSpawn, NoCobotEvent, ApplyBusy
  <1>2. SpawnAuto \/ SpawnManual \/ SpawnNothing => UNCHANGED <<next_caja, amr, cobot, job>>
    BY DEF SpawnAuto, SpawnManual, SpawnNothing, SpawnUnchanged
  <1>3. AskOperarios \/ AnswerTimeout => UNCHANGED <<next_caja, amr, cobot, job>>
    BY DEF AskOperarios, AnswerTimeout
  <1>4. PublishCajaPaletizada \/ NotifyPalletFull => UNCHANGED <<next_caja, amr, cobot, job>>
    BY DEF PublishCajaPaletizada, NotifyPalletFull
  <1>5. Emergency => UNCHANGED <<next_caja, amr, cobot, job>>
    BY DEF Emergency, EmergencyAction
  <1>6. Plant => UNCHANGED <<next_caja, amr, cobot, job>>
    BY DEF Plant, DeltaReports, AmrArrives, AmrReports, CobotFinishes, CobotReports,
           BridgeAnswers, NoisyReport, DeltaStatus, AmrStatus, CobotStatus, RobotStatus,
           DbPullResponse
  <1>7. UNCHANGED vars => UNCHANGED <<next_caja, amr, cobot, job>>
    BY DEF vars
  <1> QED
    BY <1>1, <1>2, <1>3, <1>4, <1>5, <1>6, <1>7

(* publish_status: the AMR's box goes to the cobot, a new one is made for   *)
(* the AMR, and the cobot's is given up if it took too long.                *)
LEMMA StatusMoves == TypeOK /\ AmrCoherent /\ PublishStatus => BoxFlow!Moves
  <1> SUFFICES ASSUME TypeOK, AmrCoherent, PublishStatus PROVE BoxFlow!Moves
    OBVIOUS
  <1>1. /\ amr \in Amr /\ AmrKept \in Amr /\ cobot \in Cobot
        /\ CobotAfterStatus \in Cobot /\ next_caja \in Nat
    BY AmrKeptTyped, CobotAfterStatusTyped DEF TypeOK, ControlTypeOK, ThreadTypeOK
  <1>2. /\ amr' = AmrAfterStatus /\ cobot' = CobotAfterStatus /\ next_caja' = NextCaja
        /\ job' = NoJob
    BY DEF PublishStatus
  <1>3. Recorded' = None
    BY <1>2 DEF Recorded, NoJob
  <1>4. cobot'.pending = IF CobotLost THEN None ELSE CobotPending
    BY <1>1, <1>2 DEF CobotAfterStatus, Cobot
  <1>5. CASE Loaded
    <2>1. ~Dispatched /\ ~AmrLost
      BY <1>5 DEF Loaded, Dispatched, AmrLost, AmrCoherent
    <2>2. amr'.caja = None /\ next_caja' = next_caja /\ AmrKept = amr
      BY <1>2, <1>5, <2>1 DEF AmrAfterStatus, NoAmr, NextCaja, AmrKept
    <2>3. cobot'.pending \in {cobot.pending, None} \/ (amr.caja # None /\ cobot'.pending = amr.caja)
      BY <1>4, <2>2 DEF CobotPending
    <2> QED
      BY <1>3, <2>2, <2>3 DEF BoxFlow!Moves, BoxFlow!Keeps, BoxFlow!Loads, Recorded
  <1>6. CASE ~Loaded
    <2>1. cobot'.pending \in {cobot.pending, None}
      BY <1>4, <1>6 DEF CobotPending
    <2>2. CASE Dispatched
      <3>1. FirstFull \in Tolva
        BY <2>2, FirstFullTyped DEF Dispatched
      <3>2. amr' = [AmrKept EXCEPT !.pending_tolva = FirstFull, !.dispatched_at = "running",
                                   !.caja = [tolva |-> FirstFull, id |-> next_caja]]
        BY <1>2, <1>6, <2>2 DEF AmrAfterStatus
      <3>3. amr'.caja = [tolva |-> FirstFull, id |-> next_caja] /\ next_caja' = next_caja + 1
        BY <1>1, <1>2, <2>2, <3>2 DEF Amr, NextCaja
      <3>4. BoxFlow!Makes
        BY <3>1, <3>3 DEF BoxFlow!Makes
      <3> QED
        BY <1>3, <2>1, <3>4 DEF BoxFlow!Moves, BoxFlow!Keeps, Recorded
    <2>3. CASE ~Dispatched
      <3>1. amr' = AmrKept /\ next_caja' = next_caja
        BY <1>2, <1>6, <2>3 DEF AmrAfterStatus, NextCaja
      <3>2. amr'.caja \in {amr.caja, None}
        BY <1>1, <3>1 DEF AmrKept, Amr
      <3> QED
        BY <1>3, <2>1, <3>1, <3>2 DEF BoxFlow!Moves, BoxFlow!Keeps, Recorded
    <2> QED
      BY <2>2, <2>3
  <1> QED
    BY <1>5, <1>6

(* handle_cobot_completed: the box in front of the cobot is recorded. *)
LEMMA CreditMoves == TypeOK /\ ApplyCobotEvent => BoxFlow!Moves
  <1> SUFFICES ASSUME TypeOK, ApplyCobotEvent PROVE BoxFlow!Moves
    OBVIOUS
  <1>1. cobot \in Cobot /\ job \in Job
    BY DEF TypeOK, ControlTypeOK, ThreadTypeOK
  <1>2. /\ UNCHANGED <<next_caja, amr>>
        /\ cobot' = [cobot EXCEPT !.pending = None, !.started_at = "off"]
        /\ job' = [job EXCEPT !.caja = Credited.id, !.color = Credited.tolva,
                              !.pallet = pallets[Credited.tolva].id, !.full = FillsPallet,
                              !.operario = FALSE]
    BY DEF ApplyCobotEvent
  <1>3. cobot'.pending = None /\ job'.caja = Credited.id /\ job'.color = Credited.tolva
    BY <1>1, <1>2 DEF Cobot, Job
  <1>4. CASE cobot.pending = None
    BY <1>2, <1>3, <1>4 DEF Credited, Recorded, BoxFlow!Moves, BoxFlow!Keeps
  <1>5. CASE cobot.pending # None
    <2>1. cobot.pending \in Caja
      BY <1>1, <1>5 DEF Cobot
    <2>2. /\ cobot.pending = [tolva |-> cobot.pending.tolva, id |-> cobot.pending.id]
          /\ cobot.pending.id # None
      BY <2>1, CellAssumption DEF Caja
    <2>3. Recorded' = cobot.pending
      BY <1>3, <1>5, <2>2 DEF Credited, Recorded
    <2> QED
      BY <1>2, <1>3, <1>5, <2>3 DEF BoxFlow!Moves, BoxFlow!Keeps, BoxFlow!Records, Recorded
  <1> QED
    BY <1>4, <1>5

(* Every step of the cell is a step of Boxes, or of nothing. *)
LEMMA BoxesStep == TypeOK /\ AmrCoherent /\ [Next]_vars => [BoxFlow!Next]_(BoxFlow!boxVars)
  <1> SUFFICES ASSUME TypeOK, AmrCoherent, [Next]_vars
               PROVE  BoxFlow!Next \/ UNCHANGED boxes
    BY DEF BoxFlow!boxVars, boxes, Recorded
  <1>0. amr \in Amr /\ cobot \in Cobot /\ job \in Job
    BY DEF TypeOK, ControlTypeOK, ThreadTypeOK
  <1>1. CASE UNCHANGED <<next_caja, amr, cobot, job>>
    BY <1>1 DEF boxes, Recorded
  <1>2. CASE PublishStatus
    BY <1>2, StatusMoves DEF BoxFlow!Next
  <1>3. CASE ApplyCobotEvent
    BY <1>3, CreditMoves DEF BoxFlow!Next
  <1>4. CASE TakeCobotEvent
    <2>1. /\ cobot' = [cobot EXCEPT !.completed_event = None]
          /\ job' = [job EXCEPT !.reported = cobot.completed_event]
          /\ UNCHANGED <<next_caja, amr>>
      BY <1>4 DEF TakeCobotEvent
    <2>2. cobot'.pending = cobot.pending /\ job'.caja = job.caja /\ job'.color = job.color
      BY <1>0, <2>1 DEF Cobot, Job
    <2> QED
      BY <2>1, <2>2 DEF boxes, Recorded
  <1>5. CASE TakeAnswer
    <2>1. PICK found \in BOOLEAN : job' = [job EXCEPT !.operario = found]
      BY <1>5 DEF TakeAnswer
    <2>2. job'.caja = job.caja /\ job'.color = job.color
      BY <1>0, <2>1 DEF Job
    <2> QED
      BY <1>5, <2>2 DEF TakeAnswer, controlVars, boxes, Recorded
  <1>6. CASE ProcessRobotEvent
    <2>1. UNCHANGED <<next_caja, job>>
      BY <1>6 DEF ProcessRobotEvent, threadVars
    <2>2. /\ \/ amr' = amr
             \/ \E l : amr' = [amr EXCEPT !.arrived_tolva = l, !.arrived_at = "running"]
          /\ \/ cobot' = cobot \/ cobot' = [cobot EXCEPT !.ready = TRUE]
             \/ \E p : cobot' = [cobot EXCEPT !.completed_event = p, !.in_progress = FALSE]
      BY <1>6 DEF ProcessRobotEvent, DeltaCompleted, AmrArrived, CobotCompleted, controlVars
    <2>3. amr'.caja = amr.caja
      BY <1>0, <2>2 DEF Amr
    <2>4. cobot'.pending = cobot.pending
      BY <1>0, <2>2 DEF Cobot
    <2> QED
      BY <2>1, <2>3, <2>4 DEF boxes, Recorded
  <1>7. CASE ScadaCommand
    <2>1. CASE ScadaReset(NvsMayFail)
      <3>1. amr'.caja = None /\ cobot'.pending = None /\ UNCHANGED <<next_caja, job>>
        BY <2>1 DEF ScadaReset, NoAmr, CobotAfterReset, NoCobot, threadVars
      <3> QED
        BY <3>1 DEF BoxFlow!Next, BoxFlow!Moves, BoxFlow!Keeps, Recorded
    <2>2. CASE ~ScadaReset(NvsMayFail)
      BY <1>1, <1>7, <2>2 DEF ScadaCommand, ScadaStatus, ScadaSetMode, ScadaGen, threadVars
    <2> QED
      BY <2>1, <2>2
  <1>8. CASE Time
    <2>1. UNCHANGED <<next_caja, job>>
      BY <1>8 DEF Time, LoadingDelayElapses, AmrTimeoutElapses, CobotTimeoutElapses,
                  threadVars
    <2>2. /\ \/ amr' = amr \/ amr' = [amr EXCEPT !.arrived_at = "due"]
             \/ amr' = [amr EXCEPT !.dispatched_at = "due"]
          /\ cobot' = cobot \/ cobot' = [cobot EXCEPT !.started_at = "due"]
      BY <1>8 DEF Time, LoadingDelayElapses, AmrTimeoutElapses, CobotTimeoutElapses
    <2>3. amr'.caja = amr.caja /\ cobot'.pending = cobot.pending
      BY <1>0, <2>2 DEF Amr, Cobot
    <2> QED
      BY <2>1, <2>3 DEF boxes, Recorded
  <1>9. CASE Reboot
    BY <1>9 DEF Reboot, NoAmr, NoCobot, NoJob, BoxFlow!Next, BoxFlow!Restarts, BoxFlow!Init
  <1> QED
    BY <1>1, <1>2, <1>3, <1>4, <1>5, <1>6, <1>7, <1>8, <1>9, BoxesLeftAlone
    DEF Next, Logic, LogicStep

(* The cell implements Boxes: for any number of hoppers, whatever is lost,  *)
(* repeated, reset or restarted, a box is recorded at most once, in order,  *)
(* and with the colour of the hopper it came from.                          *)
THEOREM CellImplementsBoxes == Spec => BoxesFlow
  <1>1. Init => BoxFlow!Init
    BY DEF Init, NoAmr, NoCobot, NoJob, BoxFlow!Init
  <1> QED
    BY <1>1, BoxesStep, TypeCorrect, AmrFieldsAgree, PTL DEF Spec, BoxesFlow, BoxFlow!Spec

----------------------------------------------------------------------------
(* The boxes in order, in terms of the four variables of Boxes. *)
InOrder ==
  /\ amr.caja # None => amr.caja.id < next_caja
  /\ cobot.pending # None =>
       /\ cobot.pending.id < next_caja
       /\ amr.caja # None => cobot.pending.id < amr.caja.id
  /\ Recorded # None =>
       /\ Recorded.id < next_caja
       /\ amr.caja # None => Recorded.id < amr.caja.id
       /\ cobot.pending # None => Recorded.id < cobot.pending.id

Placed == /\ next_caja \in Nat /\ amr.caja \in Caja \cup {None}
          /\ cobot.pending \in Caja \cup {None} /\ Recorded \in Caja \cup {None}

LEMMA PlacesTyped == TypeOK => Placed
  <1> SUFFICES ASSUME TypeOK PROVE Placed
    OBVIOUS
  <1>1. next_caja \in Nat /\ amr \in Amr /\ cobot \in Cobot /\ job \in Job
    BY DEF TypeOK, ControlTypeOK, ThreadTypeOK
  <1>2. Recorded \in Caja \cup {None}
    BY <1>1 DEF Recorded, Job, Caja
  <1> QED
    BY <1>1, <1>2 DEF Placed, Amr, Cobot

LEMMA OrderIsInOrder == TypeOK => (BoxesInOrder <=> InOrder)
  <1> SUFFICES ASSUME TypeOK PROVE BoxesInOrder <=> InOrder
    OBVIOUS
  <1>1. CASE job.caja = None
    BY <1>1 DEF BoxesInOrder, InOrder, Recorded
  <1>2. CASE job.caja # None
    <2>1. job \in Job
      BY DEF TypeOK, ThreadTypeOK
    <2>2. Recorded \in Caja /\ Recorded.id = job.caja
      BY <1>2, <2>1 DEF Recorded, Job, Caja
    <2> QED
      BY <1>2, <2>2, CajaAssumption DEF BoxesInOrder, InOrder
  <1> QED
    BY <1>1, <1>2

(* A step of Boxes keeps the boxes in order: a new one has the next number, *)
(* and whoever hands a box on is left without.                              *)
LEMMA OrderStep == Placed /\ Placed' /\ InOrder /\ BoxFlow!Moves => InOrder'
  <1> SUFFICES ASSUME Placed, Placed', InOrder, BoxFlow!Moves PROVE InOrder'
    OBVIOUS
  <1>1. \A box \in Caja : box.id \in Nat
    BY DEF Caja
  <1>2. Recorded' \in {Recorded, None}
          \/ (cobot.pending # None /\ Recorded' = cobot.pending /\ cobot'.pending = None)
    BY DEF BoxFlow!Moves, BoxFlow!Records, BoxFlow!Keeps, Recorded
  <1>3. cobot'.pending \in {cobot.pending, None}
          \/ (amr.caja # None /\ cobot'.pending = amr.caja /\ amr'.caja = None)
    BY DEF BoxFlow!Moves, BoxFlow!Loads, BoxFlow!Keeps
  <1>4. \/ next_caja' = next_caja /\ amr'.caja \in {amr.caja, None}
        \/ /\ next_caja' = next_caja + 1 /\ amr'.caja # None
           /\ amr'.caja.id = next_caja
    <2>1. CASE BoxFlow!Makes
      <3>1. next_caja' = next_caja + 1 /\ amr'.caja \in [tolva: Tolva, id: {next_caja}]
        BY <2>1 DEF BoxFlow!Makes
      <3>2. amr'.caja.id = next_caja
        BY <3>1
      <3>3. amr'.caja \in Caja
        BY <3>1 DEF Caja, Placed
      <3> QED
        BY <3>1, <3>2, <3>3, CajaAssumption
    <2>2. CASE ~BoxFlow!Makes
      BY <2>2 DEF BoxFlow!Moves, BoxFlow!Keeps
    <2> QED
      BY <2>1, <2>2
  <1> HIDE DEF Recorded
  <1> QED
    BY <1>1, <1>2, <1>3, <1>4 DEF InOrder, Placed

(* Boxes never overtake each other, whatever is lost, repeated or reset:    *)
(* what an abstract step keeps, every step of the cell keeps.               *)
THEOREM BoxesKeepTheirOrder == Spec => []BoxesInOrder
  <1>1. Init => BoxesInOrder
    BY DEF Init, NoAmr, NoCobot, NoJob, BoxesInOrder
  <1>2. TypeOK /\ TypeOK' /\ AmrCoherent /\ BoxesInOrder /\ [Next]_vars => BoxesInOrder'
    <2> SUFFICES ASSUME TypeOK, TypeOK', AmrCoherent, BoxesInOrder, [Next]_vars
                 PROVE  BoxesInOrder'
      OBVIOUS
    <2>1. Placed /\ Placed' /\ InOrder /\ (InOrder' => BoxesInOrder')
      BY PlacesTyped, OrderIsInOrder, PTL
    <2>2. BoxFlow!Moves \/ BoxFlow!Restarts \/ UNCHANGED boxes
      BY BoxesStep DEF BoxFlow!boxVars, BoxFlow!Next, boxes, Recorded
    <2>3. CASE BoxFlow!Moves
      BY <2>1, <2>3, OrderStep
    <2>4. CASE BoxFlow!Restarts
      <3>1. amr'.caja = None /\ cobot'.pending = None /\ Recorded' = None
        BY <2>4 DEF BoxFlow!Restarts, BoxFlow!Init, Recorded
      <3> QED
        BY <2>1, <3>1 DEF InOrder
    <2>5. CASE UNCHANGED boxes
      BY <2>1, <2>5 DEF boxes, InOrder
    <2> QED
      BY <2>2, <2>3, <2>4, <2>5
  <1> QED
    BY <1>1, <1>2, TypeCorrect, AmrFieldsAgree, PTL DEF Spec

----------------------------------------------------------------------------
(* Only the record of a box and a restart change a pallet. *)
LEMMA PalletsLeftAlone ==
  ASSUME [Next]_vars, ~ApplyCobotEvent, ~Reboot, ~ScadaCommand
  PROVE  UNCHANGED pallets
  <1> USE DEF controlVars
  <1>1. Plant \/ Time \/ Emergency \/ UNCHANGED vars => UNCHANGED pallets
    BY DEF Plant, DeltaReports, AmrArrives, AmrReports, CobotFinishes, CobotReports,
           BridgeAnswers, NoisyReport, DeltaStatus, AmrStatus, CobotStatus, RobotStatus,
           DbPullResponse, Time, LoadingDelayElapses, AmrTimeoutElapses,
           CobotTimeoutElapses, Emergency, EmergencyAction, vars
  <1>2. ProcessRobotEvent => UNCHANGED pallets
    BY DEF ProcessRobotEvent, DeltaCompleted, AmrArrived, CobotCompleted
  <1>3. SpawnAuto \/ SpawnManual \/ SpawnNothing => UNCHANGED pallets
    BY DEF SpawnAuto, SpawnManual, SpawnNothing, SpawnUnchanged
  <1>4. BeginCycle \/ EndDrain \/ CheckBeforeSpawn \/ NoCobotEvent \/ ApplyBusy
          \/ TakeCobotEvent \/ AskOperarios \/ TakeAnswer \/ AnswerTimeout
          => UNCHANGED pallets
    BY DEF BeginCycle, EndDrain, CheckBeforeSpawn, NoCobotEvent, ApplyBusy,
           TakeCobotEvent, AskOperarios, TakeAnswer, AnswerTimeout
  <1>5. PublishCajaPaletizada \/ NotifyPalletFull \/ PublishStatus => UNCHANGED pallets
    BY DEF PublishCajaPaletizada, NotifyPalletFull, PublishStatus
  <1> QED
    BY <1>1, <1>2, <1>3, <1>4, <1>5 DEF Next, Logic, LogicStep

(* Pallet ids step by NumTolvas: what that does to a remainder. *)
LEMMA Remainder ==
  ASSUME NEW a \in Nat, NEW n \in Nat \ {0}
  PROVE  a % n = a - n * (a \div n)
BY SMTT(60)

LEMMA NextQuotient ==
  ASSUME NEW a \in Nat, NEW n \in Nat \ {0}
  PROVE  (a + n) \div n = (a \div n) + 1
BY SMTT(60)

(* Adding the divisor leaves the remainder. *)
LEMMA SameRemainder ==
  ASSUME NEW a \in Nat, NEW n \in Nat \ {0}
  PROVE  (a + n) % n = a % n
  <1> DEFINE q == a \div n
  <1>1. q \in Int
    OBVIOUS
  <1>2. a % n = a - n * q
    BY Remainder
  <1>3. (a + n) % n = (a + n) - n * (q + 1)
    BY Remainder, NextQuotient, a + n \in Nat
  <1> HIDE DEF q
  <1>4. n * (q + 1) = n * q + n
    BY <1>1
  <1>5. n * q \in Int
    BY <1>1
  <1> QED
    BY <1>2, <1>3, <1>4, <1>5

LEMMA FirstPalletsInSeries ==
  \A t \in Tolva : /\ FirstPallets[t].boxes < PALLET_CAPACITY
                    /\ FirstPallets[t].id % NumTolvas = (t + 1) % NumTolvas
  <1> SUFFICES ASSUME NEW t \in Tolva
               PROVE  /\ FirstPallets[t].boxes < PALLET_CAPACITY
                      /\ FirstPallets[t].id % NumTolvas = (t + 1) % NumTolvas
    OBVIOUS
  <1>1. FirstPallets[t] = [id |-> t + 1, boxes |-> 0]
    BY DEF FirstPallets
  <1>2. 0 < PALLET_CAPACITY
    BY CellAssumption
  <1> QED
    BY <1>1, <1>2

LEMMA PalletFilled == TypeOK /\ PalletSeries /\ ApplyCobotEvent => PalletSeries'
  <1> SUFFICES ASSUME TypeOK, PalletSeries, ApplyCobotEvent, NEW t \in Tolva
               PROVE  /\ pallets'[t].boxes < PALLET_CAPACITY
                      /\ pallets'[t].id % NumTolvas = (t + 1) % NumTolvas
    BY DEF PalletSeries
  <1>1. /\ pallets \in [Tolva -> Pallet] /\ pallets[t] \in Pallet
        /\ NumTolvas \in Nat \ {0} /\ PALLET_CAPACITY \in Nat \ {0}
    BY CellAssumption DEF TypeOK, ControlTypeOK
  <1>2. /\ pallets[t].boxes < PALLET_CAPACITY
        /\ pallets[t].id % NumTolvas = (t + 1) % NumTolvas
    BY DEF PalletSeries
  <1>3. pallets' = [pallets EXCEPT ![Credited.tolva] = PalletAfterBox(@)]
    BY DEF ApplyCobotEvent
  <1>4. CASE t # Credited.tolva
    BY <1>1, <1>2, <1>3, <1>4
  <1>5. CASE t = Credited.tolva
    <2>1. pallets'[t] = PalletAfterBox(pallets[t])
      BY <1>1, <1>3, <1>5
    <2>2. CASE FillsPallet
      <3>1. pallets'[t] = [id |-> pallets[t].id + NumTolvas, boxes |-> 0]
        BY <2>1, <2>2 DEF PalletAfterBox
      <3>2. (pallets[t].id + NumTolvas) % NumTolvas = pallets[t].id % NumTolvas
        BY <1>1, SameRemainder DEF Pallet
      <3> QED
        BY <1>1, <1>2, <3>1, <3>2
    <2>3. CASE ~FillsPallet
      <3>1. pallets'[t] = [pallets[t] EXCEPT !.boxes = @ + 1]
        BY <2>1, <2>3 DEF PalletAfterBox
      <3>2. pallets[t].boxes + 1 < PALLET_CAPACITY
        BY <1>1, <1>5, <2>3 DEF FillsPallet, Pallet
      <3>3. pallets'[t].id = pallets[t].id /\ pallets'[t].boxes = pallets[t].boxes + 1
        BY <1>1, <3>1 DEF Pallet
      <3> QED
        BY <1>2, <3>2, <3>3
    <2> QED
      BY <2>2, <2>3
  <1> QED
    BY <1>4, <1>5

(* For every capacity and number of hoppers: no full pallet stays open, and *)
(* the ids of a colour keep their remainder, so that no two colours meet.   *)
THEOREM PalletsInSeries == Spec => []PalletSeries
  <1>1. Init => PalletSeries
    BY FirstPalletsInSeries DEF Init, PalletSeries
  <1>2. TypeOK /\ PalletSeries /\ [Next]_vars => PalletSeries'
    <2> SUFFICES ASSUME TypeOK, PalletSeries, [Next]_vars PROVE PalletSeries'
      OBVIOUS
    <2>1. CASE ApplyCobotEvent
      BY <2>1, PalletFilled
    <2>2. (pallets' = FirstPallets => PalletSeries') /\ (pallets' = pallets => PalletSeries')
      BY FirstPalletsInSeries DEF PalletSeries
    <2>3. CASE Reboot
      BY <2>2, <2>3 DEF Reboot
    <2>4. CASE ScadaCommand
      <3>1. pallets' \in {pallets, FirstPallets}
        BY <2>4 DEF ScadaCommand, ScadaStatus, ScadaSetMode, ScadaGen, ScadaReset
      <3> QED
        BY <2>2, <3>1
    <2> QED
      BY <2>1, <2>2, <2>3, <2>4, PalletsLeftAlone
  <1> QED
    BY <1>1, <1>2, TypeCorrect, PTL DEF Spec
=============================================================================
