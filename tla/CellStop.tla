------------------------------ MODULE CellStop ------------------------------
(* Cell with a history variable: what each robot has been told since the    *)
(* emergency stop was set.                                                  *)
EXTENDS Cell, FiniteSets

VARIABLE late

Robot == {"robodk", "amr", "cobot"}
SentTo(robot) == {m \in out' : m.topic = robot}

StopInit == Init /\ late = [r \in Robot |-> 0]

StopNext ==
  /\ Next
  /\ late' = [r \in Robot |-> IF emergency_stop /\ emergency_stop'
                                THEN late[r] + Cardinality(SentTo(r)) ELSE 0]

StopSpec == StopInit /\ [][StopNext]_<<vars, late>>
StopBrokenRobotsSpec == StopSpec /\ LogicFairness

(* An emergency stop does not reach a cycle of logic_task that has begun:   *)
(* the spawn section looks at it once more, publish_status never does.  But *)
(* no robot gets more than one command after the stop was set, however long *)
(* it lasts and whatever the robots report meanwhile: one cap, one trip of  *)
(* the AMR, one box for the cobot.  (Commands handed to publish_text.)      *)
LastCommands == \A r \in Robot : late[r] <= 1
=============================================================================
