SPECIFICATION StopBrokenRobotsSpec
CONSTANTS
  NumTolvas = 1
  AMR_TOLVA_THRESHOLD = 1
  PALLET_CAPACITY = 2
  U32 = 4
  QUEUE_CAPACITY = 2
  Lotes = {}
  Unknown = Unknown
  None = None
  AMR_WAREHOUSE_LOCATION = cobot_pick
  LocksContended = FALSE
  NvsMayFail = TRUE
  Commands = {"gen"}
  Quantities = {1}
  MaxCommands = 2
  EmergencyPossible = TRUE
  Faults = {"amr_timeout","cobot_timeout","publish_error"}
  MaxFaults = 2
  Rotation <- MCRotation
INVARIANTS
  CobotTimed
  LastCommands
PROPERTIES
  AmrReleased
  CobotReleased
  EmergencyParks
