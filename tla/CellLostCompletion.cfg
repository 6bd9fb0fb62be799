SPECIFICATION BrokenRobotsSpec
CONSTANTS
  NumTolvas = 1
  AMR_TOLVA_THRESHOLD = 1
  PALLET_CAPACITY = 2
  U32 = 4
  QUEUE_CAPACITY = 2
  Lotes = {}
  Unknown = Unknown
  None = None
  AMR_WAREHOUSE_LOCATION = cobot_pick
  LocksContended = TRUE
  NvsMayFail = FALSE
  Commands = {"gen"}
  Quantities = {1}
  MaxCommands = 2
  EmergencyPossible = FALSE
  Faults = {"amr_timeout","cobot_timeout"}
  MaxFaults = 2
  Rotation <- MCRotation
PROPERTIES
  CobotReleased
