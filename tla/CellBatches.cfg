SPECIFICATION TimelySpec
CONSTANTS
  NumTolvas = 1
  AMR_TOLVA_THRESHOLD = 1
  PALLET_CAPACITY = 2
  U32 = 4
  QUEUE_CAPACITY = 4
  Lotes = {}
  Unknown = Unknown
  None = None
  AMR_WAREHOUSE_LOCATION = cobot_pick
  LocksContended = FALSE
  NvsMayFail = FALSE
  Commands = {"set_mode","gen"}
  Quantities = {2}
  MaxCommands = 3
  EmergencyPossible = FALSE
  Faults = {"publish_error"}
  MaxFaults = 1
  Rotation <- MCInOrder
INVARIANTS
  BatchWithinTarget
PROPERTIES
  BatchCompletes
