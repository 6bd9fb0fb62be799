SPECIFICATION Spec
CONSTANTS
  NumTolvas = 1
  AMR_TOLVA_THRESHOLD = 2
  PALLET_CAPACITY = 2
  U32 = 4
  QUEUE_CAPACITY = 4
  Lotes = {}
  Unknown = Unknown
  None = None
  AMR_WAREHOUSE_LOCATION = cobot_pick
  LocksContended = FALSE
  NvsMayFail = FALSE
  Commands = {"set_mode","gen"}
  Quantities = {1}
  MaxCommands = 3
  EmergencyPossible = FALSE
  Faults = {}
  MaxFaults = 0
  Rotation <- MCRotation
PROPERTIES
  BatchTruthful
