SPECIFICATION Spec
CONSTANTS
  NumTolvas = 2
  AMR_TOLVA_THRESHOLD = 1
  PALLET_CAPACITY = 2
  U32 = 4
  QUEUE_CAPACITY = 4
  Lotes = {}
  Unknown = Unknown
  None = None
  AMR_WAREHOUSE_LOCATION = cobot_pick
  LocksContended = FALSE
  NvsMayFail = FALSE
  Commands = {"gen"}
  Quantities = {1}
  MaxCommands = 4
  EmergencyPossible = FALSE
  Faults = {}
  MaxFaults = 0
  Rotation <- MCRotation
PROPERTIES
  BoxCreditedWhereStacked
