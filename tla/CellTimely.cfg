SPECIFICATION TimelySpec
CONSTANTS
  NumTolvas = 2
  AMR_TOLVA_THRESHOLD = 1
  PALLET_CAPACITY = 2
  U32 = 4
  QUEUE_CAPACITY = 4
  Lotes = {}
  Unknown = Unknown
  None = None
  AMR_WAREHOUSE_LOCATION = cobot_pick
  LocksContended = TRUE
  NvsMayFail = FALSE
  Commands = {"status","set_mode","gen"}
  Quantities = {3}
  MaxCommands = 2
  EmergencyPossible = FALSE
  Faults = {}
  MaxFaults = 0
  Rotation <- MCInOrder
PROPERTIES
  FullHopperCollected
  StatusAnswered
