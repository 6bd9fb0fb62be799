SPECIFICATION Spec
CONSTANTS
  NumTolvas = 2
  AMR_TOLVA_THRESHOLD = 1
  PALLET_CAPACITY = 2
  U32 = 4
  QUEUE_CAPACITY = 2
  Lotes = {l1}
  Unknown = Unknown
  None = None
  AMR_WAREHOUSE_LOCATION = cobot_pick
  LocksContended = TRUE
  NvsMayFail = FALSE
  Commands = {"status","set_mode","gen","reset"}
  Quantities = {6}
  MaxCommands = 2
  EmergencyPossible = TRUE
  Faults = {"amr_timeout","cobot_timeout","reboot","duplicate","noise","publish_error"}
  MaxFaults = 1
  Rotation <- MCRotation
INVARIANTS
  TypeOK
  AmrCoherent
  BoxesInOrder
  PalletSeries
PROPERTIES
  BoxesFlow
  RestartKeepsCounts
  WarehouseTripCarriesBox
