SPECIFICATION FairSpec
CONSTANTS
  None = None
  MQTT_SUB_TOPICS <- MCTopics
  EMERGENCY_ACTION = "emergency"
  MaxDrops = 1
  MaxDropsInCycles = 0
PROPERTIES
  NeverDeaf
