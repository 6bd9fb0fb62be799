SPECIFICATION Spec
CONSTANTS
  MAX_PAYLOAD = 32
  STOP_BURST_COUNT = 3
  HEARTBEAT_INTERVAL = 2
  Jitter = 1
  HEARTBEAT_TIMEOUT = 6
  TICK_INTERVAL = 1
  USB_HEARTBEAT_TICKS = 2
  RX_CHAN_CAPACITY = 2
  BootTimes <- MCBootTimes
  MaxEdges = 2
  MaxFaults = 0
  SettleTime = 10
INVARIANT PressStops
