\* The device is stopped while an event is handled.
CONSTANTS
  Calls = {c1}
  Channels = {h1}
  Periods = {w1}
  Targets = {a1}
  Live = Live
  Schemas = 1
  MaxRepeats = 0
  None = None
SPECIFICATION FairSpec
PROPERTIES
  DeviceStops
CHECK_DEADLOCK FALSE
