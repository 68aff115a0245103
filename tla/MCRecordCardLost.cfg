\* The card goes after the packer failed to change files.
SPECIFICATION Spec
CONSTANTS
  N = 8
  MaxHandle = 4
  FreeLevels = {60, 500}
  BkDelThreadMB = 100
  MaxSelfStops = 0
  RecordTimeOff = FALSE
  Inputs = {"VIDEO_RECORD_ACTIVE", "SOS_KEY"}
  MaxInputs = 1
  MaxCycles = 1
  MaxFaults = 1
  MaxCardMoves = 1
PROPERTIES
  NoStorageStops
\* The inputs, the timer and the faults are bounded: the system may stop.
CHECK_DEADLOCK FALSE
