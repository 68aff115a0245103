\* The card is full when a stop of it comes too late.
SPECIFICATION Spec
CONSTANTS
  N = 8
  MaxHandle = 4
  FreeLevels = {10, 500}
  BkDelThreadMB = 100
  MaxSelfStops = 2
  RecordTimeOff = FALSE
  Inputs = {"VIDEO_RECORD_ACTIVE", "SOS_KEY"}
  MaxInputs = 2
  MaxCycles = 0
  MaxFaults = 0
  MaxCardMoves = 0
PROPERTIES
  StopNeverStarts
\* The inputs, the timer and the faults are bounded: the system may stop.
CHECK_DEADLOCK FALSE
