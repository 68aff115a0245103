\* So few numbers that they wrap around, and may all be in use.
SPECIFICATION Spec
CONSTANTS
  N = 4
  MaxHandle = 4
  FreeLevels = {60, 500}
  BkDelThreadMB = 100
  MaxSelfStops = 0
  RecordTimeOff = FALSE
  Inputs = {"VIDEO_RECORD_ACTIVE", "SOS_KEY"}
  MaxInputs = 4
  MaxCycles = 3
  MaxFaults = 0
  MaxCardMoves = 0
PROPERTIES
  NeverTruncates
  VideosKept
\* The inputs, the timer and the faults are bounded: the system may stop.
CHECK_DEADLOCK FALSE
