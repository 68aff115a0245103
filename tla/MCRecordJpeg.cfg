\* Pictures are taken while recording: they share the numbers, g_file_path and
\* the mount timer with the videos, until every number is used.
SPECIFICATION Spec
CONSTANTS
  N = 4
  MaxHandle = 4
  FreeLevels = {60, 500}
  BkDelThreadMB = 100
  MaxSelfStops = 0
  RecordTimeOff = FALSE
  Inputs = {"VIDEO_RECORD_ACTIVE", "GET_JPEG"}
  MaxInputs = 5
  MaxCycles = 1
  MaxFaults = 0
  MaxCardMoves = 0
INVARIANTS OneHolder RestPolls
\* The inputs, the timer and the faults are bounded: the system may stop.
CHECK_DEADLOCK FALSE
