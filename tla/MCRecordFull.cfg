\* Old videos are not deleted: the full card stops the recording, and the
\* greatest file size stops it and starts it again.  The encoder fails once,
\* and stops come that do not wait for the next file.
SPECIFICATION FairSpec
CONSTANTS
  N = 8
  MaxHandle = 6
  FreeLevels = {10, 500}
  BkDelThreadMB = 100
  MaxSelfStops = 1
  RecordTimeOff = TRUE
  Inputs = {"VIDEO_RECORD_ACTIVE", "PREV_KEY"}
  MaxInputs = 3
  MaxCycles = 1
  MaxFaults = 1
  MaxCardMoves = 0
PROPERTIES
  FullStops
  NextFileComes
\* The inputs, the timer and the faults are bounded: the system may stop.
CHECK_DEADLOCK FALSE
