\* The card is taken out and put in again, the encoder fails once, the packer
\* may report an error, and a recording is stopped at any moment by an event
\* that is not a user key.
SPECIFICATION FairSpec
CONSTANTS
  N = 8
  MaxHandle = 6
  FreeLevels = {10, 500}
  BkDelThreadMB = 100
  MaxSelfStops = 0
  RecordTimeOff = FALSE
  Inputs = {"VIDEO_RECORD_ACTIVE", "PREV_KEY", "AVI_PACKER_ERROR", "MODE"}
  MaxInputs = 2
  MaxCycles = 1
  MaxFaults = 1
  MaxCardMoves = 2
INVARIANTS
  CardKnown
PROPERTIES
  Answered
\* The inputs, the timer and the faults are bounded: the system may stop.
CHECK_DEADLOCK FALSE
