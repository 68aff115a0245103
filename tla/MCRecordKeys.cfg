\* Two recordings by the record key, with locks, loop recording and background
\* deletion; the numbers do not wrap around.
SPECIFICATION Spec
CONSTANTS
  N = 12
  MaxHandle = 4
  FreeLevels = {60, 500}
  BkDelThreadMB = 100
  MaxSelfStops = 0
  RecordTimeOff = FALSE
  Inputs = {"VIDEO_RECORD_ACTIVE", "SOS_KEY", "MODE"}
  MaxInputs = 5
  MaxCycles = 2
  MaxFaults = 0
  MaxCardMoves = 0
INVARIANTS
  TypeOK
  OneHolder
  PathNamesRecording
  OpenFilesExist
  FilesIndexed
PROPERTIES
  LockHonoured
\* The inputs, the timer and the faults are bounded: the system may stop.
CHECK_DEADLOCK FALSE
