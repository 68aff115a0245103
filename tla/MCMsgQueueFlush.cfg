CONSTANTS
  MaxQSize = 3
  MaxMsgs = 3
  Flushed = TRUE
  MaxSends = 5
SPECIFICATION Spec
INVARIANT NoDuplicate
CHECK_DEADLOCK FALSE
