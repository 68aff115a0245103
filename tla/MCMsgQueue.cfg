CONSTANTS
  MaxQSize = 3
  MaxMsgs = 3
  Flushed = FALSE
  MaxSends = 6
SPECIFICATION Spec
INVARIANTS TypeOK IInv SlotDiscipline NoSlotLeaked NoMessageLost
PROPERTY ImplementsFifo
CHECK_DEADLOCK FALSE
