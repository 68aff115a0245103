\* Files of 0, 3 and 4 packets, 2 a read: the end of the file falls inside a read and behind one.
SPECIFICATION Spec
CONSTANTS
    FileSizes = {0, 3, 4}
    Block = 2
    MaxDownloads = 3
    MaxFaults = 1
    MaxOverrun = 2
CHECK_DEADLOCK FALSE
INVARIANT TypeOK
INVARIANT Exclusive
INVARIANT InOrder
INVARIANT WholeFile
INVARIANT NoFillAfterFree
PROPERTY Ends
