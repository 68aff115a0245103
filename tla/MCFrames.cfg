\* Frames of two lines, three line buffers and three output buffers: an empty line queue, a full
\* one, a frame that waits, and one that is given up for a newer one are all reached.
SPECIFICATION Spec
\* The frames are bounded: the system may stop.
CHECK_DEADLOCK FALSE
CONSTANTS
    LinesPerFrame = 2
    FifoCount = 3
    OutCount = 3
    JpegQMax = 3
    PackerThreshold = 2
    MaxFrames = 4
    MaxFaults = 1
INVARIANTS
    TypeOK
    OutsInOnePlace
    FifosInOnePlace
    WholeFrames
    WaitingHasRelease
PROPERTIES
    InOrder
    StopAnswered
