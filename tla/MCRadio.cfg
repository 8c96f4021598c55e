CONSTANTS
    MaxByte = 5
    RadioLen = 4
    RcvLen = 3
    MinPacket = 2
    FrameLen = 2
SPECIFICATION FairSpec
INVARIANTS TypeOK  FrameFits
PROPERTY ComesToRest
