CONSTANTS
    QueueLen = 3
    PacketLen = 8
    MaxAge = 4
    TzOffset = 5
    RetrySteps = 2
    Contents <- MCContents
    Clients = {1}
    TempOff = 1
    TempOpen = 2
    BasicSeq <- MCBasics
    EepromSeq <- OneEeprom
    TimerSeq <- TwoTimers
    OutOfRange = {0}
    Refused = {0}
    MaxEeprom = 1
    MaxTimers = 1
    Minute = 4
    MaxAsks = 1
    MaxTurns = 0
SPECIFICATION FairSpec
PROPERTIES  ReadsComplete
