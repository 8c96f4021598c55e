CONSTANTS
    QueueLen = 1
    PacketLen = 8
    MaxAge = 4
    TzOffset = 0
    RetrySteps = 2
    Contents <- MCContents
    Clients = {1, 2}
    TempOff = 1
    TempOpen = 2
    BasicSeq <- MCBasics
    EepromSeq <- NoCells
    TimerSeq <- NoCells
    OutOfRange = {0}
    Refused = {0}
    MaxEeprom = 8
    MaxTimers = 8
    Minute = 4
    MaxAsks = 1
    MaxTurns = 1
SPECIFICATION FairSpec
PROPERTIES RequestsSettle MirrorSettles
