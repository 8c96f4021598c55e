CONSTANTS
    QueueLen = 3
    PacketLen = 8
    MaxAge = 4
    TzOffset = 0
    RetrySteps = 2
    Contents <- MCContents
    Clients = {1}
    TempOff = 1
    TempOpen = 2
    BasicSeq <- MCBasics
    EepromSeq <- NoCells
    TimerSeq <- ThreeTimers
    OutOfRange = {0}
    Refused = {0}
    MaxEeprom = 8
    MaxTimers = 8
    Minute = 4
    MaxAsks = 2
    MaxTurns = 0
SPECIFICATION Spec
PROPERTY WritesWhatIsRequested
