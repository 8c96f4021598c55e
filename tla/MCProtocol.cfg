CONSTANTS
    QueueLen = 3
    PacketLen = 8
    MaxAge = 4
    TzOffset = 5
    RetrySteps = 2
    Contents <- FourContents
    Clients = {1}
    TempOff = 1
    TempOpen = 2
    BasicSeq <- AllBasics
    EepromSeq <- OneEeprom
    TimerSeq <- NoCells
    OutOfRange = {0}
    Refused = {3}
    MaxEeprom = 8
    MaxTimers = 8
    Minute = 4
    MaxAsks = 2
    MaxTurns = 1
SPECIFICATION Spec
INVARIANTS TypeOK 
 
