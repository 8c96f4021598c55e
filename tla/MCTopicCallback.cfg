CONSTANTS
    MaxAddr = 4
    MaxCount = 2
    NoValue = NoValue
    Warm = Warm
    TimerDays = 2
    SlotsPerDay = 1
    TempOff = 9
    TempOpen = 61
    Addrs <- MCAddrs
    Values <- MCValues
    Prefix <- MCPrefix
    Messages <- MCMessages
    Reports <- MCReports
    EepromCells <- MCEepromCells
SPECIFICATION CallbackSpec
INVARIANTS TypeOK OneRecordEach FreshRecords 
PROPERTIES KeepsRegistry ImplementsDirectory  
