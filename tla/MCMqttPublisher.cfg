CONSTANTS
    MaxAddr = 3
    Clients = {1, 2}
    FreqLen = 2
    Unflagged = {1}
    LockCell = 0
    Days = 2
    SlotsPerDay = 2
    EepromSize = 2
    Chunk = 1
    MaxReports = 1
    MaxFaults = 1
SPECIFICATION FairSpec
INVARIANTS TypeOK 
PROPERTIES ChangesAreServed FrequentValuesArrive
