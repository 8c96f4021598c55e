CONSTANTS
    QueueLen = 2
    PacketLen = 7
    MaxAge = 2
    TzOffset = 3
    Minute = 3
    MaxStall = 2
    MaxAir = 2
    SyncCmd = "sync"
    SyncAsked = 4
    SyncPushed = 4
    Clients <- MCClients
    Commands <- MCCommands
    Dest <- MCDest
    Asked <- MCBytes
    Pushed <- MCBytes
SPECIFICATION FairSpec
INVARIANTS TypeOK MarkedIsSending PacketFits NoMisdelivery
PROPERTIES ImplementsMailbox  QueueDrains
