SPECIFICATION Spec
CONSTANTS
    Second = 3
    Minute = 8
    Wrap = 61
    UpdateSec = 5
    SyncSecs <- MCSyncSecs
    Interval = 24
    MaxPolls = 2
    FracDiv = 3
    Starts <- MCStarts
    Setups <- MCSetups
    MaxStall = 1
    MaxTicks = 90
INVARIANTS TypeOK KeepsTime LogGetsTimes
PROPERTIES SyncSecondsSeen SecondsGoBackByOne
