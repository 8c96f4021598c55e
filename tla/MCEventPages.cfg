SPECIFICATION Spec
CONSTANTS
    LogLen = 6
    IterMod = 12
    Codes <- MCCodes
    NoCode = 0
    Times <- MCTimes
    PageLen = 2
    FullPage = 2
    MaxEvents = 8
INVARIANTS TypeOK EmptiesLast NothingSkipped EndIsTheEnd
PROPERTY ImplementsRecent
