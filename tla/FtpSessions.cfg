SPECIFICATION Spec
CONSTANTS
    Requests <- AllCommands
    Number <- Numbers
    IntMax = 1
    SplitLines = FALSE
    MaxInbox = 1
    MaxBlocks = 2
INVARIANTS
    TypeOK
    NothingLeft
    ListensIfPassive
    AnsweredOnce
    CompleteIsAll
    NoOrphan
PROPERTIES
    RestLifetime
CHECK_DEADLOCK FALSE
