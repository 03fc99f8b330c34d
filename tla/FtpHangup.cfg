SPECIFICATION FairSpec
CONSTANTS
    Requests <- HangupCommands
    Number <- Numbers
    IntMax = 1
    SplitLines = TRUE
    MaxInbox = 2
    MaxBlocks = 1
INVARIANTS
    IInv
PROPERTIES
    GoneEndsAll
    AborEnds
CHECK_DEADLOCK FALSE
