SPECIFICATION FairSpec
CONSTANTS
    Requests <- LiveCommands
    Number <- Numbers
    IntMax = 1
    SplitLines = FALSE
    MaxInbox = 1
    MaxBlocks = 2
PROPERTIES
    TransferEnds
CHECK_DEADLOCK FALSE
