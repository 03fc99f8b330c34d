SPECIFICATION FairSpec
CONSTANTS
    Inputs <- UserInputs
    Requests <- Sent
    Number <- Numbers
    IntMax = 1
    Codes <- ServerCodes
    MaxInterrupts = 2
    MaxInbox = 2
    MaxAnswers = 2
    MaxBlocks = 2
    Window = 1
INVARIANTS
    IInv
    InStep
    ModesAgree
    NeverAhead
PROPERTIES
    EnvironmentsMet
    
    GoneEndsAll
    CommandEnds
CHECK_DEADLOCK FALSE
