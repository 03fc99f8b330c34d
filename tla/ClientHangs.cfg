SPECIFICATION FairSpec
CONSTANTS
    Inputs <- TransferInputs
    Number <- Numbers
    Codes = {150, 226, 426}
    MaxInterrupts = 1
    MaxInbox = 1
    MaxAnswers = 1
PROPERTIES
    ExitEnds
CHECK_DEADLOCK FALSE
