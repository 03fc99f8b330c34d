SPECIFICATION FairSpec
CONSTANTS
    c1 = c1
    c2 = c2
    Client <- Clients
    Last = 1
    MaxCopies = 1
INVARIANTS
    IInv
    NumberNamesOne
    DoneHasAll
PROPERTIES
    ClientsEnd
CHECK_DEADLOCK FALSE
