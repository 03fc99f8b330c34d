SPECIFICATION Spec
CONSTANTS
    e1 = e1  e2 = e2  bad = bad
    BYTES = 2
    BITS = 2
    Ifaces = {e1, e2}
    Bad = bad
    Files <- SomeFiles
    Garbage <- SomeGarbage
INVARIANTS
    IInv
    ThrowsIfNone
    FirstOfLongest
    LongestInOctet
CHECK_DEADLOCK FALSE
