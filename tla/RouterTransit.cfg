SPECIFICATION FairSpec
CONSTANTS
    h1 = h1  h2 = h2  h3 = h3  g = g  r1 = r1  r2 = r2
    m1 = m1  m2 = m2  e1 = e1  e2 = e2  none = none  ff = ff
    IP <- Addresses
    MAC = {m1, m2}
    Iface = {e1, e2}
    IfIp <- InterfaceAddress
    RT <- Routes
    NoRoute = none
    Broadcast = ff
    Arrivals <- TransitTraffic
    Ports <- BothPorts
    MAX_SENT_TIME = 2
    SR_ARPCACHE_TO = 1
    MaxPending = 2
    MaxCache = 2
INVARIANTS
    TypeOK
    UniqueRequests
    FrontExists
    QueueRouted
    NoneStranded
    FramesRouted
    IInv
    CrashOnlyInReset
PROPERTIES
    Delivery
    TickReturns
    RequestsEnd
    CallsReturn
CHECK_DEADLOCK FALSE
