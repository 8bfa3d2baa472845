\* Two calls of each kind and one message; one lost connection each.
CONSTANTS
    AdminCalls = {a1, a2}
    AppCalls = {p1, p2}
    RequestIds = {i1, i2}
    Messages = {m1}
    MaxDrops = 1
    i1 = i1
    p1 = p1
    \* presence
    Links = {k1, k2}
    NoLink = NoLink
    MaxCuts = 2
    MaxLog = 3
    \* the twin
    Keys = {key1, key2}
    Values = {v1, v2}
    None = None
    MaxPatches = 2
    MaxCuts2 = 1
    MaxQueue = 3
    \* three nodes on two devices
    Nodes = {x1, x2, x3}
    Device <- DevicesOf
    d1 = d1
    d2 = d2
    x1 = x1
    x2 = x2
    x3 = x3
    Clients = {c1, c2}
    NoClient = NoClient
    MaxAsked = 1
    MaxFaults = 2
    \* the page's session
    Ttl = 3
    Warn = 1
    MaxFails = 1
    \* the terminal
    Sockets = {w1, w2}
    NoSocket = NoSocket
SPECIFICATION ChannelsSpec
INVARIANTS
    ChannelsTypeOK
    OwnAnswer
    SoleCallSubscribed
    RecordedIsHeld
    
    ServedWhenUp
PROPERTIES
    DecidedOnce
    EveryCallSettles
    ConnectedShowsOnline
    NodesSeeHub
    ExpiryNoticed
    
CHECK_DEADLOCK FALSE
