SPECIFICATION Spec
CONSTANTS
    a = a
    s1 = s1
    s2 = s2
    s3 = s3
    Clients <- MCOneClient
    Sockets <- MCTwoSockets
    MaxConnects = 1
    MaxFaults = 0
INVARIANT DisconnectIsFinal
CHECK_DEADLOCK FALSE
