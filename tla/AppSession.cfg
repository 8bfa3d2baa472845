SPECIFICATION FairSpec
CONSTANTS
    a = a
    s1 = s1
    s2 = s2
    s3 = s3
    Clients <- MCOneClient
    Sockets <- MCTwoSockets
    MaxConnects = 2
    MaxFaults = 2
INVARIANTS OneSession QuietAfterDisconnect FlagMatchesSocket
PROPERTIES DeadSessionsReaped SettlesConnected
CHECK_DEADLOCK FALSE
