SPECIFICATION FairSpec
CONSTANTS
    a = a
    s1 = s1
    s2 = s2
    s3 = s3
    Clients <- MCOneClient
    Sockets <- MCThreeSockets
    MaxConnects = 2
    MaxFaults = 0
PROPERTY BroughtBackUp
CHECK_DEADLOCK FALSE
