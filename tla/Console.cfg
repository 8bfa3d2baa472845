\* The registry: two boards, and a role that may be named like a device
CONSTANTS
    Boards = {b1, b2}
    Names = {n1, n2}
    Labels = {r1, n1}
    Tags = {g1}
    NoBoard = NoBoard
    NoId = NoId
    \* the password
    Logins = {l1}
    Changes = {c1, c2}
    Passwords = {old, new}
    EnvPassword = old
    NoRow = NoRow
    \* the feed
    Lists = {s1, s2}
    NoList = NoList
    s1 = s1
    MaxSamples = 2
    MaxBreaks = 1
    MaxFeed = 2
    \* the whitelist table
    Uuids = {u1, u2}
    Notes = {note1}
    NoNote = NoNote
    NoEntry = NoEntry
    MaxEdits = 2
    MaxCrashes = 2
    \* the root CA
    RootRequests = {q1, q2}
    BootJob = BootJob
    MaxKeys = 4
    MaxDeaths = 1
SPECIFICATION ConsoleSpec
INVARIANTS
    ConsoleTypeOK
    RetiredMeansUntagged
    
    RemovalIsPlain
    
    
    BootsKeepEntries
    ChainsToRoot
CHECK_DEADLOCK FALSE
