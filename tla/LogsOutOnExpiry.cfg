CONSTANTS
    Ttl = 3
    Warn = 1
    MaxFails = 1
SPECIFICATION FairSessionSpec
PROPERTIES
    LogsOutOnExpiry
