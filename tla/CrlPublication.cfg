SPECIFICATION FairSpec
CONSTANTS
    a = a
    b = b
    c = c
    boot = boot
    d1 = d1
    d2 = d2
    Jobs <- MCTwoJobs
    BootJob = boot
    Devices <- MCDevices
    MaxCrashes = 1
    MaxFaults = 1
INVARIANTS AloneRunPublishes AckedListedWhenSerialized OldClaimRevoked MirrorIsLive
PROPERTIES ListSpec RevocationReachesBroker ServesAgain
CHECK_DEADLOCK FALSE
