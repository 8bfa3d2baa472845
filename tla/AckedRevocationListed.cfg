SPECIFICATION Spec
CONSTANTS
    a = a
    b = b
    c = c
    boot = boot
    d1 = d1
    d2 = d2
    Jobs <- MCTwoJobs
    BootJob = boot
    Devices <- MCDevices
    MaxCrashes = 0
    MaxFaults = 0
INVARIANT AckedRevocationListed
CHECK_DEADLOCK FALSE
