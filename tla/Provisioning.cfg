SPECIFICATION Spec
CONSTANTS
    u1 = u1
    u2 = u2
    n1 = n1
    n2 = n2
    n3 = n3
    UUIDs <- MCUUIDs
    Names <- MCNames
    EnforceWhitelist = TRUE
    MaxRuns = 2
SYMMETRY MCSymmetry
INVARIANTS TypeOK NamesUnique  DecommissionHolds  RegistryMatchesIdentity 
PROPERTIES RevocationPermanent
CHECK_DEADLOCK FALSE
