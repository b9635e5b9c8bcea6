CONSTANTS
    k1 = k1
    k2 = k2
    v1 = v1
    o1 = o1
    o2 = o2
    Absent = Absent
    Keys <- MCKeys
    Values <- MCValues
    Owners <- MCOwners
    InitialAcl <- MCInitialAcl
    Blockchain = FALSE
    MaxEvents = 3
    MaxHeight = 2
    MaxSubresource = 2
SPECIFICATION Spec
PROPERTIES
    Refinement
