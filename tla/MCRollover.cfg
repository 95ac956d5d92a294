\* Two instances over one volume, one of them killed: what still holds, and
\* that every edit ends.  No symmetry: EveryEditEnds is a liveness property.
SPECIFICATION FairSpec
CONSTANTS
    Instances = {i1, i2}
    Writes = {w1, w2}
    Paths = {p1}
    Original = original
    Outsider = outsider
    MaxAttempts = 2
    MaxOutside = 1
    MaxFaults = 1
    MaxCrashes = 1
    AcksGetLost = FALSE
    VolumeFails = TRUE
INVARIANTS
    RefusedIsNotRecorded
PROPERTIES
    BranchOnlyGrows
    
