\* One instance that is never killed: edits are compare-and-swaps.
\* And an asset's file as people and the program write it, and two stores asked alike.
SPECIFICATION PartSpec
CONSTANTS
    Instances = {i1}
    Writes = {w1, w2}
    Paths = {p1, p2}
    Original = original
    Outsider = outsider
    MaxAttempts = 2
    MaxOutside = 2
    MaxFaults = 1
    MaxCrashes = 0
    AcksGetLost = FALSE
    VolumeFails = FALSE
    Projects <- SomeProjects
    Ids <- SomeIds
    Named <- SomeNames
    AliasLists <- SomeAliasLists
    Proposed <- SomeProposed
    Asked <- SomeAsked
    LowerOf <- LetterCase
    MaxMisses = 2
    Words = {"w1", "w2"}
    Notes = {"n1", "n2"}
    Sayings = {"s1", "s2"}
    Extras = {"x"}
    Limits <- SomeLimits
    MaxItems = 3
SYMMETRY Symmetry
INVARIANTS
    TypeOK
    CopyIsClean
    StoresAnswerAlike
PROPERTIES
    
    EditsAreAtomic
