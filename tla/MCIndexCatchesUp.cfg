\* The index becomes that of the served revision, and is known to be.
SPECIFICATION FairSpec
CONSTANTS
    Specs = {s1, s2}
    MaxCommits = 2
    MaxRaises = 1
    MaxRefusals = 1
    MaxRestarts = 1
    PushesRace = FALSE
    EntryReads = FALSE
PROPERTIES
    CatchesUp
