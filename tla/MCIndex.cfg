\* One process, restarted: what the journal says of the index.
SPECIFICATION Spec
CONSTANTS
    Specs = {s1, s2}
    MaxCommits = 3
    MaxRaises = 1
    MaxRefusals = 0
    MaxRestarts = 1
    PushesRace = FALSE
    EntryReads = FALSE
SYMMETRY Symmetry
INVARIANTS
    InSyncIsTrue
    PartialIsFlagged
