\* Readers refresh entries and pushes are refused: rebuilds still end.
SPECIFICATION FairSpec
CONSTANTS
    Specs = {s1}
    MaxCommits = 3
    MaxRaises = 0
    MaxRefusals = 1
    MaxRestarts = 0
    PushesRace = TRUE
    EntryReads = TRUE
PROPERTIES
    JournalSettles
