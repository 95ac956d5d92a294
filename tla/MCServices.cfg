SPECIFICATION Spec
CONSTANTS
    Projects = {"p", "q"}
    MaxCommits = 1
    Releases = {"r1", "r2"}
    Files = {1, 2, 3}
    MaxEpochs = 2
    Overlapping = TRUE
    Sheets = {"a", "b"}
    Mine = {"m1", "m2"}
    Theirs = {"o1"}
    Calm = TRUE
INVARIANTS
    SweepsAreDone
    SchemaIsRecorded
    
PROPERTIES
    TimerCatchesUp
