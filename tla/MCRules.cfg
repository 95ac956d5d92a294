SPECIFICATION Spec
CONSTANTS
    i1 = i1
    i2 = i2
    i3 = i3
    i4 = i4
    Uploads = {p1, p2}
    Images = {i1, i2, i3, i4}
    FormatOf <- Encodings
    ShapeOf <- Shapes
    Formats <- KnownFormats
    Tolerance = 1
    PinIds = {"p"}
    MaxCommits = 3
    Askers = {p1, p2}
    Keys = {k1, k2}
    Window = 1
    Cooldown = 1
    Timeout = 1
    Reporters = {p1, p2}
    Outcomes <- SomeOutcomes
    Capacity = 2
    OneAtATime = TRUE
    OutboxFaults = {"die", "disk", "garble", "tear"}
    MaxReports = 4
    MaxOutboxFaults = 2
    Tabs = {p1, p2}
    Persons = {"x", "y"}
    Absent = Absent
    MaxTokens = 2
    MaxReloads = 1
    Patient = TRUE
SYMMETRY Symmetry
INVARIANTS
    KeysAreCurrent
    OutcomesAreDelivered
    TabsStaySignedIn

    
