\* One instance, killed and restarted, over a remote whose answers get lost.
\* And who callers are, whose names commits bear, what exports are judged by and
\* which preview is shown.
SPECIFICATION PartSpec
CONSTANTS
    Instances = {i1}
    Writes = {w1, w2}
    Paths = {p1, p2}
    Original = original
    Outsider = outsider
    MaxAttempts = 2
    MaxOutside = 1
    MaxFaults = 2
    MaxCrashes = 1
    AcksGetLost = TRUE
    VolumeFails = TRUE
    Clients = {"worker", "other"}
    ServiceClients = {"worker"}
    App = "canon"
    Organisation = "studio"
    GroupRoles <- Groups
    Holdings <- SomeHoldings
    Life = 1
    CacheTtl = 1
    Bindings <- SomeBindings
    Addresses <- SomeAddresses
    Normalise <- Lowered
    Strangers = {"e", "E", "f"}
    MaxLog = 2
    MaxDeclared = 4
    Values <- SomeValues
    Defaults <- SomeDefaults
    Meshes <- SomeMeshes
    Softened = {"tri_budget"}
    Exports = {"e1"}
    Digests = {1, 2, 3}
    MaxPuts = 3
SYMMETRY Symmetry
INVARIANTS
    AppliedIsRecorded
    NoLostUpdate
    IdentitiesLapse
    AuthorsAreKnown
    PreviewsAreFresh

    
