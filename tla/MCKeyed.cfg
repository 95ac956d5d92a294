\* One instance: what a key promises, through crashes, failures and expiry.
\* And two servers of an agent beside one working copy, two processes linking
\* documents, and what two viewers are shown of one.
SPECIFICATION PartSpec
CONSTANTS
    k1 = k1
    k2 = k2
    t1 = t1
    t2 = t2
    b1 = b1
    b2 = b2
    Original = original
    Outsider = outsider
    BasedOn <- Chained
    Instances = {i1}
    Attempts = {a1, a2, a3}
    Keys = {k1, k2}
    Targets = {t1}
    Bodies = {b1, b2}
    Drafts <- HonestDrafts
    Lifetime = 2
    MaxClock = 2
    MaxOutside = 1
    MaxFaults = 1
    MaxCrashes = 1
    MaxDrops = 0
    Reverts = TRUE
    Agents = {p1, p2}
    NamedAs <- AllAgents
    Signed = {"ana"}
    SignedActor <- SomeSigned
    Sayings <- SomeSayings
    Same <- Lowered
    Parts = {"head"}
    Allowance = 2
    Span = 1
    AtOnce = 1
    Quick = TRUE
    MaxNotes = 4
    MaxTime = 2
    MaxHands = 3
    Doers = {p1, p2}
    Docs = {d1, d2}
    LinkAttempts = 2
    MaxLinks = 3
    Viewers = {p1, p2}
    Linked = {"sheet"}
    Ttl = 2
    Slow = 1
SYMMETRY SharedSymmetry
INVARIANTS
    AnswersStand
    CardsAreAllowed
PROPERTIES
    AgentsAreBounded
    
    RefusalsStick
CHECK_DEADLOCK FALSE
