\* Two processes' passes over two assets while exports and specifications are
\* pushed and fetched under them.
SPECIFICATION LiveWorkerSpec
CONSTANTS
    e1 = e1
    e2 = e2
    a1 = a1
    a2 = a2
    c1 = c1
    c2 = c2
    c3 = c3
    s1 = s1
    s2 = s2
    Workers = {w1, w2}
    Exports = {e1}
    Assets = {a1}
    SpecOf <- OneEach
    Contents = {c1, c2, c3}
    Specs = {s1, s2}
    Passes <- Verdicts
    Unreadable = {c3}
    First <- Unvalidated
    MaxPushes = 2
    MaxFaults = 1
    MaxDeaths = 1
    Reverts = FALSE
PROPERTIES
    
    SweepsSettle
