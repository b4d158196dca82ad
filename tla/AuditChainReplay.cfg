SPECIFICATION LiveSpec
CONSTANTS
    p1 = p1  p2 = p2  e1 = e1  e2 = e2
    k1 = k1  k2 = k2  b1 = b1  b2 = b2  x1 = x1  x2 = x2
    None = None
    Procs = {p1, p2}
    Engagements = {e1}
    Keys = {k1, k2}
    Bodies = {b1, b2}
    Binds = {x1}
    Requests <- TwoRequests
    MaxRecords = 3
    MaxClock = 0
    MaxCommits = 2
    MaxBackups = 0
    MaxFaults = 0
    MaxCrashes = 1
INVARIANT KnownEventsAnchored
PROPERTIES OneHistory ReplayAdvancesCheckpoint
