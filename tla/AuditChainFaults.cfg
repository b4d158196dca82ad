SPECIFICATION Spec
CONSTANTS
    p1 = p1  p2 = p2  e1 = e1  e2 = e2
    k1 = k1  k2 = k2  b1 = b1  b2 = b2  x1 = x1  x2 = x2
    None = None
    Procs = {p1}
    Engagements = {e1, e2}
    Keys = {k1, k2}
    Bodies = {b1, b2}
    Binds = {x1, x2}
    Requests <- ReuseRequests
    MaxRecords = 3
    MaxClock = 1
    MaxCommits = 3
    MaxBackups = 2
    MaxFaults = 1
    MaxCrashes = 1
INVARIANTS ReplyMatchesRequest KnownEventsListed
PROPERTY ListsAgree
