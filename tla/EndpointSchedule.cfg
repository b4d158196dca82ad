SPECIFICATION Spec
CONSTANTS
    Procs = {p1, p2}
    Interval = 1
    RunTtl = 1
    ActiveUntil = 4
    MaxClock = 4
    MaxCommands = 4
SYMMETRY Symmetry
CHECK_DEADLOCK FALSE
INVARIANTS TablesAgree NoOverlap UnprovenIsLast CleanIsClean
