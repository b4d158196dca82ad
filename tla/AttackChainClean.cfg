SPECIFICATION Spec
CONSTANTS
    Procs = {p1}
    N = 3
    Objective = 2
    Prerequisites <- Short
    None = None
    Deadline = 1
    CleanupDeadline = 2
    FlowDeadline = 2
    MaxClock = 0
    MaxRevision = 5
    MaxCrashes = 0
    Revocable = FALSE
    FlowMoves = {"killed"}
    Outcomes = {"succeeded", "failed"}
SYMMETRY Symmetry
INVARIANT KilledIsClean
