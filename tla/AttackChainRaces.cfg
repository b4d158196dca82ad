SPECIFICATION Spec
CONSTANTS
    Procs = {p1, p2}
    N = 3
    Objective = 2
    Prerequisites <- Short
    None = None
    Deadline = 1
    CleanupDeadline = 2
    FlowDeadline = 2
    MaxClock = 0
    MaxRevision = 3
    MaxCrashes = 0
    Revocable = FALSE
    FlowMoves = {"killed", "ended"}
    Outcomes = {"succeeded", "interrupted"}
SYMMETRY Symmetry
INVARIANTS LedgerAgrees ChangesAreCleanedUp AttemptsOnce
PROPERTY EndsAreFinal
