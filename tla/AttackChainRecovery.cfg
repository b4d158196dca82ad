SPECIFICATION Spec
CONSTANTS
    Procs = {p1}
    N = 4
    Objective = 3
    Prerequisites <- Wide
    None = None
    Deadline = 1
    CleanupDeadline = 2
    FlowDeadline = 2
    MaxClock = 1
    MaxRevision = 5
    MaxCrashes = 1
    Revocable = TRUE
    FlowMoves = {"moved", "killed"}
    Outcomes = {"succeeded", "timed_out"}
SYMMETRY Symmetry
INVARIANTS WrittenInOrder Sealed
PROPERTY UncertainNotKilled
