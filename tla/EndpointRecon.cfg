SPECIFICATION Spec
CONSTANTS
    Plans = {e1, e2}
    Steps = 2
    Callers = {c1, c2}
    MaxActions = 2
    MaxAttempts = 2
    MaxOthers = 1
SYMMETRY Symmetry
CHECK_DEADLOCK FALSE
INVARIANTS FlowKept OutcomeIsLineage OneLineage ReservationFollows
