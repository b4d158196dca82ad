SPECIFICATION Spec
CONSTANTS
    Procs = {p1, p2}
    Keys = {k1}
    Proposals = {q1}
    Chains = {c1}
    None = None
    MaxActions = 2
    MaxFailures = 2
    Deadline = 2
    Ttl = 1
    MaxClock = 1
    MaxPrepared = 1
    MaxCrashes = 0
    Revocable = FALSE
    Outcomes = {"failed"}
    Cleanups = {TRUE}
SYMMETRY Symmetry
INVARIANTS BudgetHonoured OneChain ConsumedIffClaimed
PROPERTIES KeepsBoundary BoundedFlowSpec
