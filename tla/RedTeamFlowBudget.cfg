SPECIFICATION Spec
CONSTANTS
    Procs = {p1}
    Keys = {k1}
    Proposals = {q1}
    Chains = {c1}
    None = None
    MaxActions = 2
    MaxFailures = 2
    Deadline = 1
    Ttl = 1
    MaxClock = 1
    MaxPrepared = 1
    MaxCrashes = 0
    Revocable = FALSE
    Outcomes = {"succeeded"}
    Cleanups = {TRUE}

INVARIANT AdmissionsKeepTheirBudget
