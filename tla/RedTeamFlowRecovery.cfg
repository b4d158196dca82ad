SPECIFICATION FairSpec
CONSTANTS
    Procs = {p1, p2}
    Keys = {k1}
    Proposals = {}
    Chains = {}
    None = None
    MaxActions = 1
    MaxFailures = 1
    Deadline = 1
    Ttl = 1
    MaxClock = 1
    MaxPrepared = 1
    MaxCrashes = 1
    Revocable = TRUE
    Outcomes = {"succeeded", "timed_out", "failed"}
    Cleanups = {TRUE, FALSE}
INVARIANTS LedgerAgrees AttemptsRunOnce
PROPERTY FlowStops
