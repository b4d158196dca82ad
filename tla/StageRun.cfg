SPECIFICATION Spec
CONSTANTS
    MaxAttempts = 3
    Services <- AllServices
    Plans = {p1, p2}
    Calls = {c1, c2}
    Times = {t1, t2}
SYMMETRY Sym
CHECK_DEADLOCK FALSE
INVARIANTS
    OneAnswer WorkOnce LastAttemptDecides FreshOutcome RestsOnFinished
    SealedOutcome RunUnderGate
