SPECIFICATION Spec
CONSTANTS
    Procs = {p1, p2}
    Providers = {a, b}
    MaxRevision = 2
    Ids = {i1, i2, i3}
    Sources = {s1, s2}
    PassedSources = {s1}
    None = None
SYMMETRY Symmetry
CHECK_DEADLOCK FALSE
INVARIANTS RegistryKept ProvenBeforeAdmitted
PROPERTIES RouteIsAdmitted LifeCycleForward
