CHECK_DEADLOCK FALSE
SPECIFICATION Spec
CONSTANTS
    t1 = t1
    t2 = t2
    h1 = h1
    h2 = h2
    Threads = {t1, t2}
    Handles = {h1, h2}
    Functions <- Everything
    ReuseHandles = FALSE
    NoSession = NoSession
    MaxCalls = 5
    MaxRuns = 2
SYMMETRY Symmetry
INVARIANTS TraceFaithful LeaksExact BlamedRightly
