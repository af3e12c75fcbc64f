\* The bounds end every behaviour, so a state without successor is no deadlock.
CHECK_DEADLOCK FALSE
SPECIFICATION Spec
CONSTANTS
    a1 = a1
    a2 = a2
    n1 = n1
    n2 = n2
    s1 = s1
    s2 = s2
    f = f
    p1 = p1
    p2 = p2
    None = None
    Agents = {a1, a2}
    Calls = {p1, p2}
    NameOf <- MCNameOf
    SlotsOf <- MCSlotsOf
    Contents <- MCContents
    MaxReports = 3
    MaxTokens = 2
    MaxFaults = 1
SYMMETRY Alike
INVARIANTS TokenServes PushedIsStored GaugesOfOneScan SharedKeysCurrent
