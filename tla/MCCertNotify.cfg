\* The clock stops and the mishaps run out: a state without successor is no
\* deadlock of the program.
CHECK_DEADLOCK FALSE
SPECIFICATION FairSpec
CONSTANTS
    Certs <- MCCerts
    Thresholds = {1, 2}
    DayLength = 2
    Calls = {p1, p2}
    MaxTime = 3
    Limits <- AllMishaps
INVARIANTS RemindersAccounted EveryNameReminded
PROPERTY ExpiryReminded
