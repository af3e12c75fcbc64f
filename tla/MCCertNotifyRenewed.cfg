\* The clock stops and the mishaps run out: a state without successor is no
\* deadlock of the program.
CHECK_DEADLOCK FALSE
SPECIFICATION RenewedSpec
CONSTANTS
    Certs <- RenewedCerts
    Thresholds = {1, 2}
    DayLength = 2
    Calls = {p1}
    MaxTime = 6
    Limits <- Replacing
INVARIANT EveryCertReminded
