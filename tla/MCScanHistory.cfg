\* The bound on scans ends every behaviour, so a state without successor is no
\* deadlock of the server.
CHECK_DEADLOCK FALSE
SPECIFICATION Spec
CONSTANTS
    HSMs = {h1, h2}
    Calls = {c1, c2}
    Reports <- MCReports
    MaxScans = 3
    MaxFaults = 2
    ClockSkew = TRUE
INVARIANTS EventsSound NothingOverlooked ConsecutiveUnlessOvertaken
PROPERTIES LogSpec
