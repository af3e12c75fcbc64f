\* One caller, two scans of one HSM, no storage error and no crash: nothing goes
\* wrong but the mail server.
CHECK_DEADLOCK FALSE
SPECIFICATION FairSpec
CONSTANTS
    HSMs = {h1}
    Calls = {c1}
    Reports <- MCReports
    MaxScans = 2
    MaxFaults = 0
    ClockSkew = FALSE
PROPERTIES DriftIsChecked
