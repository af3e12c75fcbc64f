CHECK_DEADLOCK FALSE
SPECIFICATION MigrationSpec
CONSTANTS
    s1 = s1
    s2 = s2
    Servers = {s2}
    Statements <- MCStatements
    Known <- Newest
    Databases = {FALSE}
    NoOne = NoOne
    MaxCrashes = 1
    MaxDrops = 0
INVARIANT NobodyRefused
