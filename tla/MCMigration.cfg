CHECK_DEADLOCK FALSE
SPECIFICATION MigrationFairSpec
CONSTANTS
    s1 = s1
    s2 = s2
    Servers = {s1, s2}
    Statements <- MCStatements
    Known <- Rolling
    Databases = {TRUE, FALSE}
    NoOne = NoOne
    MaxCrashes = 2
    MaxDrops = 1
INVARIANTS ServesMigrated LockPreventsRaces
PROPERTIES VersionClimbs OpenEnds
