SPECIFICATION PartsSpec
CONSTANTS
    Slots = {slot1, slot2}
    Sessions = {s1, s2}
    NoOne = NoOne
    Workers = {w1, w2, w3}
    DefaultDuration = 1
    MaxDuration = 2
    DefaultMaxOps = 1
    HardMaxOps = 3
    DefaultSessions = 1
    Durations <- MCDurations
    Budgets <- MCBudgets
    SessionCounts <- MCSessionCounts
    MaxTime = 3
INVARIANTS SharedLoginKept BudgetExact OpsInsideMeasurement
PROPERTIES CallsReturn Ends
