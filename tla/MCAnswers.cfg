INIT PartsInit
NEXT PartsNext
CONSTANTS
    Severities <- MCSeverities
    MaxOwn = 5
    MaxExtra = 2
    Commands <- BothCommands
    s1 = s1
    s2 = s2
    k1 = k1
    k2 = k2
    a = a
    t1 = t1
    t2 = t2
    b = b
    Sessions = {s1, s2}
    Keys = {k1, k2}
    Names = {a, b}
    NameOf <- Named
    Unnamed = Unnamed
    NoKey = NoKey
    Refusals = TRUE
    Careless = TRUE
    MaxEvents = 6
    KmipIds = {"o1", "o2"}
    KmipKinds <- MCKinds
    KmipRuleSet <- MCKmipRules
    Offers <- MCOffers
    MaxChanges = 2
    Inventories <- MCInventories
    Times <- MCTimes
    RuleFiles <- MCRuleFiles
    PackLists <- MCPackLists
    BuiltinRules <- MCDefault
    WarnDays = 2
    OldInventories <- MCOld
    NewInventories <- MCNew
    Questions <- MCQuestions
    Tabs = {t1, t2}
    CookieKeys = {TRUE, FALSE}
    FlowAge = 1
    TokenAge = 2
    MaxLogins = 3
    MaxRestarts = 1
    MaxClock = 2
    HookEvents = 2
    Attempts = 3
    MaxCrashes = 1
SYMMETRY Symmetry
INVARIANTS
    ScoreIsOfAll GateSeesWorst SevereKept VerdictOfAll
    UsageExact
    KmipReportOfTheTime
    FindingsAsDocumented EvidenceAgreesWithScan ReadyUnlessObstructed
    BillOfMaterials OneAnswer DriftIsDifference
    ServedAsGranted
    DeliveredOrGivenUp
CHECK_DEADLOCK FALSE
