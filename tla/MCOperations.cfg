\* Two users and two requests at a time; two symbols and two dates for the scripts;
\* two days, attempts and answers of a run; three runs in the ledger; four
\* sessions in six days of prices.
CONSTANTS
    Users = {a, b}
    Founders = {a}
    Requests = {q1, q2}
    MaxFaults = 1
    Snapshots = TRUE
    None = None
    Members = {m1, m2}
    Steward = m1
    Symbols = {"s1", "s2"}
    LastDate = 2
    Posts = {p1, p2}
    MaxStops = 1
    MaxBreaks = 2
    LastDay = 3
    MaxAttempts = 2
    MaxAnswers = 2
    AnalysisDays = {1, 3}
    MaxRuns = 3
    Horizons = {1, 2}
    MemoryLimit = 1
    MaxVerdicts = 2
    Sessions = {1, 3, 4, 5}
    EndOfTime = 6
    DecisionDates = {2, 3}
    Horizon = 1
    Background = 2
    Bars <- SomeBars
    Targets = {0, 6}
SPECIFICATION OperationsSpec
INVARIANTS
    OperationsTypeOK
    SomeRequestProceeds
    VerdictsAreFounded
    LineageIsSound
    OutcomeIsTrue
PROPERTIES
    LastAdminIsMiscounted
    SyncIsCurrent
    ScriptsAreSafe
    MemoryIsSound
CHECK_DEADLOCK FALSE
