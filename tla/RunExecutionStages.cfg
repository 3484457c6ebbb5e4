\* One run through the pipeline of the code, two workers, two attempts, fair.
SPECIFICATION FairSpec
CONSTANTS
    Runs = {r1}
    Tickers = {nvda}
    Workers = {w1, w2}
    MaxRunning = 1
    MaxAutoRetries = 0
    PidReuse = TRUE
    MaxAttempts = 2
    MaxEvents = 6
    Pipeline <- FivePipeline
    None = None
INVARIANTS ProgressIsRecorded LeaseMatchesStatus OneRunnerPerAttempt
PROPERTIES FinalIsFinal MovesFollowTable AttemptsGoOn
CHECK_DEADLOCK FALSE
