\* Two runs of one ticker and two workers: exclusion and retries.
SPECIFICATION Spec
CONSTANTS
    Runs = {r1, r2}
    Tickers = {nvda}
    Workers = {w1, w2}
    MaxRunning = 2
    MaxAutoRetries = 1
    PidReuse = TRUE
    MaxAttempts = 2
    MaxEvents = 1
    Pipeline <- OnePipeline
    None = None
SYMMETRY Symmetry
INVARIANTS TypeOK ExclusionUnlessParked RetryFollowsEnd
CHECK_DEADLOCK FALSE
