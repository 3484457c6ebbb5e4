\* Cancellation of a run that no worker has claimed yet.
SPECIFICATION FairSpec
CONSTANTS
    Runs = {r1}
    Tickers = {nvda}
    Workers = {w1}
    MaxRunning = 1
    MaxAutoRetries = 0
    PidReuse = FALSE
    MaxAttempts = 3
    MaxEvents = 2
    Pipeline <- OnePipeline
    None = None
PROPERTIES CancelSettles
CHECK_DEADLOCK FALSE
