\* Two tickers and a limit of one: what admission and recovery promise.
SPECIFICATION Spec
CONSTANTS
    Runs = {r1, r2}
    Tickers = {nvda, tsla}
    Workers = {w1}
    MaxRunning = 1
    MaxAutoRetries = 1
    PidReuse = TRUE
    MaxAttempts = 2
    MaxEvents = 2
    Pipeline <- OnePipeline
    None = None
SYMMETRY RunSymmetry
PROPERTIES ImplementsSchedule
CHECK_DEADLOCK FALSE
