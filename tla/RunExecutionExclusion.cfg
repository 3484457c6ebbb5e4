\* "per-ticker exclusion", without the exception.
SPECIFICATION Spec
CONSTANTS
    Runs = {r1, r2}
    Tickers = {nvda}
    Workers = {w1, w2}
    MaxRunning = 2
    MaxAutoRetries = 0
    PidReuse = FALSE
    MaxAttempts = 2
    MaxEvents = 2
    Pipeline <- OnePipeline
    None = None
SYMMETRY Symmetry
INVARIANTS TickerExclusion
CHECK_DEADLOCK FALSE
