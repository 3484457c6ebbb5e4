\* One call of the gateway under a timeout; one instrument and two enrichers.
CONSTANTS
    None = None
    Transports = {t1, t2, t3}
    Calls = {call1}
    Timeouts = TRUE
    Instruments = {i1}
    Filings <- OneTicker
    Exchanges = {None, "NYSE"}
    MaxScan = 1
    MaxChanges = 1
SPECIFICATION UpstreamsSpec
INVARIANTS
    ReadyOrQuiet
    NoWaiterIsStranded
PROPERTIES
    OutcomeIsKept
    NamesAreKept
    UpstreamsGoOn
CHECK_DEADLOCK FALSE
