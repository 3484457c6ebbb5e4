\* Two runs at the gate, one worker and two horizons, two senders, two breakers.
CONSTANTS
    Runs = {r1, r2}
    Pollers = {p1}
    MaxCrashes = 2
    None = None
    Targeted = {r1}
    Workers = {w1}
    MaxRunningValidation = 1
    Webhooks = {hook}
    RunEvents = {e1}
    Senders = {s1, s2}
    MaxAttempts = 2
    MaxLapses = 1
    Gateway = gateway
    Breakers = {gateway, vendor}
    MaxRunning = 2
    MaxSamples = 1
    Silence = FALSE
SPECIFICATION ServicesSpec
INVARIANTS
    TypeOK
    GateAgrees
    ReadyIsVerified
    WriterHoldsClaim
    ServicesTypeOK
    DeliveredIsAccepted
    ProbeIsAlone
PROPERTIES
    SettledIsFinal
    WaitingIsDecided
    ResultsStand
    JobsGoOn
    EventIsSettled
    PauseIsTemporary
CHECK_DEADLOCK FALSE
