\* The gateway and one vendor, a run may end without a word on what is on probe.
CONSTANTS
    Gateway = gateway
    Breakers = {gateway, vendor}
    Runs = {r1, r2}
    MaxRunning = 2
    MaxSamples = 2
    Silence = TRUE
SPECIFICATION FairSpec
PROPERTY PauseIsTemporary
CHECK_DEADLOCK FALSE
