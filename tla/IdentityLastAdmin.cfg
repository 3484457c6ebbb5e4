\* Two administrators, no fault, transactions that read from their snapshot.
CONSTANTS
    Users = {a, b}
    Founders = {a, b}
    Requests = {q1, q2}
    MaxFaults = 0
    Snapshots = TRUE
    None = None
SPECIFICATION Spec
INVARIANT AnAdminRemains
CHECK_DEADLOCK FALSE
