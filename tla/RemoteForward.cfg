SPECIFICATION Spec
CONSTANTS
    NRules = 3
    Source <- MC_Source
    MaxRpf = 6
    MaxConf = 3
    MaxOpen = 2
CHECK_DEADLOCK FALSE
INVARIANTS RecordsAgree ServerAgrees GentleIsSafe
PROPERTY CancelledIsRejected
