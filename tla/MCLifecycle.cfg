CONSTANTS
    Cleanup = cleanup
    Refresher = refresher
    RateCleanup = rate_cleanup
    MaxSignals = 2
    Requests = {r1, r2}
    Setups <- Setup

SPECIFICATION ProcessLiveSpec

INVARIANTS
    OrderlyExit

PROPERTIES
    TasksStop
    ShutdownCompletes

\* The process ends.
CHECK_DEADLOCK FALSE
