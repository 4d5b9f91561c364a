\* Three threads, a ring of two slots, under fair scheduling.
CONSTANTS
    Threads = {t1, t2, t3}
    Values = {v1, v2, v3}
    NoValue = NoValue
    Capacity = 2
    MaxCalls = 5
SPECIFICATION FairSpec
INVARIANTS
    RingWindow
    SinglePlace
    StatsBalance
    NoLostWakeup
    NoSleeperMissesClose
PROPERTIES
    ImplementsFifo
    TimedCallsReturn
    CloseEndsCalls
\* A consumer may wait for a value that nobody pushes.
CHECK_DEADLOCK FALSE
