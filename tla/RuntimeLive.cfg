\* Two clients, under fair scheduling.
CONSTANTS
    Clients = {c1, c2}
    ClientEvents = {"reset_requested"}
    Control = Control
    Sensor = Sensor
    Monitor = Monitor
    Slots = {s1, s2}
    NoSlot = NoSlot
    QueueCapacity = 1
    Protection <- ShortRuns
    Samples <- CriticalSample
    MaxPublish = 1
    MaxReadings = 1
    MaxTicks = 0
SPECIFICATION FairSpec
PROPERTIES
    StopReturns
    LeavesBooting
    QueuedEventsComplete
\* The program ends when stop() has returned and the bounds are reached.
CHECK_DEADLOCK FALSE
