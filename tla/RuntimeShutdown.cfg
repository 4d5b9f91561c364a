\* Two clients that start, stop and publish at any time, a queue of one event and a
\* pool of two, so that both run out.
CONSTANTS
    Clients = {c1, c2}
    ClientEvents = {"reset_requested"}
    Control = Control
    Sensor = Sensor
    Monitor = Monitor
    Slots = {s1, s2}
    NoSlot = NoSlot
    QueueCapacity = 1
    Protection <- ShortRuns
    Samples <- CriticalSample
    MaxPublish = 2
    MaxReadings = 2
    MaxTicks = 1
SPECIFICATION Spec
INVARIANT StopReachesSafeShutdown
\* The program ends when stop() has returned and the bounds are reached.
CHECK_DEADLOCK FALSE
