------------------------------ MODULE EdgeRuntime ------------------------------
(* runtime/edge_runtime.hpp and runtime/runtime_metrics.hpp: the control, sensor *)
(* and monitor tasks, the callers of start(), stop() and publish(), and the      *)
(* event pipeline between them.                                                  *)
(*                                                                               *)
(* The pipeline is composed of what its parts promise: the event pool is an      *)
(* ObjectPool (implemented by FixedObjectPool), the event queue a Fifo           *)
(* (implemented by BoundedQueue) and machine_ a MotorStateMachine.  A step is a  *)
(* critical section of one of their mutexes, or an access to one atomic.         *)
EXTENDS Naturals, Sequences, FiniteSets

CONSTANTS
    Clients,         \* threads that call start(), stop() and publish()
    ClientEvents,    \* kinds of event they publish
    Control, Sensor, Monitor,
    Slots,           \* the event pool's slots
    NoSlot,          \* an empty Handle
    QueueCapacity,
    Protection,      \* config_.protection
    Samples,
    MaxPublish,      \* bound: publish() calls of the clients
    MaxReadings,     \* bound: samples the sensor task reads
    MaxTicks         \* bound: monitor periods

Tasks == {Control, Sensor, Monitor}
Threads == Clients \cup Tasks
Publishers == Clients \cup {Sensor}

ASSUME ThreadsAssumption ==
    /\ IsFiniteSet(Clients)
    /\ Clients \cap Tasks = {}
    /\ Control # Sensor /\ Control # Monitor /\ Sensor # Monitor
ASSUME SlotsAssumption == IsFiniteSet(Slots) /\ NoSlot \notin Slots
ASSUME EventsAssumption ==
    ClientEvents \subseteq {"startup", "self_test_passed", "reset_requested",
                           "shutdown_requested", "internal_fault"}
ASSUME QueueAssumption == QueueCapacity \in Nat \ {0}
ASSUME BoundAssumption == MaxPublish \in Nat /\ MaxReadings \in Nat /\ MaxTicks \in Nat

VARIABLES
    live, failures, event,      \* pool_, and the event in each slot
    items, closed, got,         \* queue_, and the handle the control task holds
    state_, last_sample_, has_sample_, warning_count_, critical_count_,
    recovery_count_, offline_count_, transition,                     \* machine_
    events_published, events_processed, events_dropped,
    transitions, monitor_ticks,                                \* metrics_
    lifecycle_mutex_, started_, stopped_, accepting_events_, running_,
    stop_requested,    \* request_stop() on the sensor and monitor tasks
    pc,                \* where each thread is, apart from publish()
    pub, msg, hold,    \* publish() of each publisher: position, argument, handle
    shutdown_result,   \* what stop()'s publish() returned, which stop() ignores
    published, readings   \* counted against the bounds

Pool == INSTANCE ObjectPool
Queue == INSTANCE Fifo WITH
    Threads <- {Control}, Values <- Slots, Capacity <- QueueCapacity, NoValue <- NoSlot
Machine == INSTANCE MotorStateMachine WITH config_ <- Protection, MaxWarningCount <- 0

\* What publish() returns; wait_push never returns full.
PublishResult == {"published", "not_running", "pool_exhausted", "queue_timeout", "queue_closed"}

EventOf(kind) == Machine!EventOf(kind)
Blank == EventOf("startup")    \* Event's default member initializers

poolVars == <<live, failures, event>>
queueVars == <<items, closed, got>>
machineVars == <<state_, last_sample_, has_sample_, warning_count_, critical_count_,
                 recovery_count_, offline_count_, transition>>
metrics == <<events_published, events_processed, events_dropped, transitions, monitor_ticks>>
flags == <<lifecycle_mutex_, started_, stopped_, accepting_events_, running_, stop_requested>>
publishVars == <<pub, msg, hold, shutdown_result>>
bounds == <<published, readings>>
vars == <<poolVars, queueVars, machineVars, metrics, flags, pc, publishVars, bounds>>

Init ==
    /\ Pool!Init /\ event = [s \in Slots |-> Blank]
    /\ Queue!Init
    /\ Machine!Init
    /\ events_published = 0 /\ events_processed = 0 /\ events_dropped = 0
    /\ transitions = 0 /\ monitor_ticks = 0
    /\ lifecycle_mutex_ = FALSE /\ started_ = FALSE /\ stopped_ = FALSE
    /\ accepting_events_ = FALSE /\ running_ = FALSE /\ stop_requested = FALSE
    /\ pc = [t \in Threads |-> IF t \in Clients THEN "idle" ELSE "off"]
    /\ pub = [t \in Publishers |-> "none"]
    /\ msg = [t \in Publishers |-> Blank]
    /\ hold = [t \in Publishers |-> NoSlot]
    /\ shutdown_result = "none"
    /\ published = 0 /\ readings = 0

---------------------------------------------------------------------------------
(* publish(), called by clients, by start() and stop(), and by the sensor task.  *)

\* The call, up to its first step.
CallPublish(t, e) ==
    /\ pub' = [pub EXCEPT ![t] = "check"]
    /\ msg' = [msg EXCEPT ![t] = e]

At(t, where, next) ==
    /\ pub[t] = where
    /\ pub' = [pub EXCEPT ![t] = next]

\* The call returns; stop() is the one caller whose result matters later.
Returns(t, result) ==
    /\ msg' = [msg EXCEPT ![t] = Blank]
    /\ shutdown_result' = IF pc[t] = "stop_publish" THEN result ELSE shutdown_result

others == <<events_processed, transitions, monitor_ticks>>

\* Faulty variant: a publication is counted as a drop.
record_published_as_drop ==
    events_dropped' = events_dropped + 1 /\ UNCHANGED <<events_published, others>>

record_published ==
    events_published' = events_published + 1 /\ UNCHANGED <<events_dropped, others>>
record_dropped ==
    events_dropped' = events_dropped + 1 /\ UNCHANGED <<events_published, others>>

\* Faulty variant: the slot is forgotten.
ReleaseForgets(s) == UNCHANGED poolVars

\* A handle's destructor: the slot goes back to the pool.
Release(s) == Pool!Destroy(s) /\ event' = [event EXCEPT ![s] = Blank]

PublishRefused(t) ==
    /\ ~accepting_events_
    /\ At(t, "check", "none")
    /\ Returns(t, "not_running")
    /\ UNCHANGED <<poolVars, queueVars, machineVars, metrics, flags, pc, hold, bounds>>

PublishAccepted(t) ==
    /\ accepting_events_
    /\ At(t, "check", "create")
    /\ UNCHANGED <<poolVars, queueVars, machineVars, metrics, flags, pc, msg, hold,
                   shutdown_result, bounds>>

PublishCreate(t) ==
    /\ \E s \in Slots :
          /\ Pool!Create(s)
          /\ event' = [event EXCEPT ![s] = msg[t]]
          /\ hold' = [hold EXCEPT ![t] = s]
    /\ At(t, "create", "push")
    /\ UNCHANGED <<queueVars, machineVars, metrics, flags, pc, msg, shutdown_result, bounds>>

PublishExhausted(t) ==
    /\ Pool!Exhausted
    /\ At(t, "create", "none")
    /\ record_dropped
    /\ Returns(t, "pool_exhausted")
    /\ UNCHANGED <<event, queueVars, machineVars, flags, pc, hold, bounds>>

PublishPush(t) ==
    /\ At(t, "push", "record")
    /\ Queue!Push(hold[t])
    /\ hold' = [hold EXCEPT ![t] = NoSlot]
    /\ UNCHANGED <<poolVars, machineVars, metrics, flags, pc, msg, shutdown_result, bounds>>

\* wait_push gives up: the deadline passed with the queue full, or it was closed.
PublishGivesUp(t) ==
    /\ \/ ~closed /\ Len(items) = QueueCapacity /\ At(t, "push", "timeout")
       \/ closed /\ At(t, "push", "closed")
    /\ UNCHANGED <<poolVars, queueVars, machineVars, metrics, flags, pc, msg, hold,
                   shutdown_result, bounds>>

\* Faulty variant: the event counts as published although the deadline passed.
TimeoutResultIgnored == "published"

TimeoutResult == "queue_timeout"

\* The refused handle is destroyed with wait_push's parameter, then record_dropped.
PublishDrop(t) ==
    /\ \/ At(t, "timeout", "none") /\ Returns(t, TimeoutResult)
       \/ At(t, "closed", "none") /\ Returns(t, "queue_closed")
    /\ Release(hold[t])
    /\ hold' = [hold EXCEPT ![t] = NoSlot]
    /\ record_dropped
    /\ UNCHANGED <<queueVars, machineVars, flags, pc, bounds>>

\* record_published comes after the push: the event may already be processed.
PublishRecord(t) ==
    /\ At(t, "record", "none")
    /\ record_published
    /\ Returns(t, "published")
    /\ UNCHANGED <<poolVars, queueVars, machineVars, flags, pc, hold, bounds>>

PublishStep(t) ==
    \/ PublishRefused(t) \/ PublishAccepted(t) \/ PublishCreate(t) \/ PublishExhausted(t)
    \/ PublishPush(t) \/ PublishGivesUp(t) \/ PublishDrop(t) \/ PublishRecord(t)

---------------------------------------------------------------------------------
(* The clients.  A call of publish() ends when pub is "none" again.              *)

Goto(t, where, next) ==
    /\ pc[t] = where
    /\ pc' = [pc EXCEPT ![t] = next]

Publish(c, e) ==
    /\ published < MaxPublish
    /\ published' = published + 1
    /\ pc[c] = "idle" /\ pub[c] = "none"
    /\ CallPublish(c, e)
    /\ UNCHANGED <<poolVars, queueVars, machineVars, metrics, flags, pc, hold,
                   shutdown_result, readings>>

\* Faulty variant: events are not accepted yet when start() publishes.
AcceptEventsLater == UNCHANGED accepting_events_

AcceptEvents == accepting_events_' = TRUE

\* start() to its first publish(); a second start() returns false and changes nothing.
Start(c) ==
    /\ ~lifecycle_mutex_ /\ ~started_ /\ pub[c] = "none"
    /\ lifecycle_mutex_' = TRUE
    /\ started_' = TRUE
    /\ AcceptEvents
    /\ running_' = TRUE
    /\ pc[c] = "idle"
    /\ pc' = [pc EXCEPT ![c] = "start_startup", ![Control] = "wait"]
    /\ CallPublish(c, EventOf("startup"))
    /\ UNCHANGED <<poolVars, queueVars, machineVars, metrics, stopped_, stop_requested,
                   hold, shutdown_result, bounds>>

StartSelfTest(c) ==
    /\ pub[c] = "none"
    /\ Goto(c, "start_startup", "start_self_test")
    /\ CallPublish(c, EventOf("self_test_passed"))
    /\ UNCHANGED <<poolVars, queueVars, machineVars, metrics, flags, hold,
                   shutdown_result, bounds>>

StartTasks(c) ==
    /\ pub[c] = "none"
    /\ pc[c] = "start_self_test"
    /\ pc' = [pc EXCEPT ![c] = "idle", ![Sensor] = "loop", ![Monitor] = "period"]
    /\ lifecycle_mutex_' = FALSE
    /\ UNCHANGED <<poolVars, queueVars, machineVars, metrics, started_, stopped_,
                   accepting_events_, running_, stop_requested, publishVars, bounds>>

\* stop() to its publish(); a call before start() or after another stop() returns
\* at once and changes nothing.
Stop(c) ==
    /\ ~lifecycle_mutex_ /\ started_ /\ ~stopped_ /\ pub[c] = "none"
    /\ stopped_' = TRUE
    /\ Goto(c, "idle", "stop_publish")
    /\ CallPublish(c, EventOf("shutdown_requested"))
    /\ UNCHANGED <<poolVars, queueVars, machineVars, metrics, lifecycle_mutex_, started_,
                   accepting_events_, running_, stop_requested, hold, shutdown_result, bounds>>

StopRefuseEvents(c) ==
    /\ pub[c] = "none"
    /\ Goto(c, "stop_publish", "stop_await")
    /\ accepting_events_' = FALSE
    /\ UNCHANGED <<poolVars, queueVars, machineVars, metrics, lifecycle_mutex_, started_,
                   stopped_, running_, stop_requested, publishVars, bounds>>

\* Faulty variant: the tasks are joined without having been asked to stop.
RequestForgotten == UNCHANGED stop_requested

Request == stop_requested' = TRUE

\* The wait ends when the machine is in safe_shutdown or when its second is over,
\* which may be at any time; then the tasks are asked to stop.
StopRequest(c) ==
    /\ Goto(c, "stop_await", "stop_join")
    /\ Request
    /\ UNCHANGED <<poolVars, queueVars, machineVars, metrics, lifecycle_mutex_, started_,
                   stopped_, accepting_events_, running_, publishVars, bounds>>

StopClose(c) ==
    /\ pc[Sensor] = "exited" /\ pc[Monitor] = "exited"
    /\ Goto(c, "stop_join", "stop_drain")
    /\ Queue!Close
    /\ UNCHANGED <<poolVars, machineVars, metrics, flags, publishVars, bounds>>

\* Faulty variant: the control task is not joined.
ControlJoinedUnchecked == TRUE

ControlJoined == pc[Control] = "exited"

StopFinish(c) ==
    /\ ControlJoined
    /\ Goto(c, "stop_drain", "idle")
    /\ running_' = FALSE
    /\ UNCHANGED <<poolVars, queueVars, machineVars, metrics, lifecycle_mutex_, started_,
                   stopped_, accepting_events_, stop_requested, publishVars, bounds>>

LifecycleStep(c) ==
    \/ StartSelfTest(c) \/ StartTasks(c) \/ StopRefuseEvents(c) \/ StopRequest(c)
    \/ StopClose(c) \/ StopFinish(c)

---------------------------------------------------------------------------------
(* The tasks.                                                                    *)

SensorRead ==
    /\ ~stop_requested
    /\ Goto(Sensor, "loop", "publish")
    /\ \E s \in Samples : CallPublish(Sensor, Machine!SampleEvent(s))
    /\ readings' = readings + 1
    /\ UNCHANGED <<poolVars, queueVars, machineVars, metrics, flags, hold, shutdown_result,
                   published>>

SensorWait ==
    /\ pub[Sensor] = "none"
    /\ Goto(Sensor, "publish", "period")
    /\ UNCHANGED <<poolVars, queueVars, machineVars, metrics, flags, publishVars, bounds>>

SensorPeriod ==
    /\ ~stop_requested /\ readings < MaxReadings
    /\ Goto(Sensor, "period", "loop")
    /\ UNCHANGED <<poolVars, queueVars, machineVars, metrics, flags, publishVars, bounds>>

SensorExit ==
    /\ stop_requested
    /\ Goto(Sensor, "loop", "exited") \/ Goto(Sensor, "period", "exited")
    /\ UNCHANGED <<poolVars, queueVars, machineVars, metrics, flags, publishVars, bounds>>

MonitorTick ==
    /\ ~stop_requested /\ pc[Monitor] = "period" /\ monitor_ticks < MaxTicks
    /\ monitor_ticks' = monitor_ticks + 1
    /\ UNCHANGED <<poolVars, queueVars, machineVars, events_published, events_processed,
                   events_dropped, transitions, flags, pc, publishVars, bounds>>

MonitorExit ==
    /\ stop_requested
    /\ Goto(Monitor, "period", "exited")
    /\ UNCHANGED <<poolVars, queueVars, machineVars, metrics, flags, publishVars, bounds>>

ControlPop ==
    /\ Goto(Control, "wait", "handle")
    /\ Queue!Pop(Control)
    /\ UNCHANGED <<poolVars, machineVars, metrics, flags, publishVars, bounds>>

\* Faulty variant: the control task leaves as soon as the queue is closed.
DrainedUnchecked == TRUE

Drained == items = <<>>

\* wait_pop returns nullopt when the queue is closed and drained.
ControlExit ==
    /\ closed /\ Drained
    /\ Goto(Control, "wait", "exited")
    /\ UNCHANGED <<poolVars, queueVars, machineVars, metrics, flags, publishVars, bounds>>

\* Faulty variant: events that arrive while stopping are discarded.
DispatchDiscards(e) == IF accepting_events_ THEN Machine!handle(e) ELSE UNCHANGED machineVars

Dispatch(e) == Machine!handle(e)

ControlHandle ==
    /\ Goto(Control, "handle", "record")
    /\ Dispatch(event[got[Control]])
    /\ UNCHANGED <<poolVars, queueVars, metrics, flags, publishVars, bounds>>

ControlRecord ==
    /\ Goto(Control, "record", "release")
    /\ events_processed' = events_processed + 1
    /\ transitions' = transitions + (IF transition.changed THEN 1 ELSE 0)
    /\ UNCHANGED <<poolVars, queueVars, machineVars, events_published, events_dropped,
                   monitor_ticks, flags, publishVars, bounds>>

\* The end of the loop body destroys event_handle.
ControlRelease ==
    /\ Goto(Control, "release", "wait")
    /\ Release(got[Control])
    /\ Queue!Return(Control)
    /\ UNCHANGED <<machineVars, metrics, flags, publishVars, bounds>>

ControlStep == ControlPop \/ ControlExit \/ ControlHandle \/ ControlRecord \/ ControlRelease
SensorStep == SensorRead \/ SensorWait \/ SensorPeriod \/ SensorExit
MonitorStep == MonitorTick \/ MonitorExit

Next ==
    \/ \E c \in Clients :
          \/ \E k \in ClientEvents : Publish(c, EventOf(k))
          \/ Start(c) \/ Stop(c)
          \/ LifecycleStep(c)
    \/ \E t \in Publishers : PublishStep(t)
    \/ ControlStep \/ SensorStep \/ MonitorStep

Spec == Init /\ [][Next]_vars

\* Every thread that can run is scheduled, and deadlines and periods pass.  Nothing
\* makes a client call start(), stop() or publish().
Fairness ==
    /\ \A c \in Clients : WF_vars(LifecycleStep(c))
    /\ \A t \in Publishers : WF_vars(PublishStep(t))
    /\ WF_vars(ControlStep) /\ WF_vars(SensorStep) /\ WF_vars(MonitorStep)

FairSpec == Spec /\ Fairness

---------------------------------------------------------------------------------
(* Properties.                                                                   *)

Queued == {items[i] : i \in 1 .. Len(items)}
Held == {hold[t] : t \in Publishers}

\* Each event alive in the pool has one owner, a publisher, the queue or the control
\* task, and what they own is alive: whichever way publish() ends and however stop()
\* interleaves with it, no slot leaks and none is freed twice.
OneOwner ==
    /\ live = (Queued \cup Held \cup {got[Control]}) \ {NoSlot}
    /\ Queued \cap (Held \cup {got[Control]}) = {}
    /\ got[Control] # NoSlot => got[Control] \notin Held
    /\ \A i, j \in 1 .. Len(items) : items[i] = items[j] => i = j
    /\ \A t, u \in Publishers : hold[t] = hold[u] /\ hold[t] # NoSlot => t = u

StopReturned == stopped_ /\ ~running_

\* When stop() has returned the tasks are joined, the queue is closed and drained
\* and the pool is empty, but for publishers that were let in before stop() and have
\* not yet seen that the queue is closed.
StoppedIsQuiet ==
    StopReturned =>
        /\ closed /\ items = <<>> /\ ~accepting_events_
        /\ \A t \in Tasks : pc[t] = "exited"
        /\ live = Held \ {NoSlot}
        /\ \A t \in Publishers : pub[t] # "none" => t \in Clients

\* A shutdown event that was queued is honoured before stop() returns, although
\* stop() may give up waiting for it and close the queue first.
ShutdownHonoured ==
    StopReturned /\ shutdown_result = "published" => state_ = "safe_shutdown"

\* The events in the pipeline, oldest first.
Pending ==
    (IF pc[Control] = "handle" THEN <<event[got[Control]]>> ELSE <<>>)
    \o [i \in 1 .. Len(items) |-> event[items[i]]]

Pipeline == INSTANCE EventPipeline WITH
    Capacity <- QueueCapacity, pending <- Pending, shut <- closed

\* The pool, the queue and the tasks together are an EventPipeline: the event in a slot
\* stays what it was while handles to it are moved from thread to thread, and is handled
\* once and in its turn, also while stop() closes the queue.
IsPipeline == Pipeline!Spec

\* The counters account for every event: what was pushed and not yet counted as
\* published is in a publisher between wait_push and record_published, what was
\* pushed and not yet counted as processed is queued or in the control task.
EventsAccounted ==
    events_published + Cardinality({t \in Publishers : pub[t] = "record"})
        = events_processed + Len(items) + (IF pc[Control] \in {"handle", "record"} THEN 1 ELSE 0)

\* tests/runtime_test.cpp:70: after stop() the machine is in safe_shutdown.
StopReachesSafeShutdown == StopReturned => state_ = "safe_shutdown"

\* stop() returns: the drain, the joins and its own publish() all end, also when
\* the queue is full and other threads keep publishing.
StopReturns == stopped_ ~> ~running_

\* An event that was queued is handled and its slot comes back, also when the queue
\* is closed meanwhile.
QueuedEventsComplete == \A s \in Slots : s \in Queued ~> s \notin live

\* As long as no other client publishes, as in the applications, the startup event
\* arrives and the machine leaves booting, whoever else calls start() or stop().
LeavesBooting == started_ ~> state_ # "booting" \/ published > 0
=================================================================================
