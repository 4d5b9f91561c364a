--------------------------------- MODULE Daemon ---------------------------------
(* apps/edge_sentinel_daemon.cpp and simulation/simulated_sensor.hpp: main(), the  *)
(* handler that the command server's thread runs, the simulated sensor with the    *)
(* injections it is given, and the sensor task that reads it, around the runtime's *)
(* event pipeline (EventPipeline, which EdgeRuntime implements).  The commands     *)
(* status and metrics change nothing and are left out.                             *)
EXTENDS Naturals, Sequences

CONSTANTS
    Protection,
    Capacity,       \* the event queue's; 128 in the code, with a pool of 256
    baseline_,      \* what the sensor shows without an injection
    Injections,     \* what a client may inject
    NoSample,
    MaxCommands     \* bound: commands the clients send

ASSUME CapacityAssumption == Capacity \in Nat /\ Capacity >= 2
ASSUME NoSampleAssumption == NoSample \notin Injections
ASSUME MaxCommandsAssumption == MaxCommands \in Nat

Samples == Injections \cup {baseline_}

VARIABLES
    pending, shut,
    state_, last_sample_, has_sample_, warning_count_, critical_count_,
    recovery_count_, offline_count_, transition,
    accepting_events_,
    override_,           \* of the sensor
    sensor, hand,        \* the sensor task and the sample it has read
    tasks_stop,          \* request_stop() on it
    main, stop_requested,
    server,              \* the command server: "none", "up", "stopping" or "down"
    handler,             \* where build_response() is
    commands,            \* counted against the bound
    promised,            \* a client was answered ok=shutdown_requested
    calm                 \* the last reset: "no", "clearing", or "yes": answered ok, sent in
                         \* fault_latched with no older one on its way, no injection since

Pipeline == INSTANCE EventPipeline
Machine == INSTANCE MotorStateMachine WITH config_ <- Protection, MaxWarningCount <- 0

motor == <<state_, last_sample_, has_sample_, warning_count_, critical_count_,
           recovery_count_, offline_count_, transition>>
pipeline == <<pending, shut, motor>>
task == <<sensor, hand, tasks_stop>>
mains == <<main, stop_requested, accepting_events_>>
client == <<handler, commands, promised, calm>>
vars == <<pipeline, override_, task, mains, server, client>>

\* main() after runtime.start(): the first two events are queued, the tasks run.
Init ==
    /\ Machine!Init
    /\ pending = <<Machine!EventOf("startup"), Machine!EventOf("self_test_passed")>>
    /\ shut = FALSE /\ accepting_events_ = TRUE
    /\ override_ = NoSample
    /\ sensor = "loop" /\ hand = NoSample /\ tasks_stop = FALSE
    /\ main = "serve" /\ stop_requested = FALSE /\ server = "none"
    /\ handler = "idle" /\ commands = 0 /\ promised = FALSE /\ calm = "no"

---------------------------------------------------------------------------------
(* The runtime.                                                                    *)

Control == Pipeline!Handle /\ UNCHANGED <<override_, task, mains, server, client>>

\* A publish() that fails: the queue is full for as long as the caller waits, or the
\* runtime accepts nothing.  The pool has room for the queue and every publisher.
Refused == (~accepting_events_ \/ Len(pending) >= Capacity) /\ UNCHANGED pipeline

\* publish() of main() and of the handler, which cannot run while accepting_events_ is
\* cleared: main() clears it itself, when the handler is gone.
Published(kind) == accepting_events_ /\ Pipeline!Accept(Machine!EventOf(kind))

\* Faulty variant: the baseline hides the injection.
ReadingBaseline == baseline_

\* SimulatedSensor::read().
Reading == IF override_ = NoSample THEN baseline_ ELSE override_

SensorRead ==
    /\ sensor = "loop" /\ ~tasks_stop
    /\ hand' = Reading
    /\ sensor' = "check"
    /\ UNCHANGED <<pipeline, override_, tasks_stop, mains, server, client>>

\* publish() of the sensor task looks at accepting_events_ first and pushes later.
SensorCheck ==
    /\ sensor = "check"
    /\ sensor' = IF accepting_events_ THEN "push" ELSE "loop"
    /\ hand' = IF accepting_events_ THEN hand ELSE NoSample
    /\ UNCHANGED <<pipeline, override_, tasks_stop, mains, server, client>>

SensorPush ==
    /\ sensor = "push"
    /\ Pipeline!Accept(Machine!SampleEvent(hand)) \/ Refused
    /\ sensor' = "loop" /\ hand' = NoSample
    /\ UNCHANGED <<override_, tasks_stop, mains, server, client>>

SensorExit ==
    /\ sensor = "loop" /\ tasks_stop
    /\ sensor' = "exited"
    /\ UNCHANGED <<pipeline, override_, hand, tasks_stop, mains, server, client>>

SensorStep == SensorRead \/ SensorCheck \/ SensorPush \/ SensorExit

---------------------------------------------------------------------------------
(* build_response(), one command at a time on the server's thread.  A server that  *)
(* is stopping may still take a command that was waiting.                          *)

Command ==
    /\ handler = "idle" /\ server \in {"up", "stopping"}
    /\ commands < MaxCommands
    /\ commands' = commands + 1

Inject(s) ==
    /\ Command
    /\ override_' = s
    /\ calm' = "no"
    /\ UNCHANGED <<pipeline, task, mains, server, handler, promised>>

Clear ==
    /\ Command
    /\ override_' = NoSample
    /\ UNCHANGED <<pipeline, task, mains, server, handler, promised, calm>>

\* Faulty variant: a reset leaves the injection in place.
ResetClearsNothing == UNCHANGED override_

ResetClears == override_' = NoSample

ResetPending == \E i \in 1 .. Len(pending) : pending[i].kind = "reset_requested"

Reset ==
    /\ Command
    /\ ResetClears
    /\ handler' = "reset"
    /\ calm' = IF state_ = "fault_latched" /\ ~ResetPending THEN "clearing" ELSE "no"
    /\ UNCHANGED <<pipeline, task, mains, server, promised>>

\* A failed first event does not keep the second from being sent.
ResetPublish ==
    /\ handler = "reset" /\ handler' = "self_test"
    /\ \/ Published("reset_requested") /\ UNCHANGED calm
       \/ Refused /\ calm' = "no"
    /\ UNCHANGED <<override_, task, mains, server, commands, promised>>

ResetSelfTest ==
    /\ handler = "self_test" /\ handler' = "idle"
    /\ \/ Published("self_test_passed") /\ calm' = (IF calm = "clearing" THEN "yes" ELSE calm)
       \/ Refused /\ calm' = "no"
    /\ UNCHANGED <<override_, task, mains, server, commands, promised>>

Shutdown ==
    /\ Command
    /\ handler' = "shutdown"
    /\ UNCHANGED <<pipeline, override_, task, mains, server, promised, calm>>

ShutdownPublish ==
    /\ handler = "shutdown" /\ handler' = "idle"
    /\ \/ Published("shutdown_requested") /\ promised' = TRUE
       \/ Refused /\ UNCHANGED promised
    /\ UNCHANGED <<override_, task, mains, server, commands, calm>>

HandlerStep == ResetPublish \/ ResetSelfTest \/ ShutdownPublish

---------------------------------------------------------------------------------
(* main(), with server.stop() and runtime.stop().                                  *)

Signal ==
    /\ main # "exited"
    /\ stop_requested' = TRUE
    /\ UNCHANGED <<pipeline, override_, task, main, accepting_events_, server, client>>

Main(from, to) == main = from /\ main' = to

\* The server starts, or its path is taken and the runtime is stopped at once.
MainServe ==
    /\ \/ Main("serve", "loop") /\ server' = "up"
       \/ Main("serve", "runtime_stop") /\ server' = "down"
    /\ UNCHANGED <<pipeline, override_, task, stop_requested, accepting_events_, client>>

\* Faulty variant: the state is not looked at.
StoppingBySignal == stop_requested

Stopping == stop_requested \/ state_ = "safe_shutdown"

MainLoop ==
    /\ Stopping
    /\ Main("loop", "signalled")
    /\ UNCHANGED <<pipeline, override_, task, stop_requested, accepting_events_, server, client>>

MainSignalled ==
    /\ Main("signalled", "server_stop")
    /\ IF stop_requested THEN Published("shutdown_requested") \/ Refused ELSE UNCHANGED pipeline
    /\ UNCHANGED <<override_, task, stop_requested, accepting_events_, server, client>>

ServerStop ==
    /\ Main("server_stop", "server_join")
    /\ server' = "stopping"
    /\ UNCHANGED <<pipeline, override_, task, stop_requested, accepting_events_, client>>

\* Faulty variant: the server's thread is not joined.
ServerJoinedUnchecked == TRUE

ServerJoined == handler = "idle"

ServerJoin ==
    /\ ServerJoined
    /\ Main("server_join", "runtime_stop")
    /\ server' = "down"
    /\ UNCHANGED <<pipeline, override_, task, stop_requested, accepting_events_, client>>

RuntimeStop ==
    /\ Main("runtime_stop", "refuse")
    /\ Published("shutdown_requested") \/ Refused
    /\ UNCHANGED <<override_, task, stop_requested, accepting_events_, server, client>>

RuntimeRefuse ==
    /\ Main("refuse", "await")
    /\ accepting_events_' = FALSE
    /\ UNCHANGED <<pipeline, override_, task, stop_requested, server, client>>

\* The wait for safe_shutdown ends after a second at the latest.
RuntimeRequest ==
    /\ Main("await", "join")
    /\ tasks_stop' = TRUE
    /\ UNCHANGED <<pipeline, override_, sensor, hand, stop_requested, accepting_events_, server,
                   client>>

RuntimeClose ==
    /\ sensor = "exited"
    /\ Main("join", "drain")
    /\ Pipeline!Shut
    /\ UNCHANGED <<override_, task, stop_requested, accepting_events_, server, client>>

\* Faulty variant: the control task is not joined.
DrainedUnchecked == TRUE

\* The control task leaves when the queue is closed and empty.
Drained == pending = <<>>

RuntimeDrained ==
    /\ Drained
    /\ Main("drain", "exited")
    /\ UNCHANGED <<pipeline, override_, task, stop_requested, accepting_events_, server, client>>

MainStep ==
    \/ MainServe \/ MainLoop \/ MainSignalled \/ ServerStop \/ ServerJoin
    \/ RuntimeStop \/ RuntimeRefuse \/ RuntimeRequest \/ RuntimeClose \/ RuntimeDrained

Next ==
    \/ Control \/ SensorStep \/ HandlerStep \/ MainStep \/ Signal
    \/ (\E s \in Injections : Inject(s)) \/ Clear \/ Reset \/ Shutdown

Spec == Init /\ [][Next]_vars

\* The threads are scheduled, and periods and deadlines pass.  Nothing makes a client
\* send a command or anybody send a signal.
FairSpec ==
    Spec /\ WF_vars(Control) /\ WF_vars(SensorStep) /\ WF_vars(HandlerStep) /\ WF_vars(MainStep)

---------------------------------------------------------------------------------
(* Properties.                                                                     *)

\* A command never meets a runtime that is being stopped: it is answered with an error
\* only when the queue is full, and the handler does not outlive what main() owns.
HandlerHasRuntime == handler # "idle" => accepting_events_ /\ ~shut /\ main # "exited"

\* The daemon that answered ok=shutdown_requested is in safe_shutdown when it exits,
\* also when main() gave up waiting and a signal or more commands came meanwhile.
PromiseKept == promised /\ main = "exited" => state_ = "safe_shutdown"

\* A signal, or a shutdown that was answered ok, ends the daemon, whatever the clients
\* and the sensor do and however full the queue is.
DaemonEnds == (stop_requested \/ promised) ~> main = "exited"

\* An injection that stays takes the motor out of operation while the daemon runs,
\* although the queue may be full when the sensor task publishes.
InjectionActs ==
    \A s \in Injections :
        override_ = s ~> (override_ # s \/ state_ \notin Machine!Active \/ main # "loop")

\* A reset that is sent in fault_latched and answered ok leads to healthy and stays
\* there, as long as nothing is injected: the one sample of the old injection that the
\* sensor task may still hold when it is cleared does not latch the fault again.
ResetRecovers == <>[](calm = "yes" /\ main = "loop") => <>[](state_ = "healthy")
=================================================================================
