------------------------------ MODULE DaemonProofs ------------------------------
(* Proofs about Daemon, for any protection, any injections, any queue and any      *)
(* number of commands.                                                             *)
EXTENDS Daemon, TLAPS

---------------------------------------------------------------------------------
(* main(), the command server and the runtime are taken down one after the other.  *)

Serving == {"loop", "signalled", "server_stop"}
Before == {"serve"} \cup Serving \cup {"server_join", "runtime_stop", "refuse"}

Order ==
    /\ main \in Before \cup {"await", "join", "drain", "exited"}
    /\ main = "serve" => server = "none"
    /\ main \in Serving => server = "up"
    /\ main = "server_join" => server = "stopping"
    /\ main \notin Serving \cup {"serve", "server_join"} => server = "down"
    /\ server \in {"none", "down"} => handler = "idle"
    /\ main \in Before => accepting_events_
    /\ shut <=> main \in {"drain", "exited"}
    /\ main = "exited" => pending = <<>>
    /\ main \in {"drain", "exited"} => sensor = "exited"

LEMMA OrderInit == Init => Order
  BY DEF Init, Order, Before, Serving

LEMMA OrderNext == Order /\ [Next]_vars => Order'
  <1> SUFFICES ASSUME Order, [Next]_vars PROVE Order'
    OBVIOUS
  <1> USE DEF Order, Before, Serving, pipeline, motor, task, mains, client
  <1>1. CASE UNCHANGED vars
    BY <1>1 DEF vars
  <1>2. CASE Control
    BY <1>2 DEF Control, Pipeline!Handle
  <1>3. CASE SensorStep
    BY <1>3 DEF SensorStep, SensorRead, SensorCheck, SensorPush, SensorExit, Refused,
                Pipeline!Accept, Pipeline!motor
  <1>4. CASE HandlerStep
    BY <1>4 DEF HandlerStep, ResetPublish, ResetSelfTest, ShutdownPublish, Published, Refused,
                Pipeline!Accept, Pipeline!motor
  <1>5. CASE MainServe \/ MainLoop \/ MainSignalled \/ ServerStop \/ ServerJoin
    BY <1>5 DEF MainServe, MainLoop, MainSignalled, ServerStop, ServerJoin, ServerJoined, Main,
                Published, Refused, Pipeline!Accept, Pipeline!motor
  <1>6. CASE RuntimeStop \/ RuntimeRefuse \/ RuntimeRequest \/ RuntimeClose \/ RuntimeDrained
    BY <1>6 DEF RuntimeStop, RuntimeRefuse, RuntimeRequest, RuntimeClose, RuntimeDrained, Drained,
                Main, Published, Refused, Pipeline!Accept, Pipeline!Shut, Pipeline!motor
  <1>7. CASE Signal
    BY <1>7 DEF Signal
  <1>8. CASE (\E s \in Injections : Inject(s)) \/ Clear \/ Reset \/ Shutdown
    BY <1>8 DEF Inject, Clear, Reset, Shutdown, Command
  <1>9. QED
    BY <1>1, <1>2, <1>3, <1>4, <1>5, <1>6, <1>7, <1>8 DEF Next, MainStep

LEMMA OrderInvariant == Spec => []Order
  BY OrderInit, OrderNext, PTL DEF Spec

\* The handler runs only while the runtime takes its events: main() joins the server's
\* thread before it stops the runtime, on every path to the exit.
THEOREM HandlerCorrect == Spec => []HandlerHasRuntime
  <1>1. Order => HandlerHasRuntime
    BY DEF Order, Before, Serving, HandlerHasRuntime
  <1>2. QED BY <1>1, OrderInvariant, PTL

---------------------------------------------------------------------------------
(* The shutdown that was answered ok.                                              *)

Queue == pending \in Seq(Machine!Events)

Samplers ==
    /\ override_ \in Injections \cup {NoSample}
    /\ sensor \in {"check", "push"} => hand \in Samples

\* The shutdown event waits in the queue or the machine has handled one.
Underway ==
    \/ state_ = "safe_shutdown"
    \/ \E i \in 1 .. Len(pending) : pending[i].kind = "shutdown_requested"

LEMMA EventTypes ==
  /\ \A k \in {"startup", "self_test_passed", "reset_requested", "shutdown_requested",
               "internal_fault"} :
        /\ Machine!EventOf(k) \in Machine!Events
        /\ Machine!EventOf(k).kind = k
  /\ \A s \in Samples : Machine!SampleEvent(s) \in Machine!Events
  BY DEF Machine!Events, Machine!EventOf

LEMMA AcceptKeeps ==
  ASSUME Queue, NEW e \in Machine!Events, Pipeline!Accept(e)
  PROVE  Queue' /\ (Underway \/ e.kind = "shutdown_requested" => Underway')
  <1>1. pending \in Seq(Machine!Events) /\ pending' = Append(pending, e) /\ state_' = state_
    BY DEF Queue, Pipeline!Accept, Pipeline!motor
  <1>2. /\ pending' \in Seq(Machine!Events)
        /\ Len(pending) \in Nat /\ Len(pending') = Len(pending) + 1
        /\ pending'[Len(pending) + 1] = e
        /\ \A i \in 1 .. Len(pending) : pending'[i] = pending[i]
    BY <1>1
  <1>3. /\ Len(pending) + 1 \in 1 .. Len(pending')
        /\ \A i \in 1 .. Len(pending) : i \in 1 .. Len(pending')
    BY <1>2
  <1>4. ASSUME NEW i \in 1 .. Len(pending), pending[i].kind = "shutdown_requested" PROVE Underway'
    BY <1>2, <1>3, <1>4 DEF Underway
  <1>5. e.kind = "shutdown_requested" => Underway'
    BY <1>2, <1>3 DEF Underway
  <1>6. QED BY <1>1, <1>2, <1>4, <1>5 DEF Underway, Queue

LEMMA HandleKeeps ==
  ASSUME Queue, Pipeline!Handle
  PROVE  Queue' /\ (Underway => Underway')
  <1>1. /\ pending \in Seq(Machine!Events) /\ pending # <<>> /\ pending' = Tail(pending)
        /\ Pipeline!Machine!handle(Head(pending))
    BY DEF Queue, Pipeline!Handle
  <1>2. /\ pending' \in Seq(Machine!Events) /\ Len(pending) \in Nat \ {0}
        /\ Head(pending) = pending[1] /\ Len(pending') = Len(pending) - 1
        /\ \A i \in 1 .. Len(pending) - 1 : pending'[i] = pending[i + 1]
    BY <1>1
  <1>3. CASE state_ = "safe_shutdown" \/ pending[1].kind = "shutdown_requested"
    <2>1. state_' = "safe_shutdown"
      BY <1>1, <1>2, <1>3
      DEF Pipeline!Machine!handle, Pipeline!Machine!unchanged, Pipeline!Machine!transition_to,
          Pipeline!Machine!Acts
    <2>2. QED BY <1>2, <2>1 DEF Underway, Queue
  <1>4. ASSUME NEW i \in 1 .. Len(pending), i # 1, pending[i].kind = "shutdown_requested"
        PROVE  Underway'
    <2>1. i - 1 \in 1 .. Len(pending') /\ pending'[i - 1] = pending[i]
      BY <1>2, <1>4
    <2>2. QED BY <1>4, <2>1 DEF Underway
  <1>5. QED BY <1>2, <1>3, <1>4 DEF Underway, Queue

Kept == Queue /\ Samplers /\ (promised => Underway)

LEMMA KeptSame ==
  ASSUME Kept, pending' = pending, state_' = state_, promised' = promised, Samplers'
  PROVE  Kept'
  BY DEF Kept, Queue, Underway

LEMMA KeptAccept ==
  ASSUME Kept, NEW e \in Machine!Events, Pipeline!Accept(e), Samplers',
         promised' = promised \/ e.kind = "shutdown_requested"
  PROVE  Kept'
  BY AcceptKeeps DEF Kept

LEMMA KeptPublish ==
  ASSUME Kept, Samplers',
         NEW k \in {"self_test_passed", "reset_requested", "shutdown_requested"},
         \/ Published(k) /\ (promised' = promised \/ k = "shutdown_requested")
         \/ Refused /\ promised' = promised
  PROVE  Kept'
  <1>1. CASE Published(k) /\ (promised' = promised \/ k = "shutdown_requested")
    BY <1>1, EventTypes, KeptAccept DEF Published
  <1>2. CASE Refused /\ promised' = promised
    BY <1>2, KeptSame DEF Refused, pipeline, motor
  <1>3. QED BY <1>1, <1>2

LEMMA SamplersNext == Samplers /\ [Next]_vars => Samplers'
  <1> SUFFICES ASSUME Samplers, [Next]_vars PROVE Samplers'
    OBVIOUS
  <1> USE DEF Samplers, Samples, task
  <1>1. CASE UNCHANGED vars
    BY <1>1 DEF vars
  <1>2. CASE Control \/ HandlerStep \/ MainStep \/ Signal
    <2>1. UNCHANGED <<override_, sensor, hand>>
      BY <1>2 DEF Control, HandlerStep, ResetPublish, ResetSelfTest, ShutdownPublish, MainStep,
                  MainServe, MainLoop, MainSignalled, ServerStop, ServerJoin, RuntimeStop,
                  RuntimeRefuse, RuntimeRequest, RuntimeClose, RuntimeDrained, Signal
    <2>2. QED BY <2>1
  <1>3. CASE SensorStep
    BY <1>3 DEF SensorStep, SensorRead, SensorCheck, SensorPush, SensorExit, Reading
  <1>4. CASE (\E s \in Injections : Inject(s)) \/ Clear \/ Reset \/ Shutdown
    BY <1>4 DEF Inject, Clear, Reset, ResetClears, Shutdown
  <1>5. QED BY <1>1, <1>2, <1>3, <1>4 DEF Next

LEMMA KeptNext == Kept /\ [Next]_vars => Kept'
  <1> SUFFICES ASSUME Kept, [Next]_vars PROVE Kept'
    OBVIOUS
  <1>1. Samplers'
    BY SamplersNext DEF Kept
  <1> USE <1>1 DEF pipeline, motor, client
  <1>2. CASE UNCHANGED vars
    BY <1>2, KeptSame DEF vars
  <1>3. CASE Control
    BY <1>3, HandleKeeps DEF Control, Kept
  <1>4. CASE SensorRead \/ SensorCheck \/ SensorExit
    BY <1>4, KeptSame DEF SensorRead, SensorCheck, SensorExit
  <1>5. CASE SensorPush
    <2>1. hand \in Samples /\ promised' = promised
      BY <1>5 DEF SensorPush, Kept, Samplers
    <2>2. CASE Pipeline!Accept(Machine!SampleEvent(hand))
      BY <2>1, <2>2, EventTypes, KeptAccept
    <2>3. CASE Refused
      BY <2>1, <2>3, KeptSame DEF Refused
    <2>4. QED BY <1>5, <2>2, <2>3 DEF SensorPush
  <1>6. CASE HandlerStep
    <2>1. CASE ResetPublish
      BY <2>1, KeptPublish DEF ResetPublish
    <2>2. CASE ResetSelfTest
      BY <2>2, KeptPublish DEF ResetSelfTest
    <2>3. CASE ShutdownPublish
      BY <2>3, KeptPublish DEF ShutdownPublish
    <2>4. QED BY <1>6, <2>1, <2>2, <2>3 DEF HandlerStep
  <1>7. CASE MainSignalled \/ RuntimeStop
    <2>1. promised' = promised
      BY <1>7 DEF MainSignalled, RuntimeStop
    <2>2. CASE Published("shutdown_requested") \/ Refused
      BY <2>1, <2>2, KeptPublish
    <2>3. CASE UNCHANGED pipeline
      BY <2>1, <2>3, KeptSame
    <2>4. QED BY <1>7, <2>2, <2>3 DEF MainSignalled, RuntimeStop
  <1>8. CASE RuntimeClose
    BY <1>8, KeptSame DEF RuntimeClose, Pipeline!Shut, Pipeline!motor
  <1>9. CASE \/ MainServe \/ MainLoop \/ ServerStop \/ ServerJoin
             \/ RuntimeRefuse \/ RuntimeRequest \/ RuntimeDrained
    BY <1>9, KeptSame DEF MainServe, MainLoop, ServerStop, ServerJoin, RuntimeRefuse,
                          RuntimeRequest, RuntimeDrained
  <1>10. CASE Signal \/ (\E s \in Injections : Inject(s)) \/ Clear \/ Reset \/ Shutdown
    BY <1>10, KeptSame DEF Signal, Inject, Clear, Reset, Shutdown
  <1>11. QED
    BY <1>2, <1>3, <1>4, <1>5, <1>6, <1>7, <1>8, <1>9, <1>10 DEF Next, SensorStep, MainStep

\* The daemon exits in safe_shutdown once it has answered ok=shutdown_requested: the event is
\* in the queue by then, and the queue is drained before main() returns.
THEOREM PromiseCorrect == Spec => []PromiseKept
  <1>1. Init => Kept
    <2> SUFFICES ASSUME Init PROVE Kept
      OBVIOUS
    <2>1. pending \in Seq(Machine!Events)
      BY EventTypes DEF Init
    <2>2. QED BY <2>1 DEF Init, Kept, Queue, Samplers
  <1>2. Order /\ Kept => PromiseKept
    BY DEF Order, Kept, Underway, PromiseKept
  <1>3. QED BY <1>1, <1>2, KeptNext, OrderInvariant, PTL DEF Spec
=================================================================================
