-------------------------- MODULE EventPipelineProofs --------------------------
(* Proofs that EdgeRuntime implements EventPipeline and honours the shutdown event  *)
(* of stop(), from the ownership of the slots that EdgeRuntimeProofs establishes.   *)
EXTENDS EdgeRuntimeProofs, SequenceTheorems

---------------------------------------------------------------------------------
(* The events themselves.                                                          *)

Messages == msg \in [Publishers -> Machine!Events] /\ event \in [Slots -> Machine!Events]

LEMMA EventTypes ==
  /\ \A k \in {"startup", "self_test_passed", "reset_requested", "shutdown_requested",
               "internal_fault"} : EventOf(k) \in Machine!Events
  /\ \A k \in ClientEvents : EventOf(k) \in Machine!Events
  /\ \A x \in Samples : Machine!SampleEvent(x) \in Machine!Events
  /\ Blank \in Machine!Events
  BY EventsAssumption DEF EventOf, Machine!Events, Blank

LEMMA MessagesInit == Init => Messages
  BY EventTypes DEF Init, Messages

LEMMA MessagesNext == Messages /\ [Next]_vars => Messages'
  <1> SUFFICES ASSUME Messages, [Next]_vars PROVE Messages'
    OBVIOUS
  <1> USE EventTypes, Distinct DEF Messages, poolVars, publishVars
  <1>1. CASE UNCHANGED vars
    BY <1>1 DEF vars
  <1>2. ASSUME NEW t \in Publishers, PublishStep(t) PROVE Messages'
    <2>1. CASE PublishRefused(t) \/ PublishAccepted(t) \/ PublishExhausted(t) \/ PublishRecord(t)
      BY <2>1 DEF PublishRefused, PublishAccepted, PublishExhausted, PublishRecord, Returns
    <2>2. CASE PublishCreate(t)
      BY <2>2 DEF PublishCreate
    <2>3. CASE PublishPush(t) \/ PublishGivesUp(t)
      BY <2>3 DEF PublishPush, PublishGivesUp
    <2>4. CASE PublishDrop(t)
      BY <2>4 DEF PublishDrop, Returns, Release
    <2>5. QED BY <1>2, <2>1, <2>2, <2>3, <2>4 DEF PublishStep
  <1>3. ASSUME NEW c \in Clients, NEW k \in ClientEvents, Publish(c, EventOf(k)) PROVE Messages'
    BY <1>3 DEF Publish, CallPublish
  <1>4. ASSUME NEW c \in Clients, Start(c) \/ Stop(c) \/ StartSelfTest(c) PROVE Messages'
    BY <1>4 DEF Start, Stop, StartSelfTest, CallPublish
  <1>5. ASSUME NEW c \in Clients,
               \/ StartTasks(c) \/ StopRefuseEvents(c) \/ StopRequest(c)
               \/ StopClose(c) \/ StopFinish(c)
        PROVE  Messages'
    BY <1>5 DEF StartTasks, StopRefuseEvents, StopRequest, StopClose, StopFinish
  <1>6. CASE ControlStep
    BY <1>6 DEF ControlStep, ControlPop, ControlExit, ControlHandle, ControlRecord,
                ControlRelease, Release
  <1>7. CASE SensorStep
    BY <1>7 DEF SensorStep, SensorRead, SensorWait, SensorPeriod, SensorExit, CallPublish
  <1>8. CASE MonitorStep
    BY <1>8 DEF MonitorStep, MonitorTick, MonitorExit
  <1>9. QED
    BY <1>1, <1>2, <1>3, <1>4, <1>5, <1>6, <1>7, <1>8 DEF Next, LifecycleStep

Structure == Lifecycle /\ Owners /\ OneOwner /\ Messages

LEMMA StructureInvariant == Spec => []Structure
  <1>1. Spec => []Messages
    BY MessagesInit, MessagesNext, PTL DEF Spec
  <1>2. QED BY <1>1, OwnersInvariant, PTL DEF Structure

---------------------------------------------------------------------------------
(* The pipeline.                                                                   *)

LEMMA PushBehind ==
  ASSUME NEW E, NEW e \in E, NEW q \in Seq(E), NEW x \in E
  PROVE  /\ Append(<<e>> \o q, x) = <<e>> \o Append(q, x)
         /\ Len(<<e>> \o q) = Len(q) + 1 /\ Len(q) \in Nat
         /\ Append(q, x) \in Seq(E) /\ <<>> \o q = q
  OBVIOUS

\* The events of the slots in the queue.
Waiting == [i \in 1 .. Len(items) |-> event[items[i]]]

LEMMA WaitingTypes ==
  ASSUME Structure
  PROVE  /\ items \in Seq(Slots) /\ Len(items) \in Nat
         /\ Waiting \in Seq(Machine!Events) /\ Len(Waiting) = Len(items)
         /\ \A i \in 1 .. Len(items) : items[i] \in Slots /\ Waiting[i] = event[items[i]]
  <1>1. items \in Seq(Slots)
    BY DEF Structure, Owners
  <1>2. /\ Len(items) \in Nat
        /\ \A i \in 1 .. Len(items) : items[i] \in Slots /\ event[items[i]] \in Machine!Events
    BY QueuedSlots DEF Structure, Messages
  <1>3. QED BY <1>1, <1>2 DEF Waiting

LEMMA PendingForms ==
  ASSUME Structure
  PROVE  /\ pc[Control] = "handle" => /\ got[Control] \in Slots
                                     /\ event[got[Control]] \in Machine!Events
                                     /\ Pending = <<event[got[Control]]>> \o Waiting
         /\ pc[Control] # "handle" => Pending = Waiting
         /\ Pending \in Seq(Machine!Events)
  <1>1. Waiting \in Seq(Machine!Events)
    BY WaitingTypes
  <1>2. ASSUME pc[Control] = "handle"
        PROVE  /\ got[Control] \in Slots /\ event[got[Control]] \in Machine!Events
               /\ Pending = <<event[got[Control]]>> \o Waiting
    BY <1>2 DEF Structure, Owners, Messages, Handling, Pending, Waiting
  <1>3. ASSUME pc[Control] # "handle" PROVE Pending = Waiting
    <2>1. Pending = <<>> \o Waiting
      BY <1>3 DEF Pending, Waiting
    <2>2. QED BY <1>1, <2>1
  <1> HIDE DEF Pending, Waiting
  <1>4. Pending \in Seq(Machine!Events)
    <2>1. CASE pc[Control] = "handle"
      <3>1. <<event[got[Control]]>> \in Seq(Machine!Events)
        BY <1>2, <2>1
      <3>2. QED BY <1>1, <1>2, <2>1, <3>1, ConcatProperties
    <2>2. QED BY <1>1, <1>3, <2>1
  <1>5. QED BY <1>2, <1>3, <1>4

\* A slot that is neither queued nor about to be handled may change.
LEMMA PendingSame ==
  ASSUME Structure, items' = items, got' = got, pc'[Control] = "handle" <=> pc[Control] = "handle",
         \A s \in Queued : event'[s] = event[s],
         pc[Control] = "handle" => event'[got[Control]] = event[got[Control]]
  PROVE  Pending' = Pending
  <1>1. \A i \in 1 .. Len(items) : event'[items[i]] = event[items[i]]
    BY DEF Queued
  <1>2. Waiting' = Waiting
    BY <1>1 DEF Waiting
  <1>3. QED BY <1>2 DEF Pending, Waiting

LEMMA PendingPush ==
  ASSUME Structure, NEW t \in Publishers, PublishPush(t)
  PROVE  /\ hold[t] \in Slots /\ event[hold[t]] \in Machine!Events
         /\ Pending' = Append(Pending, event[hold[t]])
         /\ Len(Pending) <= QueueCapacity
  <1>1. /\ pub[t] = "push" /\ items' = Append(items, hold[t]) /\ Len(items) < QueueCapacity
        /\ UNCHANGED <<event, got, pc>>
    BY DEF PublishPush, At, poolVars, Queue!Push
  <1>2. hold[t] \in Slots /\ event[hold[t]] \in Machine!Events
    BY <1>1 DEF Structure, Owners, Messages, Holding
  <1>3. /\ items' \in Seq(Slots) /\ Len(items') = Len(items) + 1
        /\ items'[Len(items) + 1] = hold[t] /\ \A i \in 1 .. Len(items) : items'[i] = items[i]
    BY <1>1, <1>2, WaitingTypes, QueuedPush
  <1>4. Waiting' = Append(Waiting, event[hold[t]])
    BY <1>1, <1>2, <1>3, WaitingTypes DEF Waiting
  <1>5. Waiting \in Seq(Machine!Events) /\ Len(Waiting) = Len(items) /\ Len(items) \in Nat
    BY WaitingTypes
  <1>6. CASE pc[Control] = "handle"
    <2>1. Pending = <<event[got[Control]]>> \o Waiting /\ event[got[Control]] \in Machine!Events
      BY <1>6, PendingForms
    <2>2. Pending' = <<event[got[Control]]>> \o Waiting'
      BY <1>1, <1>6 DEF Pending, Waiting
    <2> HIDE DEF Waiting, Pending
    <2>3. /\ Append(Pending, event[hold[t]]) = <<event[got[Control]]>> \o Waiting'
          /\ Len(Pending) = Len(items) + 1
      BY <1>2, <1>4, <1>5, <2>1, PushBehind
    <2>4. QED BY <1>1, <1>2, <1>5, <2>2, <2>3, QueueAssumption
  <1>7. CASE pc[Control] # "handle"
    <2>1. Pending = Waiting
      BY <1>7, PendingForms
    <2>2. Pending' = <<>> \o Waiting'
      BY <1>1, <1>7 DEF Pending, Waiting
    <2> HIDE DEF Waiting, Pending
    <2>3. Append(Waiting, event[hold[t]]) \in Seq(Machine!Events)
      BY <1>2, <1>5, QueuedPush
    <2>4. Pending' = Waiting'
      BY <1>2, <1>4, <2>2, <2>3, PushBehind
    <2>5. QED BY <1>1, <1>2, <1>4, <1>5, <2>1, <2>4, QueueAssumption
  <1>8. QED BY <1>2, <1>6, <1>7

LEMMA PendingPop ==
  ASSUME Structure, ControlPop
  PROVE  Pending' = Pending
  <1>1. /\ items # <<>> /\ items' = Tail(items) /\ pc[Control] = "wait"
        /\ pc' = [pc EXCEPT ![Control] = "handle"]
        /\ got' = [got EXCEPT ![Control] = Head(items)] /\ event' = event
    BY DEF ControlPop, Goto, Queue!Pop, poolVars
  <1>2. pc'[Control] = "handle" /\ got'[Control] = Head(items)
    BY <1>1, Distinct DEF Structure, Lifecycle, Places, Owners
  <1>3. /\ items' \in Seq(Slots) /\ Len(items') = Len(items) - 1 /\ Len(items) \in Nat \ {0}
        /\ Head(items) = items[1] /\ \A i \in 1 .. Len(items) - 1 : items'[i] = items[i + 1]
    BY <1>1, WaitingTypes, QueuedPop
  <1>4. Waiting # <<>> /\ Head(Waiting) = event[Head(items)]
    BY <1>3, WaitingTypes
  <1>5. Waiting' = Tail(Waiting)
    BY <1>1, <1>3, WaitingTypes DEF Waiting
  <1>6. Pending = Waiting
    BY <1>1, PendingForms
  <1>7. Pending' = <<Head(Waiting)>> \o Tail(Waiting)
    BY <1>1, <1>2, <1>4, <1>5 DEF Pending, Waiting
  <1>8. Waiting \in Seq(Machine!Events)
    BY WaitingTypes
  <1> HIDE DEF Waiting, Pending
  <1>9. QED BY <1>4, <1>6, <1>7, <1>8

LEMMA PendingHandle ==
  ASSUME Structure, ControlHandle
  PROVE  Pending # <<>> /\ Head(Pending) = event[got[Control]] /\ Pending' = Tail(Pending)
  <1>1. /\ pc[Control] = "handle" /\ pc' = [pc EXCEPT ![Control] = "record"]
        /\ UNCHANGED <<items, event, got>>
    BY DEF ControlHandle, Goto, poolVars, queueVars
  <1>2. pc'[Control] # "handle"
    BY <1>1, Distinct DEF Structure, Lifecycle, Places
  <1>3. Pending = <<event[got[Control]]>> \o Waiting /\ event[got[Control]] \in Machine!Events
    BY <1>1, PendingForms
  <1>4. Pending' = <<>> \o Waiting
    BY <1>1, <1>2 DEF Pending, Waiting
  <1>5. Waiting \in Seq(Machine!Events)
    BY WaitingTypes
  <1> HIDE DEF Waiting, Pending
  <1>6. QED BY <1>3, <1>4, <1>5

\* The machine inside the pipeline is the machine of the runtime.
LEMMA SameSampleHandler ==
  ASSUME NEW s PROVE Machine!handle_sample(s) <=> Pipeline!Machine!handle_sample(s)
  <1>1. /\ Machine!is_warning(s) <=> Pipeline!Machine!is_warning(s)
        /\ Machine!is_critical(s) <=> Pipeline!Machine!is_critical(s)
        /\ Machine!is_recovered(s) <=> Pipeline!Machine!is_recovered(s)
    BY DEF Machine!is_warning, Machine!is_critical, Machine!is_recovered,
           Pipeline!Machine!is_warning, Pipeline!Machine!is_critical,
           Pipeline!Machine!is_recovered
  <1>2. /\ Machine!OfflineRun(s) = Pipeline!Machine!OfflineRun(s)
        /\ Machine!CriticalRun(s) = Pipeline!Machine!CriticalRun(s)
        /\ Machine!WarningRun(s) = Pipeline!Machine!WarningRun(s)
        /\ Machine!RecoveryRun(s) = Pipeline!Machine!RecoveryRun(s)
    BY <1>1 DEF Machine!OfflineRun, Machine!CriticalRun, Machine!WarningRun,
                Machine!RecoveryRun, Pipeline!Machine!OfflineRun, Pipeline!Machine!CriticalRun,
                Pipeline!Machine!WarningRun, Pipeline!Machine!RecoveryRun
  <1>3. /\ Machine!OfflineTrips(s) <=> Pipeline!Machine!OfflineTrips(s)
        /\ Machine!CriticalTrips(s) <=> Pipeline!Machine!CriticalTrips(s)
        /\ Machine!WarningTrips(s) <=> Pipeline!Machine!WarningTrips(s)
        /\ Machine!RecoveryTrips(s) <=> Pipeline!Machine!RecoveryTrips(s)
    BY <1>2 DEF Machine!OfflineTrips, Machine!CriticalTrips, Machine!WarningTrips,
                Machine!RecoveryTrips, Pipeline!Machine!OfflineTrips,
                Pipeline!Machine!CriticalTrips, Pipeline!Machine!WarningTrips,
                Pipeline!Machine!RecoveryTrips
  <1>4. QED
    BY <1>2, <1>3
    DEF Machine!handle_sample, Machine!transition_to, Machine!unchanged, Machine!reset_counters,
        Machine!Active, Machine!counters, Pipeline!Machine!handle_sample,
        Pipeline!Machine!transition_to, Pipeline!Machine!unchanged,
        Pipeline!Machine!reset_counters, Pipeline!Machine!Active, Pipeline!Machine!counters

LEMMA SameHandler ==
  ASSUME NEW e PROVE Machine!handle(e) <=> Pipeline!Machine!handle(e)
  BY SameSampleHandler
  DEF Machine!handle, Machine!transition_to, Machine!unchanged, Machine!reset_counters,
      Machine!Acts, Machine!counters, Pipeline!Machine!handle, Pipeline!Machine!transition_to,
      Pipeline!Machine!unchanged, Pipeline!Machine!reset_counters, Pipeline!Machine!Acts,
      Pipeline!Machine!counters

LEMMA SameEvents == Machine!Events = Pipeline!Machine!Events
  BY DEF Machine!Events, Machine!EventOf, Machine!SampleEvent, Machine!DefaultSample,
         Pipeline!Machine!Events, Pipeline!Machine!EventOf, Pipeline!Machine!SampleEvent,
         Pipeline!Machine!DefaultSample

LEMMA PipelineInit == Init => Pipeline!Init
  <1> SUFFICES ASSUME Init PROVE Pipeline!Init
    OBVIOUS
  <1>1. Pipeline!Machine!Init
    BY DEF Init, Machine!Init, Machine!DefaultSample, Pipeline!Machine!Init,
           Pipeline!Machine!DefaultSample
  <1>2. items = <<>> /\ closed = FALSE /\ pc[Control] # "handle"
    BY Distinct DEF Init, Queue!Init
  <1>3. Pending = <<>>
    BY <1>2 DEF Pending
  <1>4. QED BY <1>1, <1>2, <1>3 DEF Pipeline!Init

\* Creating and destroying an event touches a slot that the pipeline does not hold.
LEMMA PipelineSlots ==
  ASSUME Structure, NEW t \in Publishers, PublishCreate(t) \/ PublishDrop(t) \/ ControlRelease
  PROVE  UNCHANGED Pipeline!pipelineVars
  <1> USE DEF Structure, OneOwner
  <1>1. CASE PublishCreate(t)
    <2>1. PICK s \in Slots : s \notin live /\ event' = [event EXCEPT ![s] = msg[t]]
      BY <1>1 DEF PublishCreate, Pool!Create
    <2>2. UNCHANGED <<items, got, closed, pc, machineVars>>
      BY <1>1 DEF PublishCreate, queueVars
    <2>3. \A x \in Queued \cup {got[Control]} : x # NoSlot => x \in live
      OBVIOUS
    <2>4. pc[Control] = "handle" => got[Control] \in Slots /\ got[Control] # NoSlot
      BY SlotsAssumption, PendingForms
    <2>5. \A x \in Slots : x # s => event'[x] = event[x]
      BY <2>1 DEF Messages
    <2>6. Queued \subseteq Slots /\ NoSlot \notin Queued
      BY QueuedSlots
    <2>7. Pending' = Pending
      BY <2>1, <2>2, <2>3, <2>4, <2>5, <2>6, PendingSame
    <2>8. QED BY <2>2, <2>7 DEF Pipeline!pipelineVars, Pipeline!motor, machineVars
  <1>2. CASE PublishDrop(t)
    <2>1. /\ event' = [event EXCEPT ![hold[t]] = Blank] /\ pub[t] \in Holding
          /\ UNCHANGED <<items, got, closed, pc, machineVars>>
      BY <1>2 DEF PublishDrop, Release, At, queueVars, Holding
    <2>2. hold[t] \in Held /\ hold[t] # NoSlot
      BY <2>1, SlotsAssumption DEF Owners, Held
    <2>3. hold[t] \notin Queued /\ hold[t] # got[Control]
      BY <2>2
    <2>4. Queued \subseteq Slots /\ (pc[Control] = "handle" => got[Control] \in Slots)
      BY QueuedSlots, PendingForms
    <2>5. \A x \in Slots : x # hold[t] => event'[x] = event[x]
      BY <2>1 DEF Messages
    <2>6. Pending' = Pending
      BY <2>1, <2>3, <2>4, <2>5, PendingSame
    <2>7. QED BY <2>1, <2>6 DEF Pipeline!pipelineVars, Pipeline!motor, machineVars
  <1>3. CASE ControlRelease
    <2>1. /\ pc[Control] = "release" /\ pc' = [pc EXCEPT ![Control] = "wait"]
          /\ event' = [event EXCEPT ![got[Control]] = Blank]
          /\ UNCHANGED <<items, closed, machineVars>>
      BY <1>3 DEF ControlRelease, Goto, Release, Queue!Return
    <2>2. pc'[Control] = "wait"
      BY <2>1, Distinct DEF Lifecycle, Places
    <2>3. \A x \in Queued : x \in Slots /\ x # got[Control]
      BY <2>1, QueuedSlots DEF Owners, Handling
    <2>4. \A i \in 1 .. Len(items) : event'[items[i]] = event[items[i]]
      <3>1. \A i \in 1 .. Len(items) : items[i] \in Queued
        BY DEF Queued
      <3>2. \A x \in Queued : event'[x] = event[x]
        BY <2>1, <2>3 DEF Messages
      <3>3. QED BY <3>1, <3>2
    <2>5. Waiting' = Waiting
      BY <2>1, <2>4 DEF Waiting
    <2>6. Pending' = Pending
      BY <2>1, <2>2, <2>5 DEF Pending, Waiting
    <2>7. QED BY <2>1, <2>6 DEF Pipeline!pipelineVars, Pipeline!motor, machineVars
  <1>4. QED BY <1>1, <1>2, <1>3

LEMMA PipelineStep ==
  ASSUME Structure, [Next]_vars
  PROVE  [Pipeline!Next]_(Pipeline!pipelineVars)
  <1> USE DEF Pipeline!pipelineVars, Pipeline!motor, machineVars
  <1>1. ASSUME NEW t \in Publishers, PublishPush(t) PROVE Pipeline!Next
    <2>1. ~closed /\ UNCHANGED <<closed, machineVars>>
      BY <1>1 DEF PublishPush, Queue!Push
    <2>2. Pipeline!Accept(event[hold[t]])
      BY <1>1, <2>1, PendingPush DEF Pipeline!Accept
    <2>3. QED BY <1>1, <2>2, PendingPush, SameEvents DEF Pipeline!Next
  <1>2. CASE ControlHandle
    <2>1. Pipeline!Machine!handle(event[got[Control]]) /\ closed' = closed
      BY <1>2, SameHandler DEF ControlHandle, Dispatch, queueVars
    <2>2. Pipeline!Handle
      BY <1>2, <2>1, PendingHandle DEF Pipeline!Handle
    <2>3. QED BY <2>2 DEF Pipeline!Next
  <1>3. ASSUME NEW c \in Clients, StopClose(c), Bystands PROVE Pipeline!Next
    <2>1. closed' = TRUE /\ UNCHANGED machineVars /\ pc' = [pc EXCEPT ![c] = "stop_drain"]
      BY <1>3 DEF StopClose, Queue!Close, Goto
    <2>2. pc'[Control] = pc[Control]
      BY <2>1, Distinct DEF Structure, Lifecycle, Places
    <2>3. Pending' = Pending
      BY <1>3, <2>2, PendingSame DEF Bystands
    <2>4. Pipeline!Shut
      BY <2>1, <2>3 DEF Pipeline!Shut
    <2>5. QED BY <2>4 DEF Pipeline!Next
  <1>4. CASE ControlPop
    <2>1. UNCHANGED <<closed, machineVars>>
      BY <1>4 DEF ControlPop, Queue!Pop
    <2>2. QED BY <1>4, <2>1, PendingPop
  <1>5. ASSUME NEW t \in Publishers, PublishRecord(t), Bystands PROVE UNCHANGED Pipeline!pipelineVars
    <2>1. UNCHANGED <<closed, pc, machineVars>>
      BY <1>5 DEF PublishRecord, queueVars
    <2>2. Pending' = Pending
      BY <1>5, <2>1, PendingSame DEF Bystands
    <2>3. QED BY <2>1, <2>2
  <1>6. ASSUME ControlRecord, Bystands PROVE UNCHANGED Pipeline!pipelineVars
    <2>1. /\ UNCHANGED <<closed, machineVars>> /\ pc[Control] = "record"
          /\ pc' = [pc EXCEPT ![Control] = "release"]
      BY <1>6 DEF ControlRecord, Goto, queueVars
    <2>2. pc'[Control] # "handle"
      BY <2>1, Distinct DEF Structure, Lifecycle, Places
    <2>3. Pending' = Pending
      BY <1>6, <2>1, <2>2, PendingSame DEF Bystands
    <2>4. QED BY <2>1, <2>3
  <1>7. CASE Passive
    <2>1. Pending' = Pending
      BY <1>7, PendingSame DEF Passive, Bystands, Handling
    <2>2. QED BY <1>7, <2>1 DEF Passive
  <1>8. Lifecycle
    BY DEF Structure
  <1>9. Sensor \in Publishers
    BY Distinct
  <1>10. QED
    BY <1>1, <1>2, <1>3, <1>4, <1>5, <1>6, <1>7, <1>8, <1>9, HandOvers, PipelineSlots

\* The runtime implements the pipeline: handing a slot from a publisher through the queue to
\* the control task, with clients that publish and stop() at any time, amounts to handling
\* each accepted event once and in the order of acceptance.
THEOREM PipelineImplemented == Spec => IsPipeline
  BY PipelineInit, PipelineStep, StructureInvariant, PTL DEF Spec, IsPipeline, Pipeline!Spec

---------------------------------------------------------------------------------
(* The shutdown event.                                                             *)

\* A shutdown event is on its way to the machine or has arrived there.
Sent ==
    \/ state_ = "safe_shutdown"
    \/ \E i \in 1 .. Len(Pending) : Pending[i].kind = "shutdown_requested"

\* The event stop() publishes is a shutdown event wherever its publish() is.
Tells(c) ==
    pc[c] = "stop_publish" =>
        /\ pub[c] \in {"check", "create"} => msg[c].kind = "shutdown_requested"
        /\ pub[c] \in Holding => event[hold[c]].kind = "shutdown_requested"
        /\ pub[c] = "record" => Sent

Announced ==
    /\ shutdown_result = "published" => Sent
    /\ \A c \in Clients : Tells(c)

LEMMA SafeShutdownStays ==
  ASSUME NEW e, Machine!handle(e), state_ = "safe_shutdown" \/ e.kind = "shutdown_requested"
  PROVE  state_' = "safe_shutdown"
  BY DEF Machine!handle, Machine!unchanged, Machine!transition_to, Machine!Acts

LEMMA SentStays ==
  ASSUME Structure, Sent, [Next]_vars
  PROVE  Sent'
  <1>1. Pending \in Seq(Machine!Events)
    BY PendingForms
  <1>2. CASE UNCHANGED Pipeline!pipelineVars
    BY <1>2 DEF Sent, Pipeline!pipelineVars, Pipeline!motor
  <1>3. ASSUME NEW e \in Machine!Events, Pipeline!Accept(e) PROVE Sent'
    <2>1. Pending' = Append(Pending, e) /\ state_' = state_
      BY <1>3 DEF Pipeline!Accept, Pipeline!motor
    <2>2. /\ Len(Pending') = Len(Pending) + 1 /\ Len(Pending) \in Nat
          /\ \A i \in 1 .. Len(Pending) : Pending'[i] = Pending[i]
      BY <1>1, <2>1, QueuedPush
    <2>3. Sent <=> \/ state_ = "safe_shutdown"
                   \/ \E i \in 1 .. Len(Pending) : Pending'[i].kind = "shutdown_requested"
      BY <2>2 DEF Sent
    <2>4. \A i \in 1 .. Len(Pending) : i \in 1 .. Len(Pending')
      BY <2>2
    <2>5. QED BY <2>1, <2>3, <2>4 DEF Sent
  <1>4. CASE Pipeline!Handle
    <2>1. /\ Pending # <<>> /\ Pending' = Tail(Pending) /\ Machine!handle(Head(Pending))
      BY <1>4, SameHandler DEF Pipeline!Handle
    <2>2. /\ Len(Pending) \in Nat \ {0} /\ Head(Pending) = Pending[1]
          /\ Len(Pending') = Len(Pending) - 1
          /\ \A i \in 1 .. Len(Pending) - 1 : Pending'[i] = Pending[i + 1]
      BY <1>1, <2>1, QueuedPop
    <2>3. CASE state_ = "safe_shutdown" \/ Pending[1].kind = "shutdown_requested"
      BY <2>1, <2>2, <2>3, SafeShutdownStays DEF Sent
    <2>4. CASE ~(state_ = "safe_shutdown" \/ Pending[1].kind = "shutdown_requested")
      <3>1. PICK i \in 1 .. Len(Pending) : Pending[i].kind = "shutdown_requested"
        BY <2>4 DEF Sent
      <3>2. i - 1 \in 1 .. Len(Pending') /\ Pending'[i - 1] = Pending[i]
        BY <2>2, <2>4, <3>1
      <3>3. QED BY <3>1, <3>2 DEF Sent
    <2>5. QED BY <2>3, <2>4
  <1>5. CASE Pipeline!Shut
    BY <1>5 DEF Sent, Pipeline!Shut, Pipeline!motor
  <1>6. QED
    BY <1>2, <1>3, <1>4, <1>5, PipelineStep, SameEvents DEF Pipeline!Next

\* The event behind a handle stays as long as its publisher keeps the handle.
LEMMA HeldKept ==
  ASSUME Structure, [Next]_vars, NEW u \in Publishers, hold[u] \in Slots, hold'[u] = hold[u]
  PROVE  event'[hold[u]] = event[hold[u]]
  <1> USE DEF Structure, OneOwner
  <1>1. hold[u] \in Held /\ hold[u] # NoSlot /\ hold[u] \in live
    BY SlotsAssumption DEF Held
  <1>2. ASSUME NEW t \in Publishers, PublishCreate(t) PROVE event'[hold[u]] = event[hold[u]]
    <2>1. PICK s \in Slots : s \notin live /\ event' = [event EXCEPT ![s] = msg[t]]
      BY <1>2 DEF PublishCreate, Pool!Create
    <2>2. QED BY <1>1, <2>1 DEF Messages
  <1>3. ASSUME NEW t \in Publishers, PublishDrop(t) PROVE event'[hold[u]] = event[hold[u]]
    <2>1. event' = [event EXCEPT ![hold[t]] = Blank] /\ hold' = [hold EXCEPT ![t] = NoSlot]
      BY <1>3 DEF PublishDrop, Release
    <2>2. t # u
      BY <1>1, <2>1 DEF Owners
    <2>3. hold[t] # hold[u]
      BY <1>1, <2>2
    <2>4. QED BY <2>1, <2>3 DEF Messages
  <1>4. CASE ControlRelease
    <2>1. event' = [event EXCEPT ![got[Control]] = Blank]
      BY <1>4 DEF ControlRelease, Release
    <2>2. hold[u] # got[Control]
      BY <1>1
    <2>3. QED BY <2>1, <2>2 DEF Messages
  <1>5. ASSUME NEW t \in Publishers, PublishPush(t) PROVE event' = event
    BY <1>5 DEF PublishPush, poolVars
  <1>6. CASE ControlPop
    BY <1>6 DEF ControlPop, poolVars
  <1>7. QED
    BY <1>2, <1>3, <1>4, <1>5, <1>6, HandOvers DEF Passive, Bystands

\* Other threads do not disturb the client in stop().
Still(c) ==
    pc'[c] = "stop_publish" =>
        pc[c] = "stop_publish" /\ pub'[c] = pub[c] /\ msg'[c] = msg[c] /\ hold'[c] = hold[c]

LEMMA StillTells ==
  ASSUME Structure, [Next]_vars, NEW c \in Clients, Tells(c), Still(c)
  PROVE  Tells(c)'
  <1>1. c \in Publishers
    BY Distinct
  <1>2. pub[c] \in Holding => hold[c] \in Slots
    BY <1>1 DEF Structure, Owners
  <1>3. ASSUME pc'[c] = "stop_publish", pub[c] \in Holding
        PROVE  event'[hold'[c]] = event[hold[c]]
    <2>1. hold'[c] = hold[c]
      BY <1>3 DEF Still
    <2>2. QED BY <1>1, <1>2, <1>3, <2>1, HeldKept
  <1>4. Sent => Sent'
    BY SentStays
  <1> HIDE DEF Sent
  <1>5. QED BY <1>3, <1>4 DEF Tells, Still

\* The steps of publish() by the client in stop().
LEMMA PublishTells ==
  ASSUME Structure, [Next]_vars, NEW c \in Clients, Tells(c), PublishStep(c)
  PROVE  Tells(c)'
  <1> USE DEF At
  <1>1. c \in Publishers /\ c \in Threads
    BY Distinct
  <1>2. pub \in [Publishers -> {"none", "check", "create", "push", "timeout", "closed", "record"}]
    BY DEF Structure, Lifecycle, Places
  <1>3. CASE PublishRefused(c) \/ PublishExhausted(c) \/ PublishDrop(c) \/ PublishRecord(c)
    <2>1. pub'[c] = "none"
      BY <1>1, <1>2, <1>3 DEF PublishRefused, PublishExhausted, PublishDrop, PublishRecord
    <2>2. QED BY <2>1 DEF Tells, Holding
  <1>4. CASE PublishAccepted(c)
    <2>1. pub[c] = "check" /\ pub'[c] = "create" /\ UNCHANGED <<pc, msg>>
      BY <1>1, <1>2, <1>4 DEF PublishAccepted
    <2>2. QED BY <2>1 DEF Tells, Holding
  <1>5. CASE PublishCreate(c)
    <2>1. pub[c] = "create" /\ pub'[c] = "push" /\ pc' = pc
      BY <1>1, <1>2, <1>5 DEF PublishCreate
    <2>2. PICK s \in Slots : /\ event' = [event EXCEPT ![s] = msg[c]]
                             /\ hold' = [hold EXCEPT ![c] = s]
      BY <1>5 DEF PublishCreate
    <2>3. event'[hold'[c]] = msg[c]
      BY <1>1, <2>2 DEF Structure, Owners, Messages
    <2>4. QED BY <2>1, <2>3 DEF Tells, Holding
  <1>6. CASE PublishPush(c)
    <2>1. pub[c] = "push" /\ pub'[c] = "record" /\ pc' = pc
      BY <1>1, <1>2, <1>6 DEF PublishPush
    <2>2. Pending' = Append(Pending, event[hold[c]]) /\ event[hold[c]] \in Machine!Events
      BY <1>1, <1>6, PendingPush
    <2>3. Pending \in Seq(Machine!Events)
      BY PendingForms
    <2>4. /\ Len(Pending) \in Nat /\ Len(Pending') = Len(Pending) + 1
          /\ Pending'[Len(Pending')] = event[hold[c]]
      BY <2>2, <2>3, QueuedPush
    <2>5. event[hold[c]].kind = "shutdown_requested" => Sent'
      BY <2>4 DEF Sent
    <2>6. QED BY <2>1, <2>5 DEF Tells, Holding
  <1>7. CASE PublishGivesUp(c)
    <2>1. pub[c] = "push" /\ pub'[c] \in {"timeout", "closed"} /\ UNCHANGED <<pc, event, hold>>
      BY <1>1, <1>2, <1>7 DEF PublishGivesUp, poolVars
    <2>2. QED BY <2>1 DEF Tells, Holding
  <1>8. QED BY <1>3, <1>4, <1>5, <1>6, <1>7 DEF PublishStep

LEMMA AnnouncedPublish ==
  ASSUME Structure, [Next]_vars, Announced, NEW t \in Publishers, PublishStep(t)
  PROVE  Announced'
  <1>1. ASSUME NEW c \in Clients, c # t PROVE Still(c)
    <2>1. pc' = pc
      BY DEF PublishStep, PublishRefused, PublishAccepted, PublishCreate, PublishExhausted,
             PublishPush, PublishGivesUp, PublishDrop, PublishRecord
    <2>2. c \in Publishers
      BY Distinct
    <2>3. pub'[c] = pub[c]
      BY <1>1, <2>2 DEF PublishStep, PublishRefused, PublishAccepted, PublishCreate,
                PublishExhausted, PublishPush, PublishGivesUp, PublishDrop, PublishRecord, At,
                Structure, Lifecycle, Places
    <2>4. msg'[c] = msg[c]
      BY <1>1, <2>2 DEF PublishStep, PublishRefused, PublishAccepted, PublishCreate,
                PublishExhausted, PublishPush, PublishGivesUp, PublishDrop, PublishRecord,
                Returns, Structure, Messages
    <2>5. hold'[c] = hold[c]
      BY <1>1, <2>2 DEF PublishStep, PublishRefused, PublishAccepted, PublishCreate,
                PublishExhausted, PublishPush, PublishGivesUp, PublishDrop, PublishRecord,
                Structure, Owners
    <2>6. QED BY <2>1, <2>3, <2>4, <2>5 DEF Still
  <1>2. ASSUME NEW c \in Clients PROVE Tells(c)'
    BY <1>1, StillTells, PublishTells DEF Announced
  <1>3. ASSUME shutdown_result' = "published" PROVE Sent
    <2>1. CASE PublishRecord(t)
      <3>1. pub[t] = "record" /\ (shutdown_result' # shutdown_result => pc[t] = "stop_publish")
        BY <2>1 DEF PublishRecord, At, Returns
      <3>2. pc[t] = "stop_publish" => t \in Clients
        BY DEF Structure, Lifecycle, Places, Publishers, SensorPlaces
      <3>3. QED BY <1>3, <3>1, <3>2 DEF Announced, Tells
    <2>2. CASE ~PublishRecord(t)
      <3>1. shutdown_result' = shutdown_result
        BY <1>3, <2>2 DEF PublishStep, PublishRefused, PublishAccepted, PublishCreate,
                  PublishExhausted, PublishPush, PublishGivesUp, PublishDrop, Returns, TimeoutResult
      <3>2. QED BY <1>3, <3>1 DEF Announced
    <2>3. QED BY <2>1, <2>2
  <1>4. QED BY <1>2, <1>3, SentStays DEF Announced

LEMMA AnnouncedOther ==
  ASSUME Structure, [Next]_vars, Announced, shutdown_result' = shutdown_result,
         \A c \in Clients : Still(c)
  PROVE  Announced'
  BY StillTells, SentStays DEF Announced

LEMMA AnnouncedClient ==
  ASSUME Structure, [Next]_vars, Announced, NEW d \in Clients,
         \/ \E k \in ClientEvents : Publish(d, EventOf(k))
         \/ Start(d) \/ Stop(d) \/ LifecycleStep(d)
  PROVE  Announced'
  <1> USE Distinct DEF CallPublish, Goto, publishVars
  <1>1. /\ pc \in [Threads -> {"idle"} \cup StartPlaces \cup StopPlaces \cup ControlPlaces
                               \cup SensorPlaces]
        /\ pub \in [Publishers -> {"none", "check", "create", "push", "timeout", "closed",
                                   "record"}]
        /\ msg \in [Publishers -> Machine!Events]
    BY DEF Structure, Lifecycle, Places, Messages
  <1>2. CASE Stop(d)
    <2>1. /\ shutdown_result' = shutdown_result
          /\ pub'[d] = "check" /\ msg'[d] = EventOf("shutdown_requested")
      BY <1>1, <1>2 DEF Stop
    <2>2. EventOf("shutdown_requested").kind = "shutdown_requested"
      BY DEF EventOf, Machine!EventOf
    <2>3. Tells(d)'
      BY <2>1, <2>2 DEF Tells, Holding
    <2>4. ASSUME NEW c \in Clients, c # d PROVE Still(c)
      BY <1>1, <1>2, <2>4 DEF Stop, Still
    <2>5. QED BY <2>1, <2>3, <2>4, StillTells, SentStays DEF Announced
  <1>3. ASSUME NEW k \in ClientEvents, Publish(d, EventOf(k)) PROVE Announced'
    <2>1. \A c \in Clients : Still(c)
      BY <1>1, <1>3 DEF Publish, Still
    <2>2. QED BY <1>3, <2>1, AnnouncedOther DEF Publish
  <1>4. CASE Start(d) \/ StartSelfTest(d)
    <2>1. \A c \in Clients : Still(c)
      BY <1>1, <1>4 DEF Start, StartSelfTest, Still
    <2>2. QED BY <1>4, <2>1, AnnouncedOther DEF Start, StartSelfTest
  <1>5. CASE StartTasks(d) \/ StopRefuseEvents(d) \/ StopRequest(d) \/ StopClose(d) \/ StopFinish(d)
    <2>1. \A c \in Clients : Still(c)
      BY <1>1, <1>5 DEF StartTasks, StopRefuseEvents, StopRequest, StopClose, StopFinish, Still
    <2>2. shutdown_result' = shutdown_result
      BY <1>5 DEF StartTasks, StopRefuseEvents, StopRequest, StopClose, StopFinish
    <2>3. QED BY <2>1, <2>2, AnnouncedOther
  <1>6. QED BY <1>2, <1>3, <1>4, <1>5 DEF LifecycleStep

LEMMA AnnouncedTask ==
  ASSUME Structure, [Next]_vars, Announced, ControlStep \/ SensorStep \/ MonitorStep
  PROVE  Announced'
  <1> USE Distinct DEF Goto, publishVars
  <1>1. /\ pc \in [Threads -> {"idle"} \cup StartPlaces \cup StopPlaces \cup ControlPlaces
                               \cup SensorPlaces]
        /\ pub \in [Publishers -> {"none", "check", "create", "push", "timeout", "closed",
                                   "record"}]
        /\ msg \in [Publishers -> Machine!Events]
    BY DEF Structure, Lifecycle, Places, Messages
  <1>2. CASE ControlStep
    <2>1. UNCHANGED publishVars /\ \A c \in Clients : pc'[c] = pc[c]
      BY <1>1, <1>2 DEF ControlStep, ControlPop, ControlExit, ControlHandle, ControlRecord,
                        ControlRelease
    <2>2. QED BY <2>1, AnnouncedOther DEF Still
  <1>3. CASE SensorStep
    <2>1. /\ UNCHANGED <<hold, shutdown_result>>
          /\ \A c \in Clients : pc'[c] = pc[c] /\ pub'[c] = pub[c] /\ msg'[c] = msg[c]
      BY <1>1, <1>3 DEF SensorStep, SensorRead, SensorWait, SensorPeriod, SensorExit, CallPublish
    <2>2. QED BY <2>1, AnnouncedOther DEF Still
  <1>4. CASE MonitorStep
    <2>1. UNCHANGED publishVars /\ \A c \in Clients : pc'[c] = pc[c]
      BY <1>1, <1>4 DEF MonitorStep, MonitorTick, MonitorExit
    <2>2. QED BY <2>1, AnnouncedOther DEF Still
  <1>5. QED BY <1>2, <1>3, <1>4

LEMMA AnnouncedNext == Structure /\ Announced /\ [Next]_vars => Announced'
  <1> SUFFICES ASSUME Structure, Announced, [Next]_vars PROVE Announced'
    OBVIOUS
  <1>1. CASE UNCHANGED vars
    <2>1. shutdown_result' = shutdown_result /\ \A c \in Clients : Still(c)
      BY <1>1 DEF vars, publishVars, Still
    <2>2. QED BY <2>1, AnnouncedOther
  <1>2. CASE Next
    BY <1>2, AnnouncedPublish, AnnouncedClient, AnnouncedTask DEF Next
  <1>3. QED BY <1>1, <1>2

\* A shutdown event that publish() put into the queue brings the machine to safe_shutdown
\* before stop() returns, whatever else is published and however early stop() stops waiting.
THEOREM ShutdownCorrect == Spec => []ShutdownHonoured
  <1>1. Init => Announced
    <2> SUFFICES ASSUME Init PROVE Announced
      OBVIOUS
    <2>1. shutdown_result = "none" /\ \A c \in Clients : pc[c] = "idle"
      BY Distinct DEF Init
    <2>2. QED BY <2>1 DEF Announced, Tells
  <1>2. Structure /\ Announced => ShutdownHonoured
    <2> SUFFICES ASSUME Structure, Announced, StopReturned, shutdown_result = "published"
                 PROVE  state_ = "safe_shutdown"
      BY DEF ShutdownHonoured
    <2>1. pc[Control] = "exited" /\ items = <<>>
      BY DEF Structure, Lifecycle, Stopping
    <2>2. Pending = <<>>
      BY <2>1 DEF Pending
    <2>3. QED BY <2>2 DEF Announced, Sent
  <1>3. QED BY <1>1, <1>2, AnnouncedNext, StructureInvariant, PTL DEF Spec
=================================================================================
