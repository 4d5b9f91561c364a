---------------------------- MODULE EdgeRuntimeProofs ----------------------------
(* Proofs about EdgeRuntime, for any number of clients, any pool and queue, any    *)
(* configuration of the protection and any number of events.                       *)
EXTENDS EdgeRuntime, FiniteSetTheorems, TLAPS

---------------------------------------------------------------------------------
(* Where the threads are.                                                          *)

StartPlaces == {"start_startup", "start_self_test"}
Refusing == {"stop_await", "stop_join", "stop_drain"}
StopPlaces == {"stop_publish"} \cup Refusing
ControlPlaces == {"off", "wait", "handle", "record", "release", "exited"}
SensorPlaces == {"off", "loop", "publish", "period", "exited"}
MonitorPlaces == {"off", "period", "exited"}

Places ==
    /\ pc \in [Threads -> {"idle"} \cup StartPlaces \cup StopPlaces \cup ControlPlaces
                            \cup SensorPlaces]
    /\ pub \in [Publishers -> {"none", "check", "create", "push", "timeout", "closed", "record"}]
    /\ \A c \in Clients : pc[c] \in {"idle"} \cup StartPlaces \cup StopPlaces
    /\ pc[Control] \in ControlPlaces /\ pc[Sensor] \in SensorPlaces
    /\ pc[Monitor] \in MonitorPlaces
    /\ pc[Sensor] # "publish" => pub[Sensor] = "none"

\* At most one client is in start(), and nobody is in stop() then.
Starting ==
    /\ \A c \in Clients : pc[c] \in StartPlaces => lifecycle_mutex_
    /\ \A c, d \in Clients : pc[c] \in StartPlaces /\ pc[d] \in StartPlaces => c = d
    /\ lifecycle_mutex_ => started_ /\ ~stopped_ /\ pc[Sensor] = "off" /\ pc[Monitor] = "off"
    /\ ~started_ => /\ ~stopped_ /\ ~running_
                    /\ pc[Control] = "off" /\ pc[Sensor] = "off" /\ pc[Monitor] = "off"
    /\ started_ /\ ~stopped_ => running_

\* At most one client is in stop(), and what it has done so far is not undone.
Stopping ==
    /\ \A c \in Clients : pc[c] \in StopPlaces => stopped_ /\ running_
    /\ \A c, d \in Clients : pc[c] \in StopPlaces /\ pc[d] \in StopPlaces => c = d
    /\ \A c \in Clients : pc[c] \in Refusing => ~accepting_events_
    /\ \A c \in Clients :
          pc[c] = "stop_drain" => closed /\ pc[Sensor] = "exited" /\ pc[Monitor] = "exited"
    /\ pc[Control] = "exited" => closed /\ items = <<>>
    /\ StopReturned => /\ closed /\ ~accepting_events_
                       /\ pc[Control] = "exited" /\ pc[Sensor] = "exited"
                       /\ pc[Monitor] = "exited"

Lifecycle == Places /\ Starting /\ Stopping

LEMMA Distinct ==
  /\ Control \notin Clients /\ Sensor \notin Clients /\ Monitor \notin Clients
  /\ Control \notin Publishers /\ Monitor \notin Publishers
  /\ Control # Sensor /\ Control # Monitor /\ Sensor # Monitor
  /\ Clients \subseteq Threads /\ Clients \subseteq Publishers /\ Publishers \subseteq Threads
  /\ Control \in Threads /\ Sensor \in Threads /\ Monitor \in Threads /\ Sensor \in Publishers
  BY ThreadsAssumption DEF Threads, Publishers, Tasks

LEMMA LifecycleInit == Init => Lifecycle
  <1> SUFFICES ASSUME Init PROVE Lifecycle
    OBVIOUS
  <1>1. pc = [t \in Threads |-> IF t \in Clients THEN "idle" ELSE "off"]
    BY DEF Init
  <1>2. Places
    BY <1>1, Distinct DEF Init, Places, ControlPlaces, SensorPlaces, MonitorPlaces
  <1>3. Starting
    BY <1>1, Distinct DEF Init, Starting, StartPlaces
  <1>4. Stopping
    BY <1>1, Distinct DEF Init, Stopping, StopPlaces, Refusing, StopReturned
  <1>5. QED BY <1>2, <1>3, <1>4 DEF Lifecycle

\* publish() moves its caller within publish() only; a push needs an open queue.
LEMMA LifecyclePublish ==
  ASSUME Lifecycle, NEW t \in Publishers, PublishStep(t)
  PROVE  Lifecycle'
  <1>1. /\ UNCHANGED <<pc, flags, closed>>
        /\ closed => items' = items
        /\ pub[t] # "none"
        /\ \E p \in {"none", "create", "push", "timeout", "closed", "record"} :
              pub' = [pub EXCEPT ![t] = p]
    BY DEF PublishStep, PublishRefused, PublishAccepted, PublishCreate, PublishExhausted,
           PublishPush, PublishGivesUp, PublishDrop, PublishRecord, At, queueVars, Queue!Push,
           flags
  <1>2. Places'
    BY <1>1, Distinct DEF Lifecycle, Places
  <1>3. Starting'
    BY <1>1 DEF Lifecycle, Starting, flags
  <1>4. Stopping'
    BY <1>1 DEF Lifecycle, Stopping, flags, StopReturned
  <1>5. QED BY <1>2, <1>3, <1>4 DEF Lifecycle

\* The calls of the clients.
LEMMA LifecycleClient ==
  ASSUME Lifecycle, NEW c \in Clients,
         (\E k \in ClientEvents : Publish(c, EventOf(k))) \/ Start(c) \/ Stop(c) \/ LifecycleStep(c)
  PROVE  Lifecycle'
  <1> USE Distinct DEF Lifecycle, Places, Starting, Stopping, StartPlaces, StopPlaces, Refusing,
                       ControlPlaces, SensorPlaces, MonitorPlaces, StopReturned, flags, queueVars
  <1>1. ASSUME NEW k \in ClientEvents, Publish(c, EventOf(k)) PROVE Lifecycle'
    BY <1>1 DEF Publish, CallPublish
  <1>2. CASE Start(c)
    BY <1>2 DEF Start, CallPublish, AcceptEvents
  <1>3. CASE Stop(c)
    BY <1>3 DEF Stop, CallPublish, Goto
  <1>4. CASE StartSelfTest(c)
    BY <1>4 DEF StartSelfTest, CallPublish, Goto
  <1>5. CASE StartTasks(c)
    BY <1>5 DEF StartTasks, publishVars
  <1>6. CASE StopRefuseEvents(c)
    BY <1>6 DEF StopRefuseEvents, publishVars, Goto
  <1>7. CASE StopRequest(c)
    BY <1>7 DEF StopRequest, publishVars, Goto
  <1>8. CASE StopClose(c)
    BY <1>8 DEF StopClose, publishVars, Goto, Queue!Close
  <1>9. CASE StopFinish(c)
    BY <1>9 DEF StopFinish, ControlJoined, publishVars, Goto
  <1>10. QED
    BY <1>1, <1>2, <1>3, <1>4, <1>5, <1>6, <1>7, <1>8, <1>9 DEF LifecycleStep

\* The loops of the tasks.
LEMMA LifecycleTask ==
  ASSUME Lifecycle, ControlStep \/ SensorStep \/ MonitorStep
  PROVE  Lifecycle'
  <1> USE Distinct DEF Lifecycle, Places, Starting, Stopping, StartPlaces, StopPlaces, Refusing,
                       ControlPlaces, SensorPlaces, MonitorPlaces, StopReturned, flags, queueVars,
                       publishVars, Goto
  <1>1. CASE ControlPop
    BY <1>1 DEF ControlPop, Queue!Pop
  <1>2. CASE ControlExit
    BY <1>2 DEF ControlExit, Drained
  <1>3. CASE ControlHandle \/ ControlRecord
    BY <1>3 DEF ControlHandle, ControlRecord
  <1>4. CASE ControlRelease
    BY <1>4 DEF ControlRelease, Queue!Return
  <1>5. CASE SensorRead
    BY <1>5 DEF SensorRead, CallPublish
  <1>6. CASE SensorWait \/ SensorPeriod \/ SensorExit
    BY <1>6 DEF SensorWait, SensorPeriod, SensorExit
  <1>7. CASE MonitorTick \/ MonitorExit
    BY <1>7 DEF MonitorTick, MonitorExit
  <1>8. QED
    BY <1>1, <1>2, <1>3, <1>4, <1>5, <1>6, <1>7 DEF ControlStep, SensorStep, MonitorStep

LEMMA LifecycleNext == Lifecycle /\ [Next]_vars => Lifecycle'
  <1>1. Lifecycle /\ UNCHANGED vars => Lifecycle'
    BY DEF Lifecycle, Places, Starting, Stopping, StopReturned, vars, flags, queueVars, publishVars
  <1>2. QED
    BY <1>1, LifecyclePublish, LifecycleClient, LifecycleTask DEF Next

LEMMA LifecycleInvariant == Spec => []Lifecycle
  BY LifecycleInit, LifecycleNext, PTL DEF Spec

---------------------------------------------------------------------------------
(* Who owns an event.                                                              *)

Holding == {"push", "timeout", "closed"}
Handling == {"handle", "record", "release"}

Owners ==
    /\ live \subseteq Slots
    /\ items \in Seq(Slots)
    /\ got \in [{Control} -> Slots \cup {NoSlot}]
    /\ hold \in [Publishers -> Slots \cup {NoSlot}]
    /\ \A t \in Publishers : hold[t] # NoSlot <=> pub[t] \in Holding
    /\ got[Control] # NoSlot <=> pc[Control] \in Handling

\* A step that leaves the pool, the queue and the handles alone, and the threads as much
\* in charge of a handle as they were.
Bystands ==
    /\ UNCHANGED <<live, event, items, got, hold>>
    /\ \A t \in Publishers : pub'[t] \in Holding <=> pub[t] \in Holding
    /\ pc'[Control] \in Handling <=> pc[Control] \in Handling

\* One that does not bring any event forward either.
Passive ==
    /\ Bystands
    /\ UNCHANGED <<closed, machineVars, events_published, events_processed>>
    /\ \A t \in Publishers : pub'[t] = "record" <=> pub[t] = "record"
    /\ \A p \in Handling : pc'[Control] = p <=> pc[Control] = p

LEMMA PassivePublish ==
  ASSUME Lifecycle, NEW t \in Publishers, PublishStep(t)
  PROVE  \/ PublishCreate(t) \/ PublishPush(t) \/ PublishDrop(t) \/ Passive
         \/ (PublishRecord(t) /\ Bystands)
  <1> USE DEF Lifecycle, Places, Holding, Passive, Bystands, At, poolVars, queueVars, metrics
  <1>1. CASE PublishRefused(t) \/ PublishAccepted(t)
    BY <1>1 DEF PublishRefused, PublishAccepted
  <1>2. CASE PublishExhausted(t)
    BY <1>2 DEF PublishExhausted, Pool!Exhausted, record_dropped, others
  <1>3. CASE PublishGivesUp(t)
    BY <1>3 DEF PublishGivesUp
  <1>4. CASE PublishRecord(t)
    BY <1>4 DEF PublishRecord
  <1>5. QED BY <1>1, <1>2, <1>3, <1>4 DEF PublishStep

LEMMA PassiveClient ==
  ASSUME Lifecycle, NEW c \in Clients,
         (\E k \in ClientEvents : Publish(c, EventOf(k))) \/ Start(c) \/ Stop(c) \/ LifecycleStep(c)
  PROVE  Passive \/ (StopClose(c) /\ Bystands)
  <1> USE Distinct DEF Lifecycle, Places, Holding, Handling, Passive, Bystands, poolVars,
                       queueVars, publishVars, metrics, Goto, CallPublish
  <1>1. ASSUME NEW k \in ClientEvents, Publish(c, EventOf(k)) PROVE Passive
    BY <1>1 DEF Publish
  <1>2. CASE Start(c)
    BY <1>2 DEF Start, Starting
  <1>3. CASE Stop(c) \/ StartSelfTest(c)
    BY <1>3 DEF Stop, StartSelfTest
  <1>4. CASE StartTasks(c)
    BY <1>4 DEF StartTasks
  <1>5. CASE StopRefuseEvents(c) \/ StopRequest(c) \/ StopFinish(c)
    BY <1>5 DEF StopRefuseEvents, StopRequest, StopFinish
  <1>6. CASE StopClose(c)
    BY <1>6 DEF StopClose, Queue!Close
  <1>7. QED BY <1>1, <1>2, <1>3, <1>4, <1>5, <1>6 DEF LifecycleStep

LEMMA PassiveTask ==
  ASSUME Lifecycle, ControlStep \/ SensorStep \/ MonitorStep
  PROVE  \/ ControlPop \/ ControlRelease \/ Passive
         \/ ((ControlHandle \/ ControlRecord) /\ Bystands)
  <1> USE Distinct DEF Lifecycle, Places, Holding, Handling, Passive, Bystands, poolVars,
                       queueVars, publishVars, metrics, Goto
  <1>1. CASE ControlExit
    BY <1>1 DEF ControlExit
  <1>2. CASE ControlHandle \/ ControlRecord
    BY <1>2 DEF ControlHandle, ControlRecord
  <1>3. CASE SensorRead
    BY <1>3 DEF SensorRead, CallPublish
  <1>4. CASE SensorWait \/ SensorPeriod \/ SensorExit \/ MonitorTick \/ MonitorExit
    BY <1>4 DEF SensorWait, SensorPeriod, SensorExit, MonitorTick, MonitorExit
  <1>5. QED BY <1>1, <1>2, <1>3, <1>4 DEF ControlStep, SensorStep, MonitorStep

\* Nine steps bring an event forward, and five of them hand it on.
LEMMA HandOvers ==
  ASSUME Lifecycle, [Next]_vars
  PROVE  \/ \E t \in Publishers : \/ PublishCreate(t) \/ PublishPush(t) \/ PublishDrop(t)
                                  \/ (PublishRecord(t) /\ Bystands)
         \/ ControlPop \/ ControlRelease
         \/ ((ControlHandle \/ ControlRecord) /\ Bystands)
         \/ \E c \in Clients : StopClose(c) /\ Bystands
         \/ Passive
  <1>1. CASE UNCHANGED vars
    BY <1>1 DEF vars, Passive, Bystands, poolVars, queueVars, publishVars, metrics
  <1>2. ASSUME NEW t \in Publishers, PublishStep(t)
        PROVE  \/ PublishCreate(t) \/ PublishPush(t) \/ PublishDrop(t) \/ Passive
               \/ (PublishRecord(t) /\ Bystands)
    BY <1>2, PassivePublish
  <1>3. ASSUME NEW c \in Clients,
               \/ \E k \in ClientEvents : Publish(c, EventOf(k))
               \/ Start(c) \/ Stop(c) \/ LifecycleStep(c)
        PROVE  Passive \/ (StopClose(c) /\ Bystands)
    BY <1>3, PassiveClient
  <1>4. CASE ControlStep \/ SensorStep \/ MonitorStep
    BY <1>4, PassiveTask
  <1>5. QED
    BY <1>1, <1>2, <1>3, <1>4 DEF Next

\* A sequence before and after a push or a pop.
LEMMA QueuedPush ==
  ASSUME NEW E, NEW q \in Seq(E), NEW s \in E
  PROVE  /\ Append(q, s) \in Seq(E) /\ Len(Append(q, s)) = Len(q) + 1 /\ Len(q) \in Nat
         /\ Append(q, s)[Len(q) + 1] = s
         /\ \A i \in 1 .. Len(q) : Append(q, s)[i] = q[i]
  OBVIOUS

LEMMA QueuedPop ==
  ASSUME NEW E, NEW q \in Seq(E), q # <<>>
  PROVE  /\ Tail(q) \in Seq(E) /\ Len(Tail(q)) = Len(q) - 1 /\ Len(q) \in Nat \ {0}
         /\ Head(q) = q[1] /\ Head(q) \in E
         /\ \A i \in 1 .. Len(q) - 1 : Tail(q)[i] = q[i + 1]
  OBVIOUS

LEMMA QueuedSlots ==
  ASSUME Owners
  PROVE  /\ Len(items) \in Nat /\ \A i \in 1 .. Len(items) : items[i] \in Slots
         /\ Queued \subseteq Slots /\ NoSlot \notin Queued
  <1>1. Len(items) \in Nat /\ \A i \in 1 .. Len(items) : items[i] \in Slots
    BY DEF Owners
  <1>2. \A x \in Queued : x \in Slots
    BY <1>1 DEF Queued
  <1>3. QED BY <1>1, <1>2, SlotsAssumption

\* The slots that publishers hold, when one of them gets or gives up its handle.
LEMMA HeldChanges ==
  ASSUME Owners, OneOwner, NEW t \in Publishers, NEW s \in Slots \cup {NoSlot},
         hold' = [hold EXCEPT ![t] = s]
  PROVE  /\ hold[t] = NoSlot => Held' \ {NoSlot} = (Held \cup {s}) \ {NoSlot}
         /\ s = NoSlot => Held' \ {NoSlot} = Held \ {hold[t], NoSlot}
  <1> USE DEF Owners, OneOwner, Held
  <1>1. ASSUME hold[t] = NoSlot PROVE Held' \ {NoSlot} = (Held \cup {s}) \ {NoSlot}
    <2>1. \A x \in Held' \ {NoSlot} : x \in (Held \cup {s}) \ {NoSlot}
      OBVIOUS
    <2>2. \A x \in (Held \cup {s}) \ {NoSlot} : x \in Held' \ {NoSlot}
      BY <1>1
    <2>3. QED BY <2>1, <2>2
  <1>2. ASSUME s = NoSlot PROVE Held' \ {NoSlot} = Held \ {hold[t], NoSlot}
    <2>1. \A x \in Held' \ {NoSlot} : x \in Held \ {hold[t], NoSlot}
      BY <1>2
    <2>2. \A x \in Held \ {hold[t], NoSlot} : x \in Held' \ {NoSlot}
      BY <1>2
    <2>3. QED BY <2>1, <2>2
  <1>3. QED BY <1>1, <1>2

LEMMA OwnersCreate ==
  ASSUME Lifecycle, Owners, OneOwner, NEW t \in Publishers, PublishCreate(t)
  PROVE  Owners' /\ OneOwner'
  <1>1. PICK s \in Slots : /\ s \notin live /\ live' = live \cup {s}
                           /\ hold' = [hold EXCEPT ![t] = s]
    BY DEF PublishCreate, Pool!Create
  <1>2. /\ pub[t] = "create" /\ pub' = [pub EXCEPT ![t] = "push"]
        /\ UNCHANGED <<items, got, pc>>
    BY DEF PublishCreate, At, queueVars
  <1>3. hold[t] = NoSlot
    BY <1>2 DEF Owners, Holding
  <1>4. Owners'
    BY <1>1, <1>2, SlotsAssumption DEF Owners, Lifecycle, Places, Holding
  <1>5. Held' \ {NoSlot} = (Held \cup {s}) \ {NoSlot}
    BY <1>1, <1>3, HeldChanges
  <1>6. Queued' = Queued /\ NoSlot \notin Queued /\ s \notin Queued \cup Held \cup {got[Control]}
    BY <1>1, <1>2, SlotsAssumption DEF Queued, OneOwner, Owners
  <1>7. \A u, w \in Publishers : hold'[u] = hold'[w] /\ hold'[u] # NoSlot => u = w
    BY <1>1, <1>6 DEF Owners, OneOwner, Held
  <1>8. live' = (Queued' \cup Held' \cup {got'[Control]}) \ {NoSlot}
    BY <1>1, <1>2, <1>5, <1>6, SlotsAssumption DEF OneOwner
  <1>9. /\ Queued' \cap (Held' \cup {got'[Control]}) = {}
        /\ got'[Control] # NoSlot => got'[Control] \notin Held'
    BY <1>2, <1>5, <1>6 DEF OneOwner
  <1>10. QED
    BY <1>2, <1>4, <1>7, <1>8, <1>9 DEF OneOwner

LEMMA OwnersPush ==
  ASSUME Lifecycle, Owners, OneOwner, NEW t \in Publishers, PublishPush(t)
  PROVE  Owners' /\ OneOwner'
  <1>1. /\ pub[t] = "push" /\ pub' = [pub EXCEPT ![t] = "record"]
        /\ items' = Append(items, hold[t]) /\ hold' = [hold EXCEPT ![t] = NoSlot]
        /\ UNCHANGED <<live, got, pc>>
    BY DEF PublishPush, At, poolVars, Queue!Push
  <1>2. hold[t] \in Slots /\ items \in Seq(Slots)
    BY <1>1 DEF Owners, Holding
  <1>3. /\ items' \in Seq(Slots) /\ Len(items') = Len(items) + 1 /\ Len(items) \in Nat
        /\ items'[Len(items) + 1] = hold[t] /\ \A i \in 1 .. Len(items) : items'[i] = items[i]
    BY <1>1, <1>2, QueuedPush
  <1>4. Owners'
    BY <1>1, <1>3, SlotsAssumption DEF Owners, Lifecycle, Places, Holding
  <1>5. Held' \ {NoSlot} = Held \ {hold[t], NoSlot}
    BY <1>1, HeldChanges
  <1>6. Queued' = Queued \cup {hold[t]}
    <2>1. \A x \in Queued' : x \in Queued \cup {hold[t]}
      BY <1>3 DEF Queued
    <2>2. \A x \in Queued \cup {hold[t]} : x \in Queued'
      BY <1>3 DEF Queued
    <2>3. QED BY <2>1, <2>2
  <1>7. hold[t] \in Held /\ NoSlot \notin Queued /\ hold[t] # got[Control]
    BY <1>2, SlotsAssumption DEF OneOwner, Owners, Held, Queued
  <1>8. \A u, w \in Publishers : hold'[u] = hold'[w] /\ hold'[u] # NoSlot => u = w
    BY <1>1 DEF Owners, OneOwner
  <1>9. \A i, j \in 1 .. Len(items') : items'[i] = items'[j] => i = j
    <2> SUFFICES ASSUME NEW i \in 1 .. Len(items'), NEW j \in 1 .. Len(items'),
                        items'[i] = items'[j]
                 PROVE  i = j
      OBVIOUS
    <2>1. \A k \in 1 .. Len(items) : items[k] # hold[t]
      BY <1>7 DEF OneOwner, Queued
    <2>2. QED BY <1>3, <2>1 DEF OneOwner
  <1>10. live' = (Queued' \cup Held' \cup {got'[Control]}) \ {NoSlot}
    BY <1>1, <1>2, <1>5, <1>6, <1>7, SlotsAssumption DEF OneOwner
  <1>11. /\ Queued' \cap (Held' \cup {got'[Control]}) = {}
         /\ got'[Control] # NoSlot => got'[Control] \notin Held'
    <2>1. NoSlot \notin Queued' /\ hold[t] \notin Held'
      BY <1>2, <1>5, <1>6, <1>7, SlotsAssumption
    <2>2. \A x \in Held' : x = NoSlot \/ x \in Held
      BY <1>5
    <2>3. got'[Control] = got[Control]
      BY <1>1
    <2>4. QED BY <1>6, <1>7, <2>1, <2>2, <2>3 DEF OneOwner
  <1>12. QED
    BY <1>4, <1>8, <1>9, <1>10, <1>11 DEF OneOwner

LEMMA OwnersDrop ==
  ASSUME Lifecycle, Owners, OneOwner, NEW t \in Publishers, PublishDrop(t)
  PROVE  Owners' /\ OneOwner'
  <1>1. /\ pub[t] \in Holding /\ pub' = [pub EXCEPT ![t] = "none"]
        /\ live' = live \ {hold[t]} /\ hold' = [hold EXCEPT ![t] = NoSlot]
        /\ UNCHANGED <<items, got, pc>>
    BY DEF PublishDrop, At, queueVars, Release, Pool!Destroy, Holding
  <1>2. Owners'
    BY <1>1, SlotsAssumption DEF Owners, Lifecycle, Places, Holding
  <1>3. Held' \ {NoSlot} = Held \ {hold[t], NoSlot}
    BY <1>1, HeldChanges
  <1>4. /\ hold[t] # NoSlot /\ hold[t] \in Held /\ Queued' = Queued /\ NoSlot \notin Queued
        /\ got'[Control] = got[Control]
    BY <1>1, SlotsAssumption DEF Owners, Held, Queued
  <1>5. \A u, w \in Publishers : hold'[u] = hold'[w] /\ hold'[u] # NoSlot => u = w
    BY <1>1 DEF Owners, OneOwner
  <1>6. live' = (Queued' \cup Held' \cup {got'[Control]}) \ {NoSlot}
    BY <1>1, <1>3, <1>4 DEF OneOwner
  <1>7. /\ Queued' \cap (Held' \cup {got'[Control]}) = {}
        /\ got'[Control] # NoSlot => got'[Control] \notin Held'
    <2>1. \A x \in Held' : x = NoSlot \/ x \in Held
      BY <1>3
    <2>2. QED BY <1>4, <2>1 DEF OneOwner
  <1>8. QED
    BY <1>1, <1>2, <1>5, <1>6, <1>7 DEF OneOwner

LEMMA OwnersPop ==
  ASSUME Lifecycle, Owners, OneOwner, ControlPop
  PROVE  Owners' /\ OneOwner'
  <1>1. /\ pc[Control] = "wait" /\ pc' = [pc EXCEPT ![Control] = "handle"]
        /\ items # <<>> /\ items' = Tail(items) /\ got[Control] = NoSlot
        /\ got' = [got EXCEPT ![Control] = Head(items)]
        /\ UNCHANGED <<live, hold, pub>>
    BY DEF ControlPop, Goto, poolVars, publishVars, Queue!Pop
  <1>2. items \in Seq(Slots)
    BY DEF Owners
  <1>3. /\ items' \in Seq(Slots) /\ Len(items') = Len(items) - 1 /\ Len(items) \in Nat \ {0}
        /\ Head(items) = items[1] /\ Head(items) \in Slots
        /\ \A i \in 1 .. Len(items) - 1 : items'[i] = items[i + 1]
    BY <1>1, <1>2, QueuedPop
  <1>4. got'[Control] = Head(items)
    BY <1>1 DEF Owners
  <1>5. Owners'
    BY <1>1, <1>3, <1>4, SlotsAssumption, Distinct DEF Owners, Lifecycle, Places, Handling
  <1>6. Queued' = Queued \ {Head(items)} /\ Head(items) \in Queued
    <2>1. \A x \in Queued' : x \in Queued \ {Head(items)}
      <3> SUFFICES ASSUME NEW i \in 1 .. Len(items')
                   PROVE  items'[i] \in Queued \ {Head(items)}
        BY DEF Queued
      <3>1. items'[i] = items[i + 1] /\ i + 1 \in 1 .. Len(items) /\ 1 \in 1 .. Len(items)
        BY <1>3
      <3>2. items[i + 1] # items[1]
        BY <3>1 DEF OneOwner
      <3>3. items[i + 1] \in Queued
        BY <3>1 DEF Queued
      <3>4. QED BY <1>3, <3>1, <3>2, <3>3
    <2>2. \A x \in Queued \ {Head(items)} : x \in Queued'
      <3> SUFFICES ASSUME NEW i \in 1 .. Len(items), items[i] # Head(items)
                   PROVE  items[i] \in Queued'
        BY DEF Queued
      <3>1. i - 1 \in 1 .. Len(items') /\ items'[i - 1] = items[i]
        BY <1>3
      <3>2. QED BY <3>1 DEF Queued
    <2>3. Head(items) \in Queued
      BY <1>3 DEF Queued
    <2>4. QED BY <2>1, <2>2, <2>3
  <1>7. Held' = Held
    BY <1>1 DEF Held
  <1>8. \A i, j \in 1 .. Len(items') : items'[i] = items'[j] => i = j
    <2> SUFFICES ASSUME NEW i \in 1 .. Len(items'), NEW j \in 1 .. Len(items'),
                        items'[i] = items'[j]
                 PROVE  i = j
      OBVIOUS
    <2>1. i + 1 \in 1 .. Len(items) /\ j + 1 \in 1 .. Len(items) /\ items[i + 1] = items[j + 1]
      BY <1>3
    <2>2. i + 1 = j + 1
      BY <2>1 DEF OneOwner
    <2>3. QED BY <2>2
  <1>9. /\ live' = (Queued' \cup Held' \cup {got'[Control]}) \ {NoSlot}
        /\ Queued' \cap (Held' \cup {got'[Control]}) = {}
        /\ got'[Control] # NoSlot => got'[Control] \notin Held'
    BY <1>1, <1>3, <1>4, <1>6, <1>7, SlotsAssumption DEF OneOwner
  <1>10. QED
    BY <1>1, <1>5, <1>8, <1>9 DEF OneOwner

LEMMA OwnersRelease ==
  ASSUME Lifecycle, Owners, OneOwner, ControlRelease
  PROVE  Owners' /\ OneOwner'
  <1>1. /\ pc[Control] = "release" /\ pc' = [pc EXCEPT ![Control] = "wait"]
        /\ live' = live \ {got[Control]} /\ got' = [got EXCEPT ![Control] = NoSlot]
        /\ UNCHANGED <<items, hold, pub>>
    BY DEF ControlRelease, Goto, Release, Pool!Destroy, Queue!Return, publishVars
  <1>2. got[Control] # NoSlot /\ got'[Control] = NoSlot
    BY <1>1 DEF Owners, Handling
  <1>3. Owners'
    BY <1>1, <1>2, SlotsAssumption, Distinct DEF Owners, Lifecycle, Places, Handling
  <1>4. Held' = Held /\ Queued' = Queued
    BY <1>1 DEF Held, Queued
  <1>5. /\ live' = (Queued' \cup Held' \cup {got'[Control]}) \ {NoSlot}
        /\ Queued' \cap (Held' \cup {got'[Control]}) = {}
    BY <1>1, <1>2, <1>4, QueuedSlots DEF OneOwner
  <1>6. QED
    BY <1>1, <1>2, <1>3, <1>5 DEF OneOwner

LEMMA OwnersNext == Lifecycle /\ Owners /\ OneOwner /\ [Next]_vars => Owners' /\ OneOwner'
  <1> SUFFICES ASSUME Lifecycle, Owners, OneOwner, [Next]_vars PROVE Owners' /\ OneOwner'
    OBVIOUS
  <1>1. CASE Bystands
    BY <1>1 DEF Bystands, Owners, OneOwner, Queued, Held
  <1>2. Passive => Bystands
    BY DEF Passive
  <1>3. QED
    BY <1>1, <1>2, HandOvers, OwnersCreate, OwnersPush, OwnersDrop, OwnersPop, OwnersRelease

LEMMA OwnersInit == Init => Owners /\ OneOwner
  <1> SUFFICES ASSUME Init PROVE Owners /\ OneOwner
    OBVIOUS
  <1>1. /\ live = {} /\ items = <<>> /\ got = [t \in {Control} |-> NoSlot]
        /\ hold = [t \in Publishers |-> NoSlot] /\ pub = [t \in Publishers |-> "none"]
        /\ pc[Control] = "off"
    BY Distinct DEF Init, Pool!Init, Queue!Init
  <1>2. Owners
    BY <1>1 DEF Owners, Holding, Handling
  <1>3. Queued = {} /\ \A x \in Held : x = NoSlot
    BY <1>1 DEF Queued, Held
  <1>4. QED BY <1>1, <1>2, <1>3 DEF OneOwner

LEMMA OwnersInvariant == Spec => [](Lifecycle /\ Owners /\ OneOwner)
  BY LifecycleInit, LifecycleNext, OwnersInit, OwnersNext, PTL DEF Spec

\* However many clients publish while others start and stop the runtime, and whichever way
\* publish() ends, each live event has one owner and no slot leaks or is freed twice.
THEOREM OwnerCorrect == Spec => []OneOwner
  BY OwnersInvariant, PTL

\* When stop() has returned, the tasks are joined, the queue is closed and drained, and
\* only publishers that were let in before still hold slots of the pool.
THEOREM QuietCorrect == Spec => []StoppedIsQuiet
  <1>1. Lifecycle /\ Owners /\ OneOwner => StoppedIsQuiet
    <2> SUFFICES ASSUME Lifecycle, Owners, OneOwner, StopReturned
                 PROVE  /\ closed /\ items = <<>> /\ ~accepting_events_
                        /\ \A t \in Tasks : pc[t] = "exited"
                        /\ live = Held \ {NoSlot}
                        /\ \A t \in Publishers : pub[t] # "none" => t \in Clients
      BY DEF StoppedIsQuiet
    <2>1. /\ closed /\ items = <<>> /\ ~accepting_events_
          /\ pc[Control] = "exited" /\ pc[Sensor] = "exited" /\ pc[Monitor] = "exited"
      BY DEF Lifecycle, Stopping
    <2>2. pub[Sensor] = "none"
      BY <2>1 DEF Lifecycle, Places
    <2>3. Queued = {} /\ got[Control] = NoSlot
      BY <2>1 DEF Queued, Owners, Handling
    <2>4. live = Held \ {NoSlot}
      BY <2>3 DEF OneOwner
    <2>5. QED BY <2>1, <2>2, <2>4 DEF Tasks, Publishers
  <1>2. QED BY <1>1, OwnersInvariant, PTL

---------------------------------------------------------------------------------
(* The counters.                                                                   *)

Recording == {t \in Publishers : pub[t] = "record"}
InControl == IF pc[Control] \in {"handle", "record"} THEN 1 ELSE 0

Counted ==
    /\ events_published \in Int /\ events_processed \in Int
    /\ events_published + Cardinality(Recording) = events_processed + Len(items) + InControl

LEMMA RecordingFinite == IsFiniteSet(Recording) /\ Cardinality(Recording) \in Nat
  <1>1. IsFiniteSet(Publishers)
    BY ThreadsAssumption, FS_AddElement DEF Publishers
  <1>2. QED BY <1>1, FS_Subset, FS_CardinalityType DEF Recording

\* What the step of a publisher does to Recording.
LEMMA RecordingChanges ==
  ASSUME Lifecycle, NEW t \in Publishers, NEW p, pub' = [pub EXCEPT ![t] = p]
  PROVE  /\ pub[t] # "record" /\ p # "record" => Recording' = Recording
         /\ pub[t] # "record" /\ p = "record" =>
               Cardinality(Recording') = Cardinality(Recording) + 1
         /\ pub[t] = "record" /\ p # "record" =>
               Cardinality(Recording') = Cardinality(Recording) - 1
  <1> USE DEF Lifecycle, Places, Recording
  <1>1. pub[t] # "record" /\ p # "record" => Recording' = Recording
    OBVIOUS
  <1>2. pub[t] # "record" /\ p = "record" => Recording' = Recording \cup {t} /\ t \notin Recording
    OBVIOUS
  <1>3. pub[t] = "record" /\ p # "record" => Recording' = Recording \ {t} /\ t \in Recording
    OBVIOUS
  <1> HIDE DEF Recording
  <1>4. t \notin Recording => Cardinality(Recording \cup {t}) = Cardinality(Recording) + 1
    BY RecordingFinite, FS_AddElement
  <1>5. t \in Recording => Cardinality(Recording \ {t}) = Cardinality(Recording) - 1
    BY RecordingFinite, FS_RemoveElement
  <1>6. QED
    BY <1>1, <1>2, <1>3, <1>4, <1>5

LEMMA CountedPublish ==
  ASSUME Lifecycle, Owners, Counted, NEW t \in Publishers,
         PublishCreate(t) \/ PublishPush(t) \/ PublishDrop(t) \/ PublishRecord(t)
  PROVE  Counted'
  <1>1. Len(items) \in Nat /\ Cardinality(Recording) \in Nat
    BY RecordingFinite DEF Owners
  <1>2. InControl' = InControl
    BY DEF InControl, PublishCreate, PublishPush, PublishDrop, PublishRecord
  <1>3. CASE PublishCreate(t) \/ PublishDrop(t)
    <2>1. \E p \in {"push", "none"} : pub' = [pub EXCEPT ![t] = p]
      BY <1>3 DEF PublishCreate, PublishDrop, At
    <2>2. /\ pub[t] # "record"
          /\ UNCHANGED <<items, events_published, events_processed>>
      BY <1>3 DEF PublishCreate, PublishDrop, At, queueVars, metrics, record_dropped, others
    <2>3. Recording' = Recording
      BY <2>1, <2>2, RecordingChanges
    <2>4. QED BY <1>2, <2>2, <2>3 DEF Counted
  <1>4. CASE PublishPush(t)
    <2>1. /\ pub[t] = "push" /\ pub' = [pub EXCEPT ![t] = "record"]
          /\ items' = Append(items, hold[t])
          /\ UNCHANGED <<events_published, events_processed>>
      BY <1>4 DEF PublishPush, At, metrics, Queue!Push
    <2>2. Cardinality(Recording') = Cardinality(Recording) + 1
      BY <2>1, RecordingChanges
    <2>3. hold[t] \in Slots /\ items \in Seq(Slots)
      BY <2>1 DEF Owners, Holding
    <2>4. Len(items') = Len(items) + 1
      BY <2>1, <2>3, QueuedPush
    <2>5. InControl \in {0, 1}
      BY DEF InControl
    <2>6. QED BY <1>1, <1>2, <2>1, <2>2, <2>4, <2>5 DEF Counted
  <1>5. CASE PublishRecord(t)
    <2>1. /\ pub[t] = "record" /\ pub' = [pub EXCEPT ![t] = "none"]
          /\ events_published' = events_published + 1 /\ UNCHANGED <<items, events_processed>>
      BY <1>5 DEF PublishRecord, At, queueVars, record_published, others
    <2>2. Cardinality(Recording') = Cardinality(Recording) - 1
      <3>1. "none" # "record"
        OBVIOUS
      <3>2. QED BY <2>1, <3>1, RecordingChanges
    <2>3. InControl \in {0, 1}
      BY DEF InControl
    <2>4. QED BY <1>1, <1>2, <2>1, <2>2, <2>3 DEF Counted
  <1>6. QED BY <1>3, <1>4, <1>5

LEMMA CountedControl ==
  ASSUME Lifecycle, Owners, Counted,
         ControlPop \/ ControlHandle \/ ControlRecord \/ ControlRelease
  PROVE  Counted'
  <1>1. Len(items) \in Nat /\ Cardinality(Recording) \in Nat
    BY RecordingFinite DEF Owners
  <1>2. Recording' = Recording
    BY DEF ControlPop, ControlHandle, ControlRecord, ControlRelease, publishVars, Recording
  <1>3. \A p : pc' = [pc EXCEPT ![Control] = p] => pc'[Control] = p
    BY Distinct DEF Lifecycle, Places
  <1>4. CASE ControlPop
    <2>1. /\ items # <<>> /\ items' = Tail(items) /\ pc[Control] = "wait"
          /\ pc' = [pc EXCEPT ![Control] = "handle"]
          /\ UNCHANGED <<events_published, events_processed>>
      BY <1>4 DEF ControlPop, Goto, Queue!Pop, metrics
    <2>2. Len(items') = Len(items) - 1
      BY <2>1, QueuedPop DEF Owners
    <2>3. InControl = 0 /\ InControl' = 1
      BY <1>3, <2>1 DEF InControl
    <2>4. QED BY <1>1, <1>2, <2>1, <2>2, <2>3 DEF Counted
  <1>5. CASE ControlHandle \/ ControlRelease
    <2>1. UNCHANGED <<items, events_published, events_processed>>
      BY <1>5 DEF ControlHandle, ControlRelease, queueVars, metrics, Queue!Return
    <2>2. InControl' = InControl
      BY <1>3, <1>5 DEF ControlHandle, ControlRelease, Goto, InControl
    <2>3. QED BY <1>2, <2>1, <2>2 DEF Counted
  <1>6. CASE ControlRecord
    <2>1. /\ pc[Control] = "record" /\ pc' = [pc EXCEPT ![Control] = "release"]
          /\ events_processed' = events_processed + 1 /\ UNCHANGED <<items, events_published>>
      BY <1>6 DEF ControlRecord, Goto, queueVars
    <2>2. InControl = 1 /\ InControl' = 0
      BY <1>3, <2>1 DEF InControl
    <2>3. QED BY <1>1, <1>2, <2>1, <2>2 DEF Counted
  <1>7. QED BY <1>4, <1>5, <1>6

LEMMA CountedNext == Lifecycle /\ Owners /\ Counted /\ [Next]_vars => Counted'
  <1> SUFFICES ASSUME Lifecycle, Owners, Counted, [Next]_vars PROVE Counted'
    OBVIOUS
  <1>1. CASE Passive
    BY <1>1 DEF Passive, Bystands, Counted, Recording, InControl, Handling
  <1>2. ASSUME NEW c \in Clients, StopClose(c), Bystands PROVE Counted'
    <2>1. pc'[Control] = pc[Control]
      BY <1>2, Distinct DEF StopClose, Goto, Lifecycle, Places
    <2>2. UNCHANGED <<items, pub, events_published, events_processed>>
      BY <1>2 DEF StopClose, Bystands, publishVars, metrics
    <2>3. QED BY <2>1, <2>2 DEF Counted, Recording, InControl
  <1>3. QED
    BY <1>1, <1>2, HandOvers, CountedPublish, CountedControl

\* The metrics account for every event that was queued, however many publishers are
\* between wait_push and record_published.
THEOREM AccountsCorrect == Spec => []EventsAccounted
  <1>1. Init => Counted
    <2> SUFFICES ASSUME Init PROVE Counted
      OBVIOUS
    <2>1. Recording = {} /\ InControl = 0 /\ items = <<>>
      BY Distinct DEF Init, Recording, InControl, Queue!Init
    <2>2. QED BY <2>1, FS_EmptySet DEF Init, Counted
  <1>2. Counted => EventsAccounted
    BY DEF Counted, EventsAccounted, Recording, InControl
  <1>3. QED BY <1>1, <1>2, CountedNext, OwnersInvariant, PTL DEF Spec
=================================================================================
