--------------------------- MODULE BoundedQueueProofs ---------------------------
(* Proofs about BoundedQueue: for every number of threads, every set of values   *)
(* and every capacity.                                                           *)
EXTENDS BoundedQueue, FiniteSetTheorems, SequenceTheorems, TLAPS

\* The index after x, around the end of the array.
LEMMA Successor ==
    ASSUME NEW x \in Index
    PROVE  (x + 1) % Capacity = IF x + 1 = Capacity THEN 0 ELSE x + 1
BY CapacityAssumption DEF Index

LEMMA SuccessorType ==
    ASSUME NEW x \in Index
    PROVE  (x + 1) % Capacity \in Index
BY Successor, CapacityAssumption DEF Index

LEMMA AwakeType ==
    ASSUME NEW p \in PCs
    PROVE  Awake(p) \in PCs
BY DEF PCs, Awake

LEMMA ExpiredType ==
    ASSUME NEW p
    PROVE  Expired(p) \in PCs
BY DEF PCs, Expired

---------------------------------------------------------------------------------
(* What a step does to the ring, and what it does to the threads, apart.         *)

RingSame ==
    /\ UNCHANGED <<slots_, head_, tail_, size_>>
    /\ stats_' \in [high_watermark : {stats_.high_watermark}, pushed : {stats_.pushed},
                    popped : {stats_.popped}, rejected_full : Nat, push_timeouts : Nat]

Pushes(v) == v \in Values /\ ~closed_ /\ size_ < Capacity /\ push_locked(v)

Pops == size_ > 0 /\ pop_locked

RingType ==
    /\ slots_ \in [Index -> Values \cup {NoValue}]
    /\ head_ \in Index
    /\ tail_ \in Index
    /\ size_ \in 0 .. Capacity
    /\ stats_ \in [high_watermark : Nat, pushed : Nat, popped : Nat,
                   rejected_full : Nat, push_timeouts : Nat]

LEMMA RingUnchanged ==
    ASSUME TypeOK, UNCHANGED ring
    PROVE  RingSame
BY DEF TypeOK, RingSame, ring

LEMMA RingTypePreserved ==
    ASSUME TypeOK, RingSame \/ (\E v : Pushes(v)) \/ Pops
    PROVE  RingType'
<1>1. CASE RingSame
  BY <1>1 DEF TypeOK, RingSame, RingType
<1>2. ASSUME NEW v, Pushes(v) PROVE RingType'
  <2>1. tail_' \in Index
    <3>1. tail_ \in Index /\ tail_' = (tail_ + 1) % Capacity
      BY <1>2 DEF Pushes, push_locked, TypeOK
    <3>2. QED
      BY <3>1, SuccessorType
  <2>2. slots_' \in [Index -> Values \cup {NoValue}] /\ head_' \in Index
    BY <1>2 DEF Pushes, push_locked, TypeOK
  <2>3. size_' \in 0 .. Capacity
    BY <1>2, CapacityAssumption DEF Pushes, push_locked, TypeOK
  <2>4. stats_' \in [high_watermark : Nat, pushed : Nat, popped : Nat,
                     rejected_full : Nat, push_timeouts : Nat]
    <3> DEFINE high == IF size_ + 1 > stats_.high_watermark THEN size_ + 1
                       ELSE stats_.high_watermark
               pushed == stats_.pushed + 1
    <3>1. high \in Nat /\ pushed \in Nat
      BY CapacityAssumption DEF TypeOK
    <3>2. stats_' = [stats_ EXCEPT !.pushed = pushed, !.high_watermark = high]
      BY <1>2 DEF Pushes, push_locked, TypeOK
    <3> HIDE DEF high, pushed
    <3>3. QED
      BY <3>1, <3>2 DEF TypeOK
  <2>5. QED
    BY <2>1, <2>2, <2>3, <2>4 DEF RingType
<1>3. CASE Pops
  <2>1. head_' \in Index
    <3>1. head_ \in Index /\ head_' = (head_ + 1) % Capacity
      BY <1>3 DEF Pops, pop_locked, TypeOK
    <3>2. QED
      BY <3>1, SuccessorType
  <2>2. QED
    BY <1>3, <2>1, CapacityAssumption DEF Pops, pop_locked, TypeOK, RingType
<1>4. QED
  BY <1>1, <1>2, <1>3

\* A thread's own part of a step: its position and the value its call holds.
Moves(t, p, v) ==
    /\ pc' = [pc EXCEPT ![t] = p]
    /\ val' = [val EXCEPT ![t] = v]

\* The ways the critical section of a push or a pop can end.
LEMMA FinishPushCases ==
    ASSUME TypeOK, NEW t \in Threads, NEW v \in Values, PushReady, FinishPush(t, v)
    PROVE  \/ closed_ /\ RingSame /\ Moves(t, "idle", NoValue)
           \/ Pushes(v) /\ Moves(t, "notify_not_empty", NoValue)
BY RingUnchanged DEF FinishPush, PushReady, Return, PushAndUnlock, Pushes, Moves

LEMMA FinishPopCases ==
    ASSUME TypeOK, NEW t \in Threads, FinishPop(t)
    PROVE  \/ size_ = 0 /\ RingSame /\ Moves(t, "idle", NoValue)
           \/ Pops /\ Moves(t, "notify_not_full", slots_[head_])
BY RingUnchanged DEF FinishPop, Return, PopAndUnlock, Pops, Moves

\* A thread that waits to push, or has just been woken, still holds its parameter.
HoldsParameter ==
    \A t \in Threads : pc[t] \in {"wait_push", "push_awake", "push_expired"} => val[t] \in Values

\* The value a push brings: one new to the queue, or the parameter held so far.
Offered(t, v) ==
    /\ v \in Values
    /\ IF pc[t] = "idle" THEN v \in Fresh ELSE v = val[t]

\* The steps by their effect.  A case says where the thread was, what its critical
\* section found and did, and where the thread goes.
PushDone(t) ==
    /\ pc[t] \in {"idle", "push_awake", "push_expired"}
    /\ \E v : Offered(t, v) /\ Pushes(v)
    /\ Moves(t, "notify_not_empty", NoValue)

PushRefused(t) ==
    /\ pc[t] \in {"idle", "push_awake", "push_expired"}
    /\ closed_ \/ size_ = Capacity
    /\ RingSame
    /\ Moves(t, "idle", NoValue)

PushSleeps(t) ==
    /\ pc[t] \in {"idle", "push_awake"}
    /\ ~closed_ /\ size_ = Capacity
    /\ RingSame
    /\ \E v : Offered(t, v) /\ Moves(t, "wait_push", v)

PopDone(t) ==
    /\ pc[t] \in {"idle", "pop_awake", "pop_for_awake", "pop_for_expired"}
    /\ Pops
    /\ Moves(t, "notify_not_full", slots_[head_])

PopEmpty(t) ==
    /\ pc[t] \in {"idle", "pop_awake", "pop_for_awake", "pop_for_expired"}
    /\ size_ = 0
    /\ RingSame
    /\ Moves(t, "idle", NoValue)

PopSleeps(t) ==
    /\ pc[t] \in {"idle", "pop_awake", "pop_for_awake"}
    /\ ~closed_ /\ size_ = 0
    /\ RingSame
    /\ \E p \in WaitsNotEmpty : Moves(t, p, NoValue)

Locked(t) ==
    \/ PushDone(t) \/ PushRefused(t) \/ PushSleeps(t)
    \/ PopDone(t) \/ PopEmpty(t) \/ PopSleeps(t)

\* The steps that take no lock.
Outside(t) ==
    \/ NotifyNotEmpty(t) \/ NotifyNotFull(t) \/ NotifyAllNotEmpty(t) \/ NotifyAllNotFull(t)
    \/ Expire(t) \/ SpuriousWakeup(t)

\* A push that waits, at any of the places where its predicate is evaluated.
LEMMA PushCases ==
    ASSUME TypeOK, NEW t \in Threads, NEW v, Offered(t, v),
           pc[t] \in {"idle", "push_awake", "push_expired"},
           PushReady /\ FinishPush(t, v)
    PROVE  PushDone(t) \/ PushRefused(t)
BY FinishPushCases DEF PushDone, PushRefused, Offered

LEMMA PopCases ==
    ASSUME TypeOK, NEW t \in Threads, FinishPop(t),
           pc[t] \in {"idle", "pop_awake", "pop_for_awake", "pop_for_expired"}
    PROVE  PopDone(t) \/ PopEmpty(t)
BY FinishPopCases DEF PopDone, PopEmpty

LEMMA PushSleepCases ==
    ASSUME TypeOK, NEW t \in Threads, NEW v, Offered(t, v),
           pc[t] \in {"idle", "push_awake"}, ~PushReady, Sleep(t, "wait_push", v)
    PROVE  PushSleeps(t)
<1>1. ~closed_ /\ size_ = Capacity
  BY CapacityAssumption DEF PushReady, TypeOK
<1>2. RingSame /\ Moves(t, "wait_push", v)
  BY RingUnchanged DEF Sleep, Moves
<1>3. QED
  BY <1>1, <1>2 DEF PushSleeps

LEMMA PopSleepCases ==
    ASSUME TypeOK, NEW t \in Threads, NEW p \in WaitsNotEmpty,
           pc[t] \in {"idle", "pop_awake", "pop_for_awake"}, ~PopReady, Sleep(t, p, NoValue)
    PROVE  PopSleeps(t)
<1>1. ~closed_ /\ size_ = 0
  BY CapacityAssumption DEF PopReady, TypeOK
<1>2. RingSame /\ Moves(t, p, NoValue)
  BY RingUnchanged DEF Sleep, Moves
<1>3. QED
  BY <1>1, <1>2 DEF PopSleeps

\* Every step is one of the cases above, or close().
LEMMA StepCases ==
    ASSUME TypeOK, HoldsParameter, Next
    PROVE  \E t \in Threads :
               \/ Locked(t) /\ UNCHANGED closed_ /\ calls' \in 0 .. MaxCalls
               \/ Close(t)
               \/ Outside(t)
<1>1. PICK t \in Threads :
        \/ \E v \in Fresh : TryPush(t, v) \/ WaitPush(t, v)
        \/ TryPop(t) \/ WaitPop(t) \/ WaitPopFor(t) \/ Close(t)
        \/ Continue(t) \/ Expire(t) \/ SpuriousWakeup(t)
  BY DEF Next
<1>2. ASSUME Call(t) PROVE pc[t] = "idle" /\ calls' \in 0 .. MaxCalls
  BY <1>2, MaxCallsAssumption DEF Call, TypeOK
<1>3. ASSUME NEW v \in Fresh, TryPush(t, v)
      PROVE  Locked(t) /\ UNCHANGED closed_ /\ calls' \in 0 .. MaxCalls
  <2>1. Offered(t, v) /\ pc[t] = "idle" /\ calls' \in 0 .. MaxCalls
    BY <1>2, <1>3 DEF TryPush, Offered, Fresh
  <2>2. CASE closed_ /\ Return(t) /\ UNCHANGED ring
    BY <1>3, <2>1, <2>2, RingUnchanged DEF Locked, PushRefused, Return, Moves, TryPush
  <2>3. CASE /\ ~closed_ /\ size_ = Capacity
             /\ stats_' = [stats_ EXCEPT !.rejected_full = @ + 1]
             /\ Return(t)
             /\ UNCHANGED <<slots_, head_, tail_, size_>>
    <3>1. RingSame
      BY <2>3 DEF RingSame, TypeOK
    <3>2. QED
      BY <2>1, <2>3, <3>1, <1>3 DEF Locked, PushRefused, Return, Moves, TryPush
  <2>4. CASE ~closed_ /\ size_ # Capacity /\ PushAndUnlock(t, v)
    <3>1. PushReady /\ FinishPush(t, v)
      BY <2>4, CapacityAssumption DEF PushReady, FinishPush, TypeOK
    <3>2. QED
      BY <2>1, <3>1, PushCases, <1>3 DEF Locked, TryPush
  <2>5. QED
    BY <1>3, <2>1, <2>2, <2>3, <2>4 DEF TryPush
<1>4. ASSUME NEW v \in Fresh, WaitPush(t, v)
      PROVE  Locked(t) /\ UNCHANGED closed_ /\ calls' \in 0 .. MaxCalls
  <2>1. Offered(t, v) /\ pc[t] = "idle" /\ calls' \in 0 .. MaxCalls
    BY <1>2, <1>4 DEF WaitPush, Offered, Fresh
  <2>2. QED
    BY <1>4, <2>1, PushCases, PushSleepCases DEF WaitPush, Locked
<1>5. CASE TryPop(t) \/ WaitPop(t) \/ WaitPopFor(t)
  BY <1>2, <1>5, PopCases, PopSleepCases DEF TryPop, WaitPop, WaitPopFor, Locked, WaitsNotEmpty
<1>6. CASE WaitPushAwake(t)
  <2>1. Offered(t, val[t]) /\ pc[t] = "push_awake"
    BY <1>6 DEF WaitPushAwake, Offered, HoldsParameter
  <2>2. QED
    BY <1>6, <2>1, PushCases, PushSleepCases DEF WaitPushAwake, Locked, TypeOK
<1>7. CASE WaitPushExpired(t)
  <2>1. Offered(t, val[t]) /\ pc[t] = "push_expired"
    BY <1>7 DEF WaitPushExpired, Offered, HoldsParameter
  <2>2. CASE PushReady /\ FinishPush(t, val[t])
    BY <1>7, <2>1, <2>2, PushCases DEF WaitPushExpired, Locked, TypeOK
  <2>3. CASE /\ ~PushReady
             /\ stats_' = [stats_ EXCEPT !.push_timeouts = @ + 1]
             /\ Return(t)
             /\ UNCHANGED <<slots_, head_, tail_, size_>>
    <3>1. RingSame
      BY <2>3 DEF RingSame, TypeOK
    <3>2. size_ = Capacity
      BY <2>3, CapacityAssumption DEF PushReady, TypeOK
    <3>3. QED
      BY <1>7, <2>1, <2>3, <3>1, <3>2
      DEF WaitPushExpired, Locked, PushRefused, Return, Moves, TypeOK
  <2>4. QED
    BY <1>7, <2>2, <2>3 DEF WaitPushExpired
<1>8. CASE WaitPopAwake(t) \/ WaitPopForAwake(t) \/ WaitPopForExpired(t)
  BY <1>8, PopCases, PopSleepCases
  DEF WaitPopAwake, WaitPopForAwake, WaitPopForExpired, Locked, WaitsNotEmpty, TypeOK
<1>9. QED
  BY <1>1, <1>3, <1>4, <1>5, <1>6, <1>7, <1>8 DEF Continue, Outside

---------------------------------------------------------------------------------
(* Types, and the parameter a waiting push holds.                                *)

LEMMA NotifyType ==
    ASSUME TypeOK, NEW t \in Threads, NEW waits, NEW next \in PCs,
           NotifyOne(t, waits, next) \/ NotifyAll(t, waits, next)
    PROVE  pc' \in [Threads -> PCs]
<1>1. \A u \in Threads : pc[u] \in PCs /\ Awake(pc[u]) \in PCs
  BY AwakeType DEF TypeOK
<1>2. CASE NotifyOne(t, waits, next)
  BY <1>1, <1>2 DEF NotifyOne, TypeOK, At
<1>3. CASE NotifyAll(t, waits, next)
  BY <1>1, <1>3 DEF NotifyAll, TypeOK
<1>4. QED
  BY <1>2, <1>3

\* The ring and closed_ belong to the critical sections.
LEMMA OutsideUnchanged ==
    ASSUME NEW t \in Threads, Outside(t)
    PROVE  UNCHANGED <<slots_, head_, tail_, size_, stats_, closed_, calls>>
BY DEF Outside, NotifyNotEmpty, NotifyNotFull, NotifyAllNotEmpty, NotifyAllNotFull, Expire,
       SpuriousWakeup, ring

LEMMA OutsideType ==
    ASSUME TypeOK, NEW t \in Threads, Outside(t)
    PROVE  pc' \in [Threads -> PCs] /\ val' \in [Threads -> Values \cup {NoValue}]
<1>1. "idle" \in PCs /\ "notify_all_not_full" \in PCs
  BY DEF PCs
<1>2. CASE NotifyNotEmpty(t) \/ NotifyNotFull(t) \/ NotifyAllNotEmpty(t) \/ NotifyAllNotFull(t)
  BY <1>1, <1>2, NotifyType
  DEF NotifyNotEmpty, NotifyNotFull, NotifyAllNotEmpty, NotifyAllNotFull, TypeOK
<1>3. CASE Expire(t)
  BY <1>3, ExpiredType DEF Expire, TypeOK
<1>4. CASE SpuriousWakeup(t)
  BY <1>4, AwakeType DEF SpuriousWakeup, TypeOK
<1>5. QED
  BY <1>2, <1>3, <1>4 DEF Outside

LEMMA LockedRing ==
    ASSUME NEW t, Locked(t)
    PROVE  RingSame \/ (\E v : Pushes(v)) \/ Pops
BY DEF Locked, PushDone, PushRefused, PushSleeps, PopDone, PopEmpty, PopSleeps

LEMMA LockedType ==
    ASSUME TypeOK, NEW t \in Threads, Locked(t)
    PROVE  pc' \in [Threads -> PCs] /\ val' \in [Threads -> Values \cup {NoValue}]
<1>1. \E p \in PCs, v \in Values \cup {NoValue} : Moves(t, p, v)
  <2>1. slots_[head_] \in Values \cup {NoValue}
    BY DEF TypeOK
  <2>2. QED
    BY <2>1 DEF Locked, PushDone, PushRefused, PushSleeps, PopDone, PopEmpty, PopSleeps,
                WaitsNotEmpty, PCs, Offered
<1>2. QED
  BY <1>1 DEF Moves, TypeOK

LEMMA TypePreserved ==
    ASSUME TypeOK, HoldsParameter, [Next]_vars
    PROVE  TypeOK'
<1>1. CASE UNCHANGED vars
  BY <1>1 DEF vars, TypeOK
<1>2. ASSUME NEW t \in Threads, Locked(t), UNCHANGED closed_, calls' \in 0 .. MaxCalls
      PROVE  TypeOK'
  <2>1. RingType'
    BY <1>2, LockedRing, RingTypePreserved
  <2>2. pc' \in [Threads -> PCs] /\ val' \in [Threads -> Values \cup {NoValue}]
    BY <1>2, LockedType
  <2>3. QED
    BY <1>2, <2>1, <2>2, Zenon DEF TypeOK, RingType
<1>3. ASSUME NEW t \in Threads, Close(t) PROVE TypeOK'
  <2>1. calls' \in 0 .. MaxCalls
    BY <1>3, MaxCallsAssumption DEF Close, Call, TypeOK
  <2>2. RingType'
    BY <1>3, RingUnchanged, RingTypePreserved DEF Close
  <2>3. pc' \in [Threads -> PCs] /\ val' \in [Threads -> Values \cup {NoValue}]
    BY <1>3 DEF Close, TypeOK, PCs
  <2>4. closed_' \in BOOLEAN
    BY <1>3 DEF Close
  <2>5. QED
    BY <2>1, <2>2, <2>3, <2>4, Zenon DEF TypeOK, RingType
<1>4. ASSUME NEW t \in Threads, Outside(t) PROVE TypeOK'
  <2>1. pc' \in [Threads -> PCs] /\ val' \in [Threads -> Values \cup {NoValue}]
    BY <1>4, OutsideType
  <2>2. UNCHANGED <<slots_, head_, tail_, size_, stats_, closed_, calls>>
    BY <1>4, OutsideUnchanged
  <2>3. QED
    BY <2>1, <2>2 DEF TypeOK
<1>5. QED
  BY <1>1, <1>2, <1>3, <1>4, StepCases

LEMMA NotifyThread ==
    ASSUME TypeOK, NEW t \in Threads, NEW waits, NEW next, NEW u \in Threads,
           NotifyOne(t, waits, next) \/ NotifyAll(t, waits, next)
    PROVE  \/ pc'[u] = pc[u]
           \/ pc[u] \in waits /\ pc'[u] = Awake(pc[u])
           \/ u = t /\ pc'[u] = next
<1> USE DEF TypeOK
<1>1. ASSUME pc' = [pc EXCEPT ![t] = next] PROVE pc'[u] = pc[u] \/ (u = t /\ pc'[u] = next)
  BY <1>1
<1>2. ASSUME NEW w \in At(waits), pc' = [pc EXCEPT ![t] = next, ![w] = Awake(pc[w])]
      PROVE  \/ pc'[u] = pc[u]
             \/ pc[u] \in waits /\ pc'[u] = Awake(pc[u])
             \/ u = t /\ pc'[u] = next
  <2>1. w \in Threads /\ pc[w] \in waits
    BY DEF At
  <2> HIDE DEF TypeOK
  <2>2. pc \in [Threads -> PCs]
    BY DEF TypeOK
  <2>3. QED
    BY <1>2, <2>1, <2>2
<1>3. CASE NotifyAll(t, waits, next)
  <2>1. pc'[u] = IF u = t THEN next ELSE IF pc[u] \in waits THEN Awake(pc[u]) ELSE pc[u]
    BY <1>3 DEF NotifyAll
  <2>2. QED
    BY <2>1
<1>4. QED
  BY <1>1, <1>2, <1>3 DEF NotifyOne

\* What a step outside the lock can do to a thread, the notifier or another.
LEMMA OutsideThread ==
    ASSUME TypeOK, NEW t \in Threads, Outside(t), NEW u \in Threads
    PROVE  /\ \/ pc'[u] = pc[u]
              \/ pc[u] \in WaitsNotEmpty \cup WaitsNotFull /\ pc'[u] = Awake(pc[u])
              \/ pc[u] \in Timed /\ pc'[u] = Expired(pc[u])
              \/ pc'[u] \in {"idle", "notify_all_not_full"}
           /\ val'[u] = val[u] \/ (val'[u] = NoValue /\ pc[u] = "notify_not_full")
<1>1. CASE \/ NotifyNotEmpty(t) \/ NotifyNotFull(t) \/ NotifyAllNotEmpty(t) \/ NotifyAllNotFull(t)
  <2>1. \/ pc'[u] = pc[u]
        \/ pc[u] \in WaitsNotEmpty \cup WaitsNotFull /\ pc'[u] = Awake(pc[u])
        \/ pc'[u] \in {"idle", "notify_all_not_full"}
    BY <1>1, NotifyThread
    DEF NotifyNotEmpty, NotifyNotFull, NotifyAllNotEmpty, NotifyAllNotFull
  <2>2. val'[u] = val[u] \/ (val'[u] = NoValue /\ pc[u] = "notify_not_full")
    BY <1>1 DEF NotifyNotEmpty, NotifyNotFull, NotifyAllNotEmpty, NotifyAllNotFull, TypeOK
  <2>3. QED
    BY <2>1, <2>2
<1>2. CASE Expire(t)
  <2>1. val' = val /\ pc[t] \in Timed /\ pc' = [pc EXCEPT ![t] = Expired(pc[t])]
    BY <1>2 DEF Expire
  <2>2. QED
    BY <2>1 DEF TypeOK
<1>3. CASE SpuriousWakeup(t)
  <2>1. /\ val' = val /\ pc[t] \in WaitsNotEmpty \cup WaitsNotFull
        /\ pc' = [pc EXCEPT ![t] = Awake(pc[t])]
    BY <1>3 DEF SpuriousWakeup
  <2>2. QED
    BY <2>1 DEF TypeOK
<1>4. QED
  BY <1>1, <1>2, <1>3 DEF Outside

LEMMA ParameterPreserved ==
    ASSUME TypeOK, HoldsParameter, [Next]_vars
    PROVE  HoldsParameter'
<1>1. CASE UNCHANGED vars
  BY <1>1 DEF vars, HoldsParameter
<1>2. ASSUME NEW t \in Threads, Locked(t) PROVE HoldsParameter'
  <2>1. \E p, v : /\ Moves(t, p, v)
                  /\ p \in {"wait_push", "push_awake", "push_expired"} => v \in Values
    BY <1>2 DEF Locked, PushDone, PushRefused, PushSleeps, PopDone, PopEmpty, PopSleeps,
                WaitsNotEmpty, Offered
  <2>2. QED
    BY <2>1 DEF Moves, HoldsParameter, TypeOK
<1>3. ASSUME NEW t \in Threads, Close(t) PROVE HoldsParameter'
  BY <1>3 DEF Close, HoldsParameter, TypeOK
<1>4. ASSUME NEW t \in Threads, Outside(t) PROVE HoldsParameter'
  <2> SUFFICES ASSUME NEW u \in Threads,
                      pc'[u] \in {"wait_push", "push_awake", "push_expired"}
               PROVE  val'[u] \in Values
    BY DEF HoldsParameter
  <2>1. pc[u] \in {"wait_push", "push_awake", "push_expired"}
    BY <1>4, OutsideThread DEF Awake, Expired, WaitsNotEmpty, WaitsNotFull, Timed
  <2>2. QED
    BY <1>4, <2>1, OutsideThread DEF HoldsParameter
<1>5. QED
  BY <1>1, <1>2, <1>3, <1>4, StepCases

\* TypeOK is not inductive alone: a woken wait_push pushes what it holds.
LEMMA TypesInvariant == Spec => [](TypeOK /\ HoldsParameter)
<1>1. Init => TypeOK /\ HoldsParameter
  <2> SUFFICES ASSUME Init PROVE TypeOK /\ HoldsParameter
    OBVIOUS
  <2>1. HoldsParameter /\ pc \in [Threads -> PCs] /\ val \in [Threads -> Values \cup {NoValue}]
    BY DEF Init, HoldsParameter, PCs
  <2>2. /\ slots_ \in [Index -> Values \cup {NoValue}]
        /\ head_ \in Index /\ tail_ \in Index /\ size_ \in 0 .. Capacity /\ calls \in 0 .. MaxCalls
    BY CapacityAssumption, MaxCallsAssumption DEF Init, Index
  <2>3. stats_ \in [high_watermark : Nat, pushed : Nat, popped : Nat,
                    rejected_full : Nat, push_timeouts : Nat]
    BY DEF Init
  <2>4. QED
    BY <2>1, <2>2, <2>3 DEF Init, TypeOK
<1>2. TypeOK /\ HoldsParameter /\ [Next]_vars => TypeOK' /\ HoldsParameter'
  BY TypePreserved, ParameterPreserved
<1>3. QED
  BY <1>1, <1>2, PTL DEF Spec

\* BoundedQueue keeps its members in their ranges: head_ and tail_ index slots_ and
\* size_ never passes the capacity, for every capacity and every number of threads.
THEOREM TypeCorrect == Spec => []TypeOK
BY TypesInvariant, PTL

---------------------------------------------------------------------------------
(* The ring.                                                                     *)

\* Seen from the ring a step is nothing, a push or a pop.
LEMMA RingCases ==
    ASSUME TypeOK, HoldsParameter, [Next]_vars
    PROVE  RingSame \/ (\E v : Pushes(v)) \/ Pops
<1>1. CASE UNCHANGED vars
  BY <1>1, RingUnchanged DEF vars, ring
<1>2. ASSUME NEW t \in Threads, Close(t) PROVE RingSame
  BY <1>2, RingUnchanged DEF Close
<1>3. ASSUME NEW t \in Threads, Outside(t) PROVE RingSame
  BY <1>3, OutsideUnchanged, RingUnchanged DEF ring
<1>4. QED
  BY <1>1, <1>2, <1>3, LockedRing, StepCases

LEMMA WindowPreserved ==
    ASSUME TypeOK, RingWindow, RingSame \/ (\E v : Pushes(v)) \/ Pops
    PROVE  RingWindow'
<1>1. CASE RingSame
  BY <1>1 DEF RingSame, RingWindow, Offset, SlotAt
<1>2. ASSUME NEW v, Pushes(v) PROVE RingWindow'
  <2>1. Offset(tail_) = size_ /\ \A i \in Index : Offset(i) = size_ => i = tail_
    BY <1>2, CapacityAssumption DEF Pushes, RingWindow, SlotAt, Offset, TypeOK, Index
  <2>2. \A i \in Index : Offset(i)' = Offset(i) /\ Offset(i) \in Nat
    <3>1. head_' = head_
      BY <1>2 DEF Pushes, push_locked
    <3>2. QED
      BY <3>1, CapacityAssumption DEF Offset, TypeOK, Index
  <2>3. \A i \in Index : slots_'[i] = IF i = tail_ THEN v ELSE slots_[i]
    BY <1>2 DEF Pushes, push_locked, TypeOK
  <2>4. ASSUME NEW i \in Index PROVE slots_'[i] # NoValue <=> Offset(i)' < size_'
    <3>1. v # NoValue /\ size_' = size_ + 1 /\ size_ \in Nat
      BY <1>2, ValuesAssumption, CapacityAssumption DEF Pushes, push_locked, TypeOK
    <3>2. QED
      BY <2>1, <2>2, <2>3, <3>1 DEF RingWindow
  <2>5. tail_' = SlotAt(size_)'
    <3>1. tail_' = (IF tail_ + 1 = Capacity THEN 0 ELSE tail_ + 1)
      BY <1>2, Successor DEF Pushes, push_locked, TypeOK
    <3>2. head_' = head_ /\ size_' = size_ + 1 /\ size_ < Capacity
      BY <1>2 DEF Pushes, push_locked
    <3>3. QED
      BY <3>1, <3>2, CapacityAssumption DEF RingWindow, SlotAt, TypeOK, Index
  <2>6. QED
    BY <2>4, <2>5 DEF RingWindow
<1>3. CASE Pops
  <2>1. head_' = IF head_ + 1 = Capacity THEN 0 ELSE head_ + 1
    BY <1>3, Successor DEF Pops, pop_locked, TypeOK
  <2>2. \A i \in Index : /\ Offset(i) \in Nat
                         /\ i # head_ => Offset(i) > 0 /\ Offset(i)' = Offset(i) - 1
    BY <2>1, CapacityAssumption DEF Offset, TypeOK, Index
  <2>4. \A i \in Index : slots_'[i] = IF i = head_ THEN NoValue ELSE slots_[i]
    BY <1>3 DEF Pops, pop_locked, TypeOK
  <2>5. size_' = size_ - 1 /\ size_ \in 1 .. Capacity
    BY <1>3 DEF Pops, pop_locked, TypeOK
  <2>6. ASSUME NEW i \in Index PROVE slots_'[i] # NoValue <=> Offset(i)' < size_'
    BY <2>1, <2>2, <2>4, <2>5, CapacityAssumption DEF RingWindow, Offset, TypeOK, Index
  <2>7. tail_' = SlotAt(size_)'
    <3>1. tail_' = tail_
      BY <1>3 DEF Pops, pop_locked
    <3>2. QED
      BY <2>1, <2>5, <3>1, CapacityAssumption DEF RingWindow, SlotAt, TypeOK, Index
  <2>8. QED
    BY <2>6, <2>7 DEF RingWindow
<1>4. QED
  BY <1>1, <1>2, <1>3

\* push_locked never overwrites a queued value, pop_locked never dereferences an
\* empty optional, and the two indices agree with size_ after any number of turns
\* around the array.
THEOREM WindowCorrect == Spec => []RingWindow
<1>1. Init => RingWindow
  BY CapacityAssumption DEF Init, RingWindow, Offset, SlotAt, Index
<1>2. TypeOK /\ HoldsParameter /\ RingWindow /\ [Next]_vars => RingWindow'
  BY RingCases, WindowPreserved
<1>3. QED
  BY <1>1, <1>2, TypesInvariant, PTL DEF Spec

LEMMA StatsPreserved ==
    ASSUME TypeOK, StatsBalance, RingSame \/ (\E v : Pushes(v)) \/ Pops
    PROVE  StatsBalance'
<1>1. CASE RingSame
  <2>1. /\ stats_'.pushed = stats_.pushed /\ stats_'.popped = stats_.popped
        /\ stats_'.high_watermark = stats_.high_watermark /\ size_' = size_
    BY <1>1 DEF RingSame
  <2>2. QED
    BY <2>1 DEF StatsBalance
<1>2. ASSUME NEW v, Pushes(v) PROVE StatsBalance'
  <2>1. /\ stats_'.pushed = stats_.pushed + 1 /\ stats_'.popped = stats_.popped
        /\ size_' = size_ + 1 /\ size_ < Capacity
        /\ stats_'.high_watermark = IF size_ + 1 > stats_.high_watermark THEN size_ + 1
                                    ELSE stats_.high_watermark
    BY <1>2 DEF Pushes, push_locked, TypeOK
  <2>2. QED
    BY <2>1, CapacityAssumption DEF StatsBalance, TypeOK
<1>3. CASE Pops
  <2>1. /\ stats_'.pushed = stats_.pushed /\ stats_'.popped = stats_.popped + 1
        /\ stats_'.high_watermark = stats_.high_watermark /\ size_' = size_ - 1
    BY <1>3 DEF Pops, pop_locked, TypeOK
  <2>2. QED
    BY <2>1, CapacityAssumption DEF StatsBalance, TypeOK
<1>4. QED
  BY <1>1, <1>2, <1>3

\* The statistics another thread reads are those of one moment: what was pushed was
\* popped or is queued, and the watermark is between the size and the capacity.
THEOREM StatsCorrect == Spec => []StatsBalance
<1>1. Init => StatsBalance
  BY CapacityAssumption DEF Init, StatsBalance
<1>2. TypeOK /\ HoldsParameter /\ StatsBalance /\ [Next]_vars => StatsBalance'
  BY RingCases, StatsPreserved
<1>3. QED
  BY <1>1, <1>2, TypesInvariant, PTL DEF Spec

---------------------------------------------------------------------------------
(* One place for every value.                                                    *)

LEMMA FreshIsNowhere ==
    ASSUME TypeOK, NEW v \in Fresh
    PROVE  v \in Values /\ (\A i \in Index : slots_[i] # v) /\ (\A t \in Threads : val[t] # v)
BY DEF Fresh, Range, TypeOK

\* A value offered is in no slot, and no other thread holds it.
LEMMA OfferedIsAlone ==
    ASSUME TypeOK, SinglePlace, NEW t \in Threads, NEW v, Offered(t, v)
    PROVE  /\ v # NoValue
           /\ \A i \in Index : slots_[i] # v
           /\ \A u \in Threads \ {t} : val[u] # v
BY FreshIsNowhere, ValuesAssumption DEF Offered, SinglePlace

LEMMA PlacePreserved ==
    ASSUME TypeOK, HoldsParameter, SinglePlace, [Next]_vars
    PROVE  SinglePlace'
<1>1. ASSUME slots_' = slots_,
             \A u \in Threads : val'[u] = val[u] \/ val'[u] = NoValue
      PROVE  SinglePlace'
  BY <1>1 DEF SinglePlace
<1>2. CASE UNCHANGED vars
  BY <1>1, <1>2 DEF vars
<1>3. ASSUME NEW t \in Threads, Close(t) \/ Outside(t) PROVE SinglePlace'
  BY <1>1, <1>3, OutsideUnchanged, OutsideThread DEF Close, ring
<1>4. ASSUME NEW t \in Threads, PushDone(t) PROVE SinglePlace'
  <2>1. PICK v : Offered(t, v) /\ Pushes(v)
    BY <1>4 DEF PushDone
  <2>2. \A i \in Index : slots_'[i] = IF i = tail_ THEN v ELSE slots_[i]
    BY <2>1 DEF Pushes, push_locked, TypeOK
  <2>3. \A u \in Threads : val'[u] = IF u = t THEN NoValue ELSE val[u]
    BY <1>4 DEF PushDone, Moves, TypeOK
  <2>4. QED
    BY <2>1, <2>2, <2>3, OfferedIsAlone DEF SinglePlace
<1>5. ASSUME NEW t \in Threads, PushSleeps(t) PROVE SinglePlace'
  <2>1. PICK v : Offered(t, v) /\ Moves(t, "wait_push", v)
    BY <1>5 DEF PushSleeps
  <2>2. \A u \in Threads : val'[u] = IF u = t THEN v ELSE val[u]
    BY <2>1 DEF Moves, TypeOK
  <2>3. slots_' = slots_
    BY <1>5 DEF PushSleeps, RingSame
  <2>4. QED
    BY <2>1, <2>2, <2>3, OfferedIsAlone DEF SinglePlace
<1>6. ASSUME NEW t \in Threads, PopDone(t) PROVE SinglePlace'
  <2>1. \A i \in Index : slots_'[i] = IF i = head_ THEN NoValue ELSE slots_[i]
    BY <1>6 DEF PopDone, Pops, pop_locked, TypeOK
  <2>2. \A u \in Threads : val'[u] = IF u = t THEN slots_[head_] ELSE val[u]
    BY <1>6 DEF PopDone, Moves, TypeOK
  <2>3. head_ \in Index
    BY DEF TypeOK
  <2>4. QED
    BY <2>1, <2>2, <2>3 DEF SinglePlace
<1>7. ASSUME NEW t \in Threads, PushRefused(t) \/ PopEmpty(t) \/ PopSleeps(t)
      PROVE  SinglePlace'
  <2>1. slots_' = slots_ /\ \E p : Moves(t, p, NoValue)
    BY <1>7 DEF PushRefused, PopEmpty, PopSleeps, RingSame
  <2>2. QED
    BY <1>1, <2>1 DEF Moves, TypeOK
<1>8. QED
  BY <1>2, <1>3, <1>4, <1>5, <1>6, <1>7, StepCases DEF Locked

\* Every move-only value is in one slot or in one thread's call, however pushes,
\* timeouts, refusals and pops interleave.
THEOREM PlaceCorrect == Spec => []SinglePlace
<1>1. Init => SinglePlace
  BY CapacityAssumption DEF Init, SinglePlace, Index
<1>2. TypeOK /\ HoldsParameter /\ SinglePlace /\ [Next]_vars => SinglePlace'
  BY PlacePreserved
<1>3. QED
  BY <1>1, <1>2, TypesInvariant, PTL DEF Spec

---------------------------------------------------------------------------------
(* Sleepers.                                                                     *)

\* Who can be asleep after a step: threads asleep before it, and one that found
\* nothing to do on an open queue.
LEMMA NoSleeperMissesClosePreserved ==
    ASSUME TypeOK, HoldsParameter, NoSleeperMissesClose, [Next]_vars
    PROVE  NoSleeperMissesClose'
<1> USE DEF WaitsNotEmpty, WaitsNotFull
<1>1. CASE UNCHANGED vars
  BY <1>1 DEF vars, NoSleeperMissesClose, At
<1>2. ASSUME NEW t \in Threads, Locked(t), UNCHANGED closed_ PROVE NoSleeperMissesClose'
  <2> SUFFICES ASSUME closed_ PROVE NoSleeperMissesClose'
    BY <1>2 DEF NoSleeperMissesClose
  <2>1. \E v, p : Moves(t, p, v) /\ p \in {"idle", "notify_not_empty", "notify_not_full"}
    BY <1>2 DEF Locked, PushDone, PushRefused, PushSleeps, PopDone, PopEmpty, PopSleeps
  <2>2. pc[t] \notin {"notify_all_not_empty", "notify_all_not_full"}
    BY <1>2 DEF Locked, PushDone, PushRefused, PushSleeps, PopDone, PopEmpty, PopSleeps
  <2>3. QED
    BY <1>2, <2>1, <2>2 DEF Moves, NoSleeperMissesClose, At, TypeOK
<1>3. ASSUME NEW t \in Threads, Close(t) PROVE NoSleeperMissesClose'
  <2>1. pc'[t] = "notify_all_not_empty"
    BY <1>3 DEF Close, TypeOK
  <2>2. QED
    BY <2>1 DEF NoSleeperMissesClose, At
<1>4. ASSUME NEW t \in Threads, NotifyAllNotEmpty(t) PROVE NoSleeperMissesClose'
  <2>1. \A u \in Threads : pc'[u] = IF u = t THEN "notify_all_not_full"
                                    ELSE IF pc[u] \in WaitsNotEmpty THEN Awake(pc[u]) ELSE pc[u]
    BY <1>4 DEF NotifyAllNotEmpty, NotifyAll
  <2>2. \A u \in Threads : pc'[u] \notin WaitsNotEmpty
    BY <2>1 DEF Awake
  <2>3. QED
    BY <2>1, <2>2 DEF NoSleeperMissesClose, At
<1>5. ASSUME NEW t \in Threads, NotifyAllNotFull(t) PROVE NoSleeperMissesClose'
  <2>1. \A u \in Threads : pc'[u] = IF u = t THEN "idle"
                                    ELSE IF pc[u] \in WaitsNotFull THEN Awake(pc[u]) ELSE pc[u]
    BY <1>5 DEF NotifyAllNotFull, NotifyAll
  <2>2. pc[t] = "notify_all_not_full" /\ closed_' = closed_
    BY <1>5 DEF NotifyAllNotFull
  <2>3. \A u \in Threads : /\ pc'[u] \notin WaitsNotFull
                           /\ pc'[u] \in WaitsNotEmpty => pc[u] \in WaitsNotEmpty
                           /\ pc[u] = "notify_all_not_empty" => pc'[u] = pc[u]
    BY <2>1, <2>2 DEF Awake
  <2>4. QED
    BY <2>2, <2>3 DEF NoSleeperMissesClose, At
<1>6. ASSUME NEW t \in Threads, Outside(t),
             pc[t] \notin {"notify_all_not_empty", "notify_all_not_full"}
      PROVE  NoSleeperMissesClose'
  <2>1. closed_' = closed_
    BY <1>6, OutsideUnchanged
  <2>2. \A u \in Threads :
            /\ pc'[u] \in WaitsNotEmpty => pc[u] \in WaitsNotEmpty
            /\ pc'[u] \in WaitsNotFull => pc[u] \in WaitsNotFull
    BY <1>6, OutsideThread DEF Awake, Expired, Timed
  <2>3. \A u \in Threads :
            pc[u] \in {"notify_all_not_empty", "notify_all_not_full"} => pc'[u] = pc[u]
    <3>1. CASE NotifyNotEmpty(t)
      BY <3>1, NotifyThread, <1>6 DEF NotifyNotEmpty
    <3>2. CASE NotifyNotFull(t)
      BY <3>2, NotifyThread, <1>6 DEF NotifyNotFull
    <3>3. CASE NotifyAllNotEmpty(t) \/ NotifyAllNotFull(t)
      BY <3>3, <1>6 DEF NotifyAllNotEmpty, NotifyAllNotFull
    <3>4. CASE Expire(t)
      BY <3>4, <1>6 DEF Expire, TypeOK
    <3>5. CASE SpuriousWakeup(t)
      BY <3>5, <1>6 DEF SpuriousWakeup, TypeOK
    <3>6. QED
      BY <1>6, <3>1, <3>2, <3>3, <3>4, <3>5 DEF Outside
  <2>4. QED
    BY <2>1, <2>2, <2>3 DEF NoSleeperMissesClose, At
<1>7. ASSUME NEW t \in Threads, Outside(t) PROVE NoSleeperMissesClose'
  BY <1>4, <1>5, <1>6, <1>7
  DEF Outside, NotifyNotEmpty, NotifyNotFull, Expire, SpuriousWakeup, Timed
<1>8. QED
  BY <1>1, <1>2, <1>3, <1>7, StepCases

\* A thread asleep on a closed queue has close()'s notify_all still ahead of it: no
\* thread falls asleep between close() setting closed_ and its two notifications
\* and is then forgotten.
THEOREM SleepersHearClose == Spec => []NoSleeperMissesClose
<1>1. Init => NoSleeperMissesClose
  BY DEF Init, NoSleeperMissesClose
<1>2. TypeOK /\ HoldsParameter /\ NoSleeperMissesClose /\ [Next]_vars => NoSleeperMissesClose'
  BY NoSleeperMissesClosePreserved
<1>3. QED
  BY <1>1, <1>2, TypesInvariant, PTL DEF Spec

\* The threads that will look at the queue, or make another look, without being
\* woken again.
Consumers == {"notify_not_empty", "pop_awake", "pop_for_awake", "pop_for_expired"}
Producers == {"notify_not_full", "push_awake", "push_expired"}

LEMMA CountSteps ==
    ASSUME NEW A \in SUBSET Threads, NEW B \in SUBSET Threads
    PROVE  /\ Cardinality(A) \in Nat
           /\ Cardinality(B) \in Nat
           /\ A \subseteq B => Cardinality(A) <= Cardinality(B)
           /\ \A t \in B \ A : A \subseteq B => Cardinality(A) + 1 <= Cardinality(B)
           /\ \A t : A \ {t} \subseteq B => Cardinality(A) - 1 <= Cardinality(B)
           /\ \A t : \A w \in B \ A : A \ {t} \subseteq B => Cardinality(A) <= Cardinality(B)
<1>1. IsFiniteSet(A) /\ IsFiniteSet(B)
  BY ThreadsAssumption, FS_Subset
<1>2. Cardinality(A) \in Nat /\ Cardinality(B) \in Nat
  BY <1>1, FS_CardinalityType
<1>3. A \subseteq B => Cardinality(A) <= Cardinality(B)
  BY <1>1, FS_Subset
<1>4. ASSUME NEW t \in B \ A, A \subseteq B PROVE Cardinality(A) + 1 <= Cardinality(B)
  <2>1. Cardinality(A \cup {t}) = Cardinality(A) + 1
    BY <1>1, <1>4, FS_AddElement
  <2>2. Cardinality(A \cup {t}) <= Cardinality(B)
    BY <1>1, <1>4, FS_Subset
  <2>3. QED
    BY <2>1, <2>2
<1>5. ASSUME NEW t, A \ {t} \subseteq B PROVE Cardinality(A) - 1 <= Cardinality(B)
  <2>1. Cardinality(A \ {t}) \in {Cardinality(A), Cardinality(A) - 1}
    BY <1>1, FS_RemoveElement
  <2>2. Cardinality(A \ {t}) <= Cardinality(B)
    BY <1>1, <1>5, FS_Subset
  <2>3. QED
    BY <1>2, <2>1, <2>2
<1>6. ASSUME NEW t, NEW w \in B \ A, A \ {t} \subseteq B
      PROVE  Cardinality(A) <= Cardinality(B)
  <2> DEFINE C == A \ {t}
  <2>1. IsFiniteSet(C) /\ Cardinality(C) \in {Cardinality(A), Cardinality(A) - 1}
    BY <1>1, FS_RemoveElement
  <2>2. Cardinality(C \cup {w}) = Cardinality(C) + 1
    BY <1>6, <2>1, FS_AddElement
  <2>3. Cardinality(C \cup {w}) <= Cardinality(B)
    BY <1>1, <1>6, FS_Subset
  <2> HIDE DEF C
  <2>4. QED
    BY <1>2, <2>1, <2>2, <2>3
<1>7. QED
  BY <1>2, <1>3, <1>4, <1>5, <1>6

\* NoLostWakeup, one condition variable at a time.
ConsumersCome ==
    ~closed_ /\ At(WaitsNotEmpty) # {} => size_ <= Cardinality(At(Consumers))

ProducersCome ==
    ~closed_ /\ At(WaitsNotFull) # {} => Capacity - size_ <= Cardinality(At(Producers))

\* Where every thread is after a critical section.
LEMMA MovesThread ==
    ASSUME TypeOK, NEW t \in Threads, NEW p, NEW v, Moves(t, p, v)
    PROVE  \A u \in Threads : pc'[u] = IF u = t THEN p ELSE pc[u]
BY DEF Moves, TypeOK

LEMMA ConsumersLocked ==
    ASSUME TypeOK, ConsumersCome, NEW t \in Threads, Locked(t), UNCHANGED closed_
    PROVE  ConsumersCome'
<1> DEFINE A == At(Consumers)
           B == At(Consumers)'
<1> USE DEF At
<1>1. A \in SUBSET Threads /\ B \in SUBSET Threads
  OBVIOUS
<1>2. Cardinality(A) \in Nat /\ Cardinality(B) \in Nat
  BY <1>1, CountSteps
<1>3. CASE PushDone(t)
  <2>1. \A u \in Threads : pc'[u] = IF u = t THEN "notify_not_empty" ELSE pc[u]
    BY <1>3, MovesThread DEF PushDone
  <2>2. t \in B \ A /\ A \subseteq B
    BY <1>3, <2>1 DEF PushDone, Consumers
  <2>3. Cardinality(A) + 1 <= Cardinality(B)
    BY <1>1, <2>2, CountSteps
  <2>4. At(WaitsNotEmpty)' # {} => At(WaitsNotEmpty) # {}
    BY <2>1 DEF WaitsNotEmpty
  <2>5. size_' = size_ + 1
    BY <1>3 DEF PushDone, Pushes, push_locked
  <2> HIDE DEF A, B, At
  <2>6. QED
    BY <1>2, <2>3, <2>4, <2>5 DEF ConsumersCome, TypeOK, A, B
<1>4. CASE PopDone(t)
  <2>1. \A u \in Threads : pc'[u] = IF u = t THEN "notify_not_full" ELSE pc[u]
    BY <1>4, MovesThread DEF PopDone
  <2>2. A \ {t} \subseteq B
    BY <2>1
  <2>3. Cardinality(A) - 1 <= Cardinality(B)
    BY <1>1, <2>2, CountSteps
  <2>4. At(WaitsNotEmpty)' # {} => At(WaitsNotEmpty) # {}
    BY <2>1 DEF WaitsNotEmpty
  <2>5. size_' = size_ - 1
    BY <1>4 DEF PopDone, Pops, pop_locked
  <2> HIDE DEF A, B, At
  <2>6. QED
    BY <1>2, <2>3, <2>4, <2>5 DEF ConsumersCome, TypeOK, A, B
<1>5. CASE PopEmpty(t) \/ PopSleeps(t)
  <2>1. size_' = 0
    BY <1>5 DEF PopEmpty, PopSleeps, RingSame
  <2> HIDE DEF A, B, At
  <2>2. QED
    BY <1>2, <2>1 DEF ConsumersCome, B
<1>6. CASE PushRefused(t) \/ PushSleeps(t)
  <2>1. PICK p \in {"idle", "wait_push"} : \E v : Moves(t, p, v)
    BY <1>6 DEF PushRefused, PushSleeps
  <2>2. \A u \in Threads : pc'[u] = IF u = t THEN p ELSE pc[u]
    BY <2>1, MovesThread
  <2>3. A \subseteq B
    BY <1>6, <2>2 DEF PushRefused, PushSleeps, Consumers
  <2>4. Cardinality(A) <= Cardinality(B)
    BY <1>1, <2>3, CountSteps
  <2>5. At(WaitsNotEmpty)' # {} => At(WaitsNotEmpty) # {}
    BY <2>2 DEF WaitsNotEmpty
  <2>6. size_' = size_
    BY <1>6 DEF PushRefused, PushSleeps, RingSame
  <2> HIDE DEF A, B, At
  <2>7. QED
    BY <1>2, <2>4, <2>5, <2>6 DEF ConsumersCome, TypeOK, A, B
<1>7. QED
  BY <1>3, <1>4, <1>5, <1>6 DEF Locked

LEMMA ProducersLocked ==
    ASSUME TypeOK, ProducersCome, NEW t \in Threads, Locked(t), UNCHANGED closed_
    PROVE  ProducersCome'
<1> DEFINE A == At(Producers)
           B == At(Producers)'
<1> USE DEF At
<1>1. A \in SUBSET Threads /\ B \in SUBSET Threads
  OBVIOUS
<1>2. Cardinality(A) \in Nat /\ Cardinality(B) \in Nat
  BY <1>1, CountSteps
<1>3. CASE PopDone(t)
  <2>1. \A u \in Threads : pc'[u] = IF u = t THEN "notify_not_full" ELSE pc[u]
    BY <1>3, MovesThread DEF PopDone
  <2>2. t \in B \ A /\ A \subseteq B
    BY <1>3, <2>1 DEF PopDone, Producers
  <2>3. Cardinality(A) + 1 <= Cardinality(B)
    BY <1>1, <2>2, CountSteps
  <2>4. At(WaitsNotFull)' # {} => At(WaitsNotFull) # {}
    BY <2>1 DEF WaitsNotFull
  <2>5. size_' = size_ - 1
    BY <1>3 DEF PopDone, Pops, pop_locked
  <2> HIDE DEF A, B, At
  <2>6. QED
    BY <1>2, <2>3, <2>4, <2>5, CapacityAssumption DEF ProducersCome, TypeOK, A, B
<1>4. CASE PushDone(t)
  <2>1. \A u \in Threads : pc'[u] = IF u = t THEN "notify_not_empty" ELSE pc[u]
    BY <1>4, MovesThread DEF PushDone
  <2>2. A \ {t} \subseteq B
    BY <2>1
  <2>3. Cardinality(A) - 1 <= Cardinality(B)
    BY <1>1, <2>2, CountSteps
  <2>4. At(WaitsNotFull)' # {} => At(WaitsNotFull) # {}
    BY <2>1 DEF WaitsNotFull
  <2>5. size_' = size_ + 1
    BY <1>4 DEF PushDone, Pushes, push_locked
  <2> HIDE DEF A, B, At
  <2>6. QED
    BY <1>2, <2>3, <2>4, <2>5, CapacityAssumption DEF ProducersCome, TypeOK, A, B
<1>5. CASE PushSleeps(t) \/ (PushRefused(t) /\ ~closed_)
  <2>1. size_' = Capacity
    BY <1>5 DEF PushRefused, PushSleeps, RingSame
  <2> HIDE DEF A, B, At
  <2>2. QED
    BY <1>2, <2>1, CapacityAssumption DEF ProducersCome, B
<1>6. CASE PopEmpty(t) \/ PopSleeps(t)
  <2>1. PICK p \in {"idle"} \cup WaitsNotEmpty : \E v : Moves(t, p, v)
    BY <1>6 DEF PopEmpty, PopSleeps
  <2>2. \A u \in Threads : pc'[u] = IF u = t THEN p ELSE pc[u]
    BY <2>1, MovesThread
  <2>3. A \subseteq B
    BY <1>6, <2>2 DEF PopEmpty, PopSleeps, Producers
  <2>4. Cardinality(A) <= Cardinality(B)
    BY <1>1, <2>3, CountSteps
  <2>5. At(WaitsNotFull)' # {} => At(WaitsNotFull) # {}
    BY <2>2 DEF WaitsNotFull, WaitsNotEmpty
  <2>6. size_' = size_
    BY <1>6 DEF PopEmpty, PopSleeps, RingSame
  <2> HIDE DEF A, B, At
  <2>7. QED
    BY <1>2, <2>4, <2>5, <2>6, CapacityAssumption DEF ProducersCome, TypeOK, A, B
<1>7. CASE closed_
  BY <1>7 DEF ProducersCome
<1>8. QED
  BY <1>3, <1>4, <1>5, <1>6, <1>7 DEF Locked

\* A notification that finds a sleeper replaces the notifier by the thread it wakes.
LEMMA NotifyReplaces ==
    ASSUME TypeOK, NEW t \in Threads, NEW waits, NEW comers,
           NotifyOne(t, waits, "idle"),
           "idle" \notin waits, "idle" \notin comers, pc[t] \notin waits,
           \A p \in waits : Awake(p) \in comers /\ Awake(p) \notin waits /\ p \notin comers
    PROVE  \/ At(waits)' = {}
           \/ At(waits) # {} /\ Cardinality(At(comers)) <= Cardinality(At(comers)')
<1>1. CASE At(waits) = {} /\ pc' = [pc EXCEPT ![t] = "idle"]
  BY <1>1 DEF At, TypeOK
<1>2. ASSUME NEW w \in At(waits), pc' = [pc EXCEPT ![t] = "idle", ![w] = Awake(pc[w])]
      PROVE  At(waits) # {} /\ Cardinality(At(comers)) <= Cardinality(At(comers)')
  <2>1. w \in Threads /\ pc[w] \in waits /\ w # t
    BY DEF At
  <2>2. \A u \in Threads : pc'[u] = IF u = w THEN Awake(pc[w]) ELSE IF u = t THEN "idle" ELSE pc[u]
    BY <1>2, <2>1 DEF TypeOK
  <2>3. At(comers) \in SUBSET Threads /\ At(comers)' \in SUBSET Threads
    BY DEF At
  <2>4. w \in At(comers)' \ At(comers)
    BY <2>1, <2>2 DEF At
  <2>5. At(comers) \ {t} \subseteq At(comers)'
    BY <2>1, <2>2 DEF At
  <2>6. QED
    BY <1>2, <2>3, <2>4, <2>5, CountSteps
<1>3. QED
  BY <1>1, <1>2 DEF NotifyOne

\* Any other step outside the lock sends no thread away.
LEMMA OthersKeep ==
    ASSUME NEW waits, NEW comers,
           \A u \in Threads : /\ pc'[u] \in waits => pc[u] \in waits
                              /\ pc[u] \in comers => pc'[u] \in comers
    PROVE  \/ At(waits)' = {}
           \/ At(waits) # {} /\ Cardinality(At(comers)) <= Cardinality(At(comers)')
<1>1. At(comers) \in SUBSET Threads /\ At(comers)' \in SUBSET Threads
  BY DEF At
<1>2. At(comers) \subseteq At(comers)'
  BY DEF At
<1>3. Cardinality(At(comers)) <= Cardinality(At(comers)')
  BY <1>1, <1>2, CountSteps
<1>4. QED
  BY <1>3 DEF At

LEMMA WakeupsOutside ==
    ASSUME TypeOK, ConsumersCome, ProducersCome, NEW t \in Threads, Outside(t)
    PROVE  ConsumersCome' /\ ProducersCome'
<1> USE DEF WaitsNotEmpty, WaitsNotFull
<1> DEFINE Kept(waits, comers) ==
               \/ At(waits)' = {}
               \/ At(waits) # {} /\ Cardinality(At(comers)) <= Cardinality(At(comers)')
<1>1. ASSUME Kept(WaitsNotEmpty, Consumers), Kept(WaitsNotFull, Producers)
      PROVE  ConsumersCome' /\ ProducersCome'
  <2>1. size_' = size_ /\ closed_' = closed_
    BY OutsideUnchanged
  <2>2. /\ Cardinality(At(Consumers)) \in Nat /\ Cardinality(At(Consumers)') \in Nat
        /\ Cardinality(At(Producers)) \in Nat /\ Cardinality(At(Producers)') \in Nat
    <3>1. /\ At(Consumers) \in SUBSET Threads /\ At(Consumers)' \in SUBSET Threads
          /\ At(Producers) \in SUBSET Threads /\ At(Producers)' \in SUBSET Threads
      BY DEF At
    <3>2. QED
      BY <3>1, CountSteps
  <2> USE CapacityAssumption DEF TypeOK
  <2>3. ConsumersCome'
    BY <1>1, <2>1, <2>2 DEF ConsumersCome
  <2>4. ProducersCome'
    BY <1>1, <2>1, <2>2 DEF ProducersCome
  <2>5. QED
    BY <2>3, <2>4
<1>2. CASE NotifyNotEmpty(t)
  <2>1. pc[t] = "notify_not_empty" /\ NotifyOne(t, WaitsNotEmpty, "idle")
    BY <1>2 DEF NotifyNotEmpty
  <2>2. Kept(WaitsNotEmpty, Consumers)
    BY <2>1, NotifyReplaces DEF Consumers, Awake
  <2>3. \A u \in Threads : /\ pc'[u] \in WaitsNotFull => pc[u] \in WaitsNotFull
                           /\ pc[u] \in Producers => pc'[u] \in Producers
    BY <2>1, NotifyThread DEF Producers, Awake
  <2>4. QED
    BY <1>1, <2>2, <2>3, OthersKeep
<1>3. CASE NotifyNotFull(t)
  <2>1. pc[t] = "notify_not_full" /\ NotifyOne(t, WaitsNotFull, "idle")
    BY <1>3 DEF NotifyNotFull
  <2>2. Kept(WaitsNotFull, Producers)
    BY <2>1, NotifyReplaces DEF Producers, Awake
  <2>3. \A u \in Threads : /\ pc'[u] \in WaitsNotEmpty => pc[u] \in WaitsNotEmpty
                           /\ pc[u] \in Consumers => pc'[u] \in Consumers
    BY <2>1, NotifyThread DEF Consumers, Awake
  <2>4. QED
    BY <1>1, <2>2, <2>3, OthersKeep
<1>4. ASSUME \A u \in Threads : /\ pc'[u] \in WaitsNotEmpty => pc[u] \in WaitsNotEmpty
                                /\ pc[u] \in Consumers => pc'[u] \in Consumers
                                /\ pc'[u] \in WaitsNotFull => pc[u] \in WaitsNotFull
                                /\ pc[u] \in Producers => pc'[u] \in Producers
      PROVE  ConsumersCome' /\ ProducersCome'
  BY <1>1, <1>4, OthersKeep
<1>5. CASE NotifyAllNotEmpty(t) \/ NotifyAllNotFull(t)
  <2>1. \A u \in Threads : \/ pc'[u] = pc[u]
                           \/ pc[u] \in WaitsNotEmpty \cup WaitsNotFull /\ pc'[u] = Awake(pc[u])
                           \/ /\ pc[u] \in {"notify_all_not_empty", "notify_all_not_full"}
                              /\ pc'[u] \in {"idle", "notify_all_not_full"}
    BY <1>5, NotifyThread DEF NotifyAllNotEmpty, NotifyAllNotFull
  <2>2. QED
    BY <1>4, <2>1 DEF Consumers, Producers, Awake
<1>6. CASE Expire(t)
  <2>1. \A u \in Threads : \/ pc'[u] = pc[u]
                           \/ pc[u] \in Timed /\ pc'[u] = Expired(pc[u])
    BY <1>6 DEF Expire, TypeOK
  <2>2. QED
    BY <1>4, <2>1 DEF Consumers, Producers, Expired, Timed
<1>7. CASE SpuriousWakeup(t)
  <2>1. \A u \in Threads : \/ pc'[u] = pc[u]
                           \/ pc[u] \in WaitsNotEmpty \cup WaitsNotFull /\ pc'[u] = Awake(pc[u])
    BY <1>7 DEF SpuriousWakeup, TypeOK
  <2>2. QED
    BY <1>4, <2>1 DEF Consumers, Producers, Awake
<1>8. QED
  BY <1>2, <1>3, <1>5, <1>6, <1>7 DEF Outside

\* No wake-up is lost, for any number of producers and consumers and any capacity:
\* notify_one after the unlock, spurious wake-ups and deadlines that race with a
\* notification never leave a value beside sleeping consumers, or a free slot
\* beside sleeping producers, with nobody on the way.
THEOREM WakeupsCorrect == Spec => []NoLostWakeup
<1>1. Init => ConsumersCome /\ ProducersCome
  BY DEF Init, ConsumersCome, ProducersCome, At, WaitsNotEmpty, WaitsNotFull
<1>2. ASSUME TypeOK, HoldsParameter, ConsumersCome, ProducersCome, [Next]_vars
      PROVE  ConsumersCome' /\ ProducersCome'
  <2>1. CASE UNCHANGED vars
    BY <1>2, <2>1 DEF vars, ConsumersCome, ProducersCome, At
  <2>2. ASSUME NEW t \in Threads, Close(t) PROVE ConsumersCome' /\ ProducersCome'
    BY <2>2 DEF Close, ConsumersCome, ProducersCome
  <2>3. ASSUME NEW t \in Threads, Locked(t), UNCHANGED closed_
        PROVE  ConsumersCome' /\ ProducersCome'
    BY <1>2, <2>3, ConsumersLocked, ProducersLocked
  <2>4. ASSUME NEW t \in Threads, Outside(t) PROVE ConsumersCome' /\ ProducersCome'
    BY <1>2, <2>4, WakeupsOutside
  <2>5. QED
    BY <1>2, <2>1, <2>2, <2>3, <2>4, StepCases
<1>3. ConsumersCome /\ ProducersCome => NoLostWakeup
  BY DEF ConsumersCome, ProducersCome, NoLostWakeup, Consumers, Producers
<1>4. QED
  BY <1>1, <1>2, <1>3, TypesInvariant, PTL DEF Spec

---------------------------------------------------------------------------------
(* Refinement: the ring read from head_ on is a FIFO.                            *)

Contents == [k \in 1 .. size_ |-> slots_[SlotAt(k - 1)]]

Handed == [t \in Threads |-> IF pc[t] = "notify_not_full" THEN val[t] ELSE NoValue]

LEMMA ContentsType ==
    ASSUME TypeOK
    PROVE  /\ Contents \in Seq(Values \cup {NoValue})
           /\ Len(Contents) = size_
           /\ \A k \in 0 .. size_ : SlotAt(k) \in Index
<1>1. \A k \in 0 .. size_ : SlotAt(k) \in Index
  BY CapacityAssumption DEF TypeOK, Index, SlotAt
<1>2. \A k \in 1 .. size_ : slots_[SlotAt(k - 1)] \in Values \cup {NoValue}
  BY <1>1, CapacityAssumption DEF TypeOK
<1>3. size_ \in Nat
  BY CapacityAssumption DEF TypeOK
<1>4. QED
  BY <1>1, <1>2, <1>3 DEF Contents

LEMMA ContentsPushed ==
    ASSUME TypeOK, RingWindow, NEW v, Pushes(v)
    PROVE  Contents' = Append(Contents, v)
<1>1. size_' = size_ + 1 /\ size_ \in Nat /\ size_ < Capacity
  BY CapacityAssumption DEF TypeOK, Pushes, push_locked
<1>2. \A k \in 0 .. size_ : SlotAt(k) \in Index /\ (SlotAt(k) = tail_ <=> k = size_)
  BY CapacityAssumption DEF RingWindow, SlotAt, TypeOK, Index, Pushes
<1>3. \A k \in 1 .. size_ + 1 :
          slots_'[SlotAt(k - 1)] = IF k = size_ + 1 THEN v ELSE slots_[SlotAt(k - 1)]
  BY <1>1, <1>2 DEF Pushes, push_locked, TypeOK
<1>4. Contents' = [k \in 1 .. size_ + 1 |-> slots_'[SlotAt(k - 1)]]
  BY <1>1 DEF Contents, SlotAt, Pushes, push_locked
<1>5. QED
  BY <1>1, <1>3, <1>4, ContentsType DEF Contents

LEMMA ContentsPopped ==
    ASSUME TypeOK, Pops
    PROVE  /\ Contents # <<>>
           /\ Head(Contents) = slots_[head_]
           /\ Contents' = Tail(Contents)
<1>1. size_' = size_ - 1 /\ size_ \in 1 .. Capacity
  BY CapacityAssumption DEF TypeOK, Pops, pop_locked
<1>2. head_' = IF head_ + 1 = Capacity THEN 0 ELSE head_ + 1
  BY Successor DEF TypeOK, Pops, pop_locked
<1>3. Contents # <<>> /\ Head(Contents) = slots_[head_]
  <2>1. SlotAt(0) = head_
    BY CapacityAssumption DEF SlotAt, TypeOK, Index
  <2>2. Contents[1] = slots_[head_]
    BY <1>1, <2>1, CapacityAssumption DEF Contents
  <2>3. QED
    BY <1>1, <2>2, ContentsType DEF Contents
<1>4. \A k \in 1 .. size_ - 1 :
          SlotAt(k) \in Index \ {head_} /\ (IF head_' + (k - 1) < Capacity THEN head_' + (k - 1)
                                            ELSE head_' + (k - 1) - Capacity) = SlotAt(k)
  BY <1>1, <1>2, CapacityAssumption DEF SlotAt, TypeOK, Index
<1>5. Contents' = [k \in 1 .. size_ - 1 |-> slots_'[SlotAt(k)]]
  <2>1. Contents' = [k \in 1 .. size_ - 1 |->
                        slots_'[IF head_' + (k - 1) < Capacity THEN head_' + (k - 1)
                                ELSE head_' + (k - 1) - Capacity]]
    BY <1>1 DEF Contents, SlotAt
  <2>2. QED
    BY <1>4, <2>1
<1>6. \A k \in 1 .. size_ - 1 : slots_'[SlotAt(k)] = slots_[SlotAt(k)]
  BY <1>4 DEF Pops, pop_locked, TypeOK
<1>7. Tail(Contents) = [k \in 1 .. size_ - 1 |-> slots_[SlotAt(k)]]
  <2> DEFINE c == Contents
  <2>1. /\ c \in Seq(Values \cup {NoValue}) /\ Len(c) = size_
        /\ \A k \in 1 .. size_ - 1 : c[k + 1] = slots_[SlotAt(k)]
    BY <1>1, ContentsType, CapacityAssumption DEF Contents
  <2> HIDE DEF c
  <2>2. Tail(c) = [k \in 1 .. size_ - 1 |-> c[k + 1]]
    <3> DEFINE rest == Tail(c)
    <3>1. /\ rest \in Seq(Values \cup {NoValue}) /\ Len(rest) = size_ - 1
          /\ \A k \in 1 .. Len(rest) : rest[k] = c[k + 1]
      BY <1>3, <2>1, HeadTailProperties DEF c
    <3> HIDE DEF rest
    <3>2. DOMAIN rest = 1 .. size_ - 1 /\ rest = [k \in DOMAIN rest |-> rest[k]]
      BY <3>1, LenProperties
    <3>3. rest = [k \in 1 .. size_ - 1 |-> c[k + 1]]
      BY <3>1, <3>2
    <3>4. QED
      BY <3>3 DEF rest
  <2>3. Tail(c) = [k \in 1 .. size_ - 1 |-> slots_[SlotAt(k)]]
    BY <2>1, <2>2
  <2>4. QED
    BY <2>3 DEF c
<1>8. QED
  BY <1>3, <1>5, <1>6, <1>7

LEMMA ContentsSame ==
    ASSUME UNCHANGED <<slots_, head_, size_>>
    PROVE  Contents' = Contents
BY DEF Contents, SlotAt

\* What the threads are being handed, when no pop completes and none returns.
LEMMA HandedSame ==
    ASSUME TypeOK,
           \A u \in Threads : pc[u] = "notify_not_full" <=> pc'[u] = "notify_not_full",
           \A u \in Threads : pc[u] = "notify_not_full" => val'[u] = val[u]
    PROVE  Handed' = Handed
BY DEF Handed

LEMMA FifoLocked ==
    ASSUME TypeOK, RingWindow, NEW t \in Threads, Locked(t), UNCHANGED closed_
    PROVE  [Abstract!Next]_(Abstract!fifoVars)
<1> USE DEF Contents, Handed
<1>1. CASE PushDone(t)
  <2>1. PICK v \in Values : Pushes(v)
    BY <1>1 DEF PushDone, Offered
  <2>2. Contents' = Append(Contents, v) /\ Len(Contents) < Capacity /\ ~closed_
    BY <2>1, ContentsPushed, ContentsType DEF Pushes
  <2>3. Handed' = Handed
    <3>1. \A u \in Threads : /\ pc'[u] = IF u = t THEN "notify_not_empty" ELSE pc[u]
                             /\ u # t => val'[u] = val[u]
      BY <1>1 DEF PushDone, Moves, TypeOK
    <3>2. pc[t] # "notify_not_full"
      BY <1>1 DEF PushDone
    <3>3. QED
      BY <3>1, <3>2, HandedSame
  <2>4. Abstract!Push(v)
    BY <2>2, <2>3 DEF Abstract!Push
  <2>5. QED
    BY <2>4 DEF Abstract!Next
<1>2. CASE PopDone(t)
  <2>1. Contents # <<>> /\ Head(Contents) = slots_[head_] /\ Contents' = Tail(Contents)
    BY <1>2, ContentsPopped DEF PopDone
  <2>2. \A u \in Threads : /\ pc'[u] = IF u = t THEN "notify_not_full" ELSE pc[u]
                           /\ val'[u] = IF u = t THEN slots_[head_] ELSE val[u]
    BY <1>2 DEF PopDone, Moves, TypeOK
  <2>3. Handed' = [Handed EXCEPT ![t] = Head(Contents)]
    BY <2>1, <2>2
  <2>4. Handed[t] = NoValue
    BY <1>2 DEF PopDone
  <2>5. Abstract!Pop(t)
    BY <2>1, <2>3, <2>4 DEF Abstract!Pop
  <2>6. QED
    BY <2>5 DEF Abstract!Next
<1>3. CASE PushRefused(t) \/ PushSleeps(t) \/ PopEmpty(t) \/ PopSleeps(t)
  <2>1. \E p \in {"idle", "wait_push"} \cup WaitsNotEmpty : \E v : Moves(t, p, v)
    BY <1>3 DEF PushRefused, PushSleeps, PopEmpty, PopSleeps
  <2>2. pc[t] # "notify_not_full"
    BY <1>3 DEF PushRefused, PushSleeps, PopEmpty, PopSleeps
  <2>3. \A u \in Threads : /\ u # t => pc'[u] = pc[u] /\ val'[u] = val[u]
                           /\ pc'[t] # "notify_not_full"
    BY <2>1 DEF Moves, TypeOK, WaitsNotEmpty
  <2>4. Handed' = Handed
    BY <2>2, <2>3, HandedSame
  <2>5. Contents' = Contents
    BY <1>3, ContentsSame DEF PushRefused, PushSleeps, PopEmpty, PopSleeps, RingSame
  <2>6. QED
    BY <2>4, <2>5 DEF Abstract!fifoVars
<1>4. QED
  BY <1>1, <1>2, <1>3 DEF Locked

LEMMA FifoOutside ==
    ASSUME TypeOK, NEW t \in Threads, Outside(t)
    PROVE  [Abstract!Next]_(Abstract!fifoVars)
<1> USE DEF Contents, Handed
<1>1. Contents' = Contents /\ closed_' = closed_
  BY OutsideUnchanged, ContentsSame
<1>2. CASE NotifyNotFull(t)
  <2>1. \A u \in Threads : /\ pc'[u] = "notify_not_full" <=> u # t /\ pc[u] = "notify_not_full"
                           /\ u # t => val'[u] = val[u]
    <3>1. pc[t] = "notify_not_full" /\ val' = [val EXCEPT ![t] = NoValue]
      BY <1>2 DEF NotifyNotFull
    <3>2. pc'[t] = "idle"
      BY <1>2 DEF NotifyNotFull, NotifyOne, At, TypeOK, WaitsNotFull
    <3>3. \A u \in Threads : \/ pc'[u] = pc[u]
                             \/ pc[u] \in WaitsNotFull /\ pc'[u] = Awake(pc[u])
                             \/ u = t
      BY <1>2, NotifyThread DEF NotifyNotFull
    <3>4. QED
      BY <3>1, <3>2, <3>3 DEF TypeOK, WaitsNotFull, Awake
  <2>2. Handed' = [Handed EXCEPT ![t] = NoValue]
    BY <2>1
  <2>3. Abstract!Return(t)
    BY <1>1, <2>2 DEF Abstract!Return
  <2>4. QED
    BY <2>3 DEF Abstract!Next
<1>3. CASE ~NotifyNotFull(t)
  <2>1. \A u \in Threads : pc[u] = "notify_not_full" <=> pc'[u] = "notify_not_full"
    <3>1. CASE NotifyNotEmpty(t) \/ NotifyAllNotEmpty(t) \/ NotifyAllNotFull(t)
      <4>1. pc[t] \in {"notify_not_empty", "notify_all_not_empty", "notify_all_not_full"}
        BY <3>1 DEF NotifyNotEmpty, NotifyAllNotEmpty, NotifyAllNotFull
      <4>2. \A u \in Threads : \/ pc'[u] = pc[u]
                               \/ /\ pc[u] \in WaitsNotEmpty \cup WaitsNotFull
                                  /\ pc'[u] = Awake(pc[u])
                               \/ u = t /\ pc'[u] \in {"idle", "notify_all_not_full"}
        BY <3>1, NotifyThread DEF NotifyNotEmpty, NotifyAllNotEmpty, NotifyAllNotFull
      <4>3. QED
        BY <4>1, <4>2 DEF WaitsNotEmpty, WaitsNotFull, Awake
    <3>2. CASE Expire(t)
      BY <3>2 DEF Expire, Expired, Timed, TypeOK
    <3>3. CASE SpuriousWakeup(t)
      BY <3>3 DEF SpuriousWakeup, Awake, WaitsNotEmpty, WaitsNotFull, TypeOK
    <3>4. QED
      BY <1>3, <3>1, <3>2, <3>3 DEF Outside
  <2>2. val' = val
    BY <1>3 DEF Outside, NotifyNotEmpty, NotifyAllNotEmpty, NotifyAllNotFull, Expire,
                SpuriousWakeup
  <2>3. Handed' = Handed
    BY <2>1, <2>2, HandedSame
  <2>4. QED
    BY <1>1, <2>3 DEF Abstract!fifoVars
<1>4. QED
  BY <1>2, <1>3

\* BoundedQueue implements Fifo: whatever the interleaving, values are popped in the
\* order they were pushed and once each, close() refuses every later push and no
\* accepted value is lost.
THEOREM FifoImplemented == Spec => ImplementsFifo
<1> USE DEF Contents, Handed
<1>1. Init => Abstract!Init
  <2> SUFFICES ASSUME Init PROVE Abstract!Init
    OBVIOUS
  <2>1. Contents = <<>>
    BY DEF Init
  <2>2. Handed = [t \in Threads |-> NoValue]
    BY DEF Init
  <2>3. QED
    BY <2>1, <2>2 DEF Init, Abstract!Init
<1>2. ASSUME TypeOK, HoldsParameter, RingWindow, [Next]_vars
      PROVE  [Abstract!Next]_(Abstract!fifoVars)
  <2>1. CASE UNCHANGED vars
    BY <2>1, ContentsSame DEF vars, Abstract!fifoVars
  <2>2. ASSUME NEW t \in Threads, Close(t) PROVE Abstract!Close
    <3>1. Contents' = Contents
      BY <2>2, ContentsSame DEF Close, ring
    <3>2. Handed' = Handed
      BY <1>2, <2>2, HandedSame DEF Close, Call, TypeOK
    <3>3. QED
      BY <2>2, <3>1, <3>2 DEF Close, Abstract!Close
  <2>3. QED
    BY <1>2, <2>1, <2>2, FifoLocked, FifoOutside, StepCases DEF Abstract!Next
<1>3. QED
  BY <1>1, <1>2, TypesInvariant, WindowCorrect, PTL DEF Spec, ImplementsFifo, Abstract!Spec
=================================================================================
