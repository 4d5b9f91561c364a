------------------------------ MODULE BoundedQueue ------------------------------
(* concurrency/bounded_queue.hpp: the fixed-capacity MPMC ring buffer with one   *)
(* mutex and two condition variables.                                            *)
(*                                                                               *)
(* A critical section (lock to unlock, or lock to wait) is one step: mutex_ is   *)
(* never held across a blocking call.  What happens outside it is a step of its  *)
(* own: the notification that follows the unlock, a waiter's wake-up (notified   *)
(* or spurious), the expiry of its deadline, and the re-acquisition of the lock  *)
(* to evaluate the predicate again.                                              *)
EXTENDS Integers, FiniteSets, Functions

CONSTANTS
    Threads,    \* threads sharing the queue; each may call every operation
    Values,     \* move-only objects of type T
    NoValue,    \* an empty std::optional<T>
    Capacity,
    MaxCalls    \* bound: calls begun in a behaviour (the statistics count up)

ASSUME CapacityAssumption == Capacity \in Nat \ {0}
ASSUME ValuesAssumption == NoValue \notin Values
ASSUME ThreadsAssumption == IsFiniteSet(Threads)
ASSUME MaxCallsAssumption == MaxCalls \in Nat

VARIABLES
    slots_, head_, tail_, size_, closed_, stats_,
    pc,      \* where each thread is in the call it makes
    val,     \* the value each thread's call holds: its parameter, or its result
    calls    \* calls begun

ring == <<slots_, head_, tail_, size_, stats_>>
vars == <<slots_, head_, tail_, size_, closed_, stats_, pc, val, calls>>

Index == 0 .. Capacity - 1

Init ==
    /\ slots_ = [i \in Index |-> NoValue]
    /\ head_ = 0
    /\ tail_ = 0
    /\ size_ = 0
    /\ closed_ = FALSE
    /\ stats_ = [high_watermark |-> 0, pushed |-> 0, popped |-> 0,
                 rejected_full |-> 0, push_timeouts |-> 0]
    /\ pc = [t \in Threads |-> "idle"]
    /\ val = [t \in Threads |-> NoValue]
    /\ calls = 0

---------------------------------------------------------------------------------
(* Threads blocked on a condition variable, and threads on their way to or from  *)
(* it.  A sleeper that is woken re-evaluates its predicate under the lock.       *)

WaitsNotEmpty == {"wait_pop", "wait_pop_for"}
WaitsNotFull == {"wait_push"}
Timed == {"wait_push", "push_awake", "wait_pop_for", "pop_for_awake"}

Awake(p) ==
    CASE p = "wait_push" -> "push_awake"
      [] p = "wait_pop" -> "pop_awake"
      [] p = "wait_pop_for" -> "pop_for_awake"
      [] OTHER -> p

Expired(p) == IF p \in {"wait_push", "push_awake"} THEN "push_expired" ELSE "pop_for_expired"

At(where) == {t \in Threads : pc[t] \in where}

\* notify_one: some sleeper, if there is one, wakes; the notifier goes on to next.
NotifyOne(t, waits, next) ==
    \/ At(waits) = {} /\ pc' = [pc EXCEPT ![t] = next]
    \/ \E w \in At(waits) : pc' = [pc EXCEPT ![t] = next, ![w] = Awake(pc[w])]

\* notify_all: every sleeper wakes.
NotifyAll(t, waits, next) ==
    pc' = [u \in Threads |-> IF u = t THEN next
                             ELSE IF pc[u] \in waits THEN Awake(pc[u]) ELSE pc[u]]

---------------------------------------------------------------------------------
(* Under the lock.                                                               *)

\* Faulty variant: the watermark is taken before ++size_.
push_lockedWatermarkFirst(v) ==
    /\ slots_' = [slots_ EXCEPT ![tail_] = v]
    /\ tail_' = (tail_ + 1) % Capacity
    /\ size_' = size_ + 1
    /\ stats_' = [stats_ EXCEPT
                    !.pushed = @ + 1,
                    !.high_watermark = IF size_ > @ THEN size_ ELSE @]
    /\ UNCHANGED head_

push_locked(v) ==
    /\ slots_' = [slots_ EXCEPT ![tail_] = v]
    /\ tail_' = (tail_ + 1) % Capacity
    /\ size_' = size_ + 1
    /\ stats_' = [stats_ EXCEPT
                    !.pushed = @ + 1,
                    !.high_watermark = IF size_ + 1 > @ THEN size_ + 1 ELSE @]
    /\ UNCHANGED head_

\* Faulty variant: the moved-from optional is not reset.
pop_lockedNoReset ==
    /\ head_' = (head_ + 1) % Capacity
    /\ size_' = size_ - 1
    /\ stats_' = [stats_ EXCEPT !.popped = @ + 1]
    /\ UNCHANGED <<slots_, tail_>>

pop_locked ==
    /\ slots_' = [slots_ EXCEPT ![head_] = NoValue]
    /\ head_' = (head_ + 1) % Capacity
    /\ size_' = size_ - 1
    /\ stats_' = [stats_ EXCEPT !.popped = @ + 1]
    /\ UNCHANGED tail_

\* Faulty variant: a predicate that forgets closed_.
PopReadyIgnoresClose == size_ > 0

PushReady == closed_ \/ size_ < Capacity
PopReady == closed_ \/ size_ > 0

\* The call returns; a value still held (a refused parameter) is destroyed.
Return(t) ==
    /\ pc' = [pc EXCEPT ![t] = "idle"]
    /\ val' = [val EXCEPT ![t] = NoValue]

\* Faulty variants: the parameter is copied, not moved; the notification is sent
\* only when the queue was empty.
PushAndUnlockCopies(t, v) ==
    /\ push_locked(v)
    /\ pc' = [pc EXCEPT ![t] = "notify_not_empty"]
    /\ val' = [val EXCEPT ![t] = v]

PushAndUnlockNotifyIfEmpty(t, v) ==
    /\ push_locked(v)
    /\ pc' = [pc EXCEPT ![t] = IF size_ = 0 THEN "notify_not_empty" ELSE "idle"]
    /\ val' = [val EXCEPT ![t] = NoValue]

\* push_locked, then lock.unlock(): notify_one is still to come.
PushAndUnlock(t, v) ==
    /\ push_locked(v)
    /\ pc' = [pc EXCEPT ![t] = "notify_not_empty"]
    /\ val' = [val EXCEPT ![t] = NoValue]

PopAndUnlock(t) ==
    /\ val' = [val EXCEPT ![t] = slots_[head_]]
    /\ pop_locked
    /\ pc' = [pc EXCEPT ![t] = "notify_not_full"]

Sleep(t, where, v) ==
    /\ pc' = [pc EXCEPT ![t] = where]
    /\ val' = [val EXCEPT ![t] = v]
    /\ UNCHANGED ring

\* Faulty variant: closed_ is not tested again after the wait.
FinishPushIgnoresClose(t, v) == PushAndUnlock(t, v)

\* wait_push once its predicate holds: closed_ is tested before pushing.
FinishPush(t, v) ==
    \/ closed_ /\ Return(t) /\ UNCHANGED ring
    \/ ~closed_ /\ PushAndUnlock(t, v)

\* wait_pop and wait_pop_for once the predicate holds: queued values are still
\* handed out after close().
FinishPop(t) ==
    \/ size_ = 0 /\ Return(t) /\ UNCHANGED ring
    \/ size_ > 0 /\ PopAndUnlock(t)

---------------------------------------------------------------------------------
(* The calls.                                                                    *)

Call(t) == pc[t] = "idle" /\ calls < MaxCalls /\ calls' = calls + 1

Fresh == Values \ (Range(slots_) \cup Range(val))

TryPush(t, v) ==
    /\ Call(t)
    /\ \/ closed_ /\ Return(t) /\ UNCHANGED ring
       \/ /\ ~closed_ /\ size_ = Capacity
          /\ stats_' = [stats_ EXCEPT !.rejected_full = @ + 1]
          /\ Return(t)
          /\ UNCHANGED <<slots_, head_, tail_, size_>>
       \/ ~closed_ /\ size_ # Capacity /\ PushAndUnlock(t, v)
    /\ UNCHANGED closed_

WaitPush(t, v) ==
    /\ Call(t)
    /\ \/ PushReady /\ FinishPush(t, v)
       \/ ~PushReady /\ Sleep(t, "wait_push", v)
    /\ UNCHANGED closed_

WaitPushAwake(t) ==
    /\ pc[t] = "push_awake"
    /\ \/ PushReady /\ FinishPush(t, val[t])
       \/ ~PushReady /\ Sleep(t, "wait_push", val[t])
    /\ UNCHANGED <<closed_, calls>>

\* Faulty variant: a wait that timed out starts over.
WaitPushExpiredWaitsAgain(t) ==
    /\ pc[t] = "push_expired"
    /\ \/ PushReady /\ FinishPush(t, val[t])
       \/ ~PushReady /\ Sleep(t, "wait_push", val[t])
    /\ UNCHANGED <<closed_, calls>>

\* wait_for evaluates the predicate once more after the deadline.
WaitPushExpired(t) ==
    /\ pc[t] = "push_expired"
    /\ \/ PushReady /\ FinishPush(t, val[t])
       \/ /\ ~PushReady
          /\ stats_' = [stats_ EXCEPT !.push_timeouts = @ + 1]
          /\ Return(t)
          /\ UNCHANGED <<slots_, head_, tail_, size_>>
    /\ UNCHANGED <<closed_, calls>>

TryPop(t) == Call(t) /\ FinishPop(t) /\ UNCHANGED closed_

WaitPop(t) ==
    /\ Call(t)
    /\ \/ PopReady /\ FinishPop(t)
       \/ ~PopReady /\ Sleep(t, "wait_pop", NoValue)
    /\ UNCHANGED closed_

\* Faulty variant: the call tries again until there is a value.
WaitPopAwakeRetries(t) ==
    /\ pc[t] = "pop_awake"
    /\ \/ size_ > 0 /\ PopAndUnlock(t)
       \/ size_ = 0 /\ Sleep(t, IF closed_ THEN "pop_awake" ELSE "wait_pop", NoValue)
    /\ UNCHANGED <<closed_, calls>>

WaitPopAwake(t) ==
    /\ pc[t] = "pop_awake"
    /\ \/ PopReady /\ FinishPop(t)
       \/ ~PopReady /\ Sleep(t, "wait_pop", NoValue)
    /\ UNCHANGED <<closed_, calls>>

WaitPopFor(t) ==
    /\ Call(t)
    /\ \/ PopReady /\ FinishPop(t)
       \/ ~PopReady /\ Sleep(t, "wait_pop_for", NoValue)
    /\ UNCHANGED closed_

WaitPopForAwake(t) ==
    /\ pc[t] = "pop_for_awake"
    /\ \/ PopReady /\ FinishPop(t)
       \/ ~PopReady /\ Sleep(t, "wait_pop_for", NoValue)
    /\ UNCHANGED <<closed_, calls>>

WaitPopForExpired(t) ==
    /\ pc[t] = "pop_for_expired"
    /\ FinishPop(t)
    /\ UNCHANGED <<closed_, calls>>

Close(t) ==
    /\ Call(t)
    /\ closed_' = TRUE
    /\ pc' = [pc EXCEPT ![t] = "notify_all_not_empty"]
    /\ UNCHANGED <<ring, val>>

---------------------------------------------------------------------------------
(* After the unlock, and what happens to a sleeper from outside.                 *)

NotifyNotEmpty(t) ==
    /\ pc[t] = "notify_not_empty"
    /\ NotifyOne(t, WaitsNotEmpty, "idle")
    /\ UNCHANGED <<ring, closed_, val, calls>>

\* The pop returns: the value leaves with the caller.
NotifyNotFull(t) ==
    /\ pc[t] = "notify_not_full"
    /\ NotifyOne(t, WaitsNotFull, "idle")
    /\ val' = [val EXCEPT ![t] = NoValue]
    /\ UNCHANGED <<ring, closed_, calls>>

NotifyAllNotEmpty(t) ==
    /\ pc[t] = "notify_all_not_empty"
    /\ NotifyAll(t, WaitsNotEmpty, "notify_all_not_full")
    /\ UNCHANGED <<ring, closed_, val, calls>>

NotifyAllNotFull(t) ==
    /\ pc[t] = "notify_all_not_full"
    /\ NotifyAll(t, WaitsNotFull, "idle")
    /\ UNCHANGED <<ring, closed_, val, calls>>

SpuriousWakeup(t) ==
    /\ pc[t] \in WaitsNotEmpty \cup WaitsNotFull
    /\ pc' = [pc EXCEPT ![t] = Awake(pc[t])]
    /\ UNCHANGED <<ring, closed_, val, calls>>

\* The deadline passes while the thread sleeps, or after a wake-up and before it
\* has the lock again.
Expire(t) ==
    /\ pc[t] \in Timed
    /\ pc' = [pc EXCEPT ![t] = Expired(pc[t])]
    /\ UNCHANGED <<ring, closed_, val, calls>>

\* The rest of a call that has begun.
Continue(t) ==
    \/ WaitPushAwake(t) \/ WaitPushExpired(t)
    \/ WaitPopAwake(t) \/ WaitPopForAwake(t) \/ WaitPopForExpired(t)
    \/ NotifyNotEmpty(t) \/ NotifyNotFull(t)
    \/ NotifyAllNotEmpty(t) \/ NotifyAllNotFull(t)

Next ==
    \E t \in Threads :
        \/ \E v \in Fresh : TryPush(t, v) \/ WaitPush(t, v)
        \/ TryPop(t) \/ WaitPop(t) \/ WaitPopFor(t) \/ Close(t)
        \/ Continue(t)
        \/ Expire(t)
        \/ SpuriousWakeup(t)

Spec == Init /\ [][Next]_vars

\* The scheduler runs every thread that can run and deadlines pass.  Nothing makes
\* a thread begin a call, and a sleeper may sleep for ever unless it is notified.
Fairness == \A t \in Threads : WF_vars(Continue(t)) /\ WF_vars(Expire(t))

FairSpec == Spec /\ Fairness

---------------------------------------------------------------------------------
(* Properties.                                                                   *)

PCs == {"idle", "wait_push", "push_awake", "push_expired", "notify_not_empty",
        "wait_pop", "pop_awake", "wait_pop_for", "pop_for_awake", "pop_for_expired",
        "notify_not_full", "notify_all_not_empty", "notify_all_not_full"}

\* Type invariant: the members of BoundedQueue and the threads' positions.
TypeOK ==
    /\ slots_ \in [Index -> Values \cup {NoValue}]
    /\ head_ \in Index
    /\ tail_ \in Index
    /\ size_ \in 0 .. Capacity
    /\ closed_ \in BOOLEAN
    /\ stats_ \in [high_watermark : Nat, pushed : Nat, popped : Nat,
                   rejected_full : Nat, push_timeouts : Nat]
    /\ pc \in [Threads -> PCs]
    /\ val \in [Threads -> Values \cup {NoValue}]
    /\ calls \in 0 .. MaxCalls

\* How many places behind the oldest value slot i is.
Offset(i) == IF i >= head_ THEN i - head_ ELSE i + Capacity - head_

\* The slot k places behind the oldest value.
SlotAt(k) == IF head_ + k < Capacity THEN head_ + k ELSE head_ + k - Capacity

\* The full slots are exactly the size_ slots from head_ on, around the end of the
\* array, and tail_ is the slot after them: push_locked never overwrites a queued
\* value and pop_locked never dereferences an empty optional.
RingWindow ==
    /\ \A i \in Index : slots_[i] # NoValue <=> Offset(i) < size_
    /\ tail_ = SlotAt(size_)

\* A move-only value is in one place: one slot, or one thread's call.  No
\* interleaving of pushes, timeouts, refusals and pops duplicates an object.
SinglePlace ==
    /\ \A i, j \in Index : slots_[i] = slots_[j] /\ slots_[i] # NoValue => i = j
    /\ \A t, u \in Threads : val[t] = val[u] /\ val[t] # NoValue => t = u
    /\ \A i \in Index, t \in Threads : slots_[i] = val[t] => val[t] = NoValue

\* stats(): the counters account for the queue's content in every state another
\* thread can read them in.
StatsBalance ==
    /\ stats_.pushed = stats_.popped + size_
    /\ size_ <= stats_.high_watermark
    /\ stats_.high_watermark <= Capacity
    /\ stats_.high_watermark <= stats_.pushed

\* No wake-up is lost although notify_one is called after the unlock, its target is
\* arbitrary and may time out or be overtaken: while a consumer sleeps, every
\* queued value has a notification still to be sent or an awake consumer coming
\* back for it; while a producer sleeps, the same holds for every free slot.
NoLostWakeup ==
    ~closed_ =>
        /\ At(WaitsNotEmpty) # {} =>
              size_ <= Cardinality(At({"notify_not_empty", "pop_awake",
                                       "pop_for_awake", "pop_for_expired"}))
        /\ At(WaitsNotFull) # {} =>
              Capacity - size_ <= Cardinality(At({"notify_not_full", "push_awake",
                                                  "push_expired"}))

\* close() reaches every sleeper: a thread asleep on a closed queue still has a
\* notify_all ahead of it, so no thread can fall asleep after it was sent.
NoSleeperMissesClose ==
    closed_ =>
        /\ At(WaitsNotEmpty) # {} => At({"notify_all_not_empty"}) # {}
        /\ At(WaitsNotFull) # {} => At({"notify_all_not_empty", "notify_all_not_full"}) # {}

\* The ring, read from head_ on, is a bounded FIFO.
Abstract == INSTANCE Fifo WITH
    items <- [k \in 1 .. size_ |-> slots_[SlotAt(k - 1)]],
    closed <- closed_,
    got <- [t \in Threads |-> IF pc[t] = "notify_not_full" THEN val[t] ELSE NoValue]

\* Whatever the interleaving, the values popped are the values pushed, in order and
\* once each, close() refuses every later push and loses none that was accepted.
ImplementsFifo == Abstract!Spec

\* wait_push and wait_pop_for return: a wake-up that finds the predicate false does
\* not make the call outlive its deadline.
TimedCallsReturn ==
    \A t \in Threads :
        pc[t] \in Timed \cup {"push_expired", "pop_for_expired"} ~> pc[t] = "idle"

\* close() ends every call that is in progress, the untimed wait_pop included.
CloseEndsCalls ==
    \A t \in Threads : closed_ ~> pc[t] = "idle"

=================================================================================
