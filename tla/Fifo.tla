---------------------------------- MODULE Fifo ----------------------------------
(* What a bounded queue promises its callers: values leave in the order they     *)
(* entered, each exactly once, never more than Capacity are inside, close()      *)
(* refuses new values and keeps the queued ones, and is never undone.  There     *)
(* are no locks, indices, waiters or statistics here; BoundedQueue implements    *)
(* this specification.                                                           *)
EXTENDS Naturals, Sequences

CONSTANTS Threads, Values, Capacity, NoValue

VARIABLES
    items,   \* the queued values, oldest first
    closed,  \* close() has been called
    got      \* the value a pop is handing to each thread

fifoVars == <<items, closed, got>>

Init ==
    /\ items = <<>>
    /\ closed = FALSE
    /\ got = [t \in Threads |-> NoValue]

Push(v) ==
    /\ ~closed
    /\ Len(items) < Capacity
    /\ items' = Append(items, v)
    /\ UNCHANGED <<closed, got>>

Pop(t) ==
    /\ items # <<>>
    /\ got[t] = NoValue
    /\ got' = [got EXCEPT ![t] = Head(items)]
    /\ items' = Tail(items)
    /\ UNCHANGED closed

\* The popped value leaves with the caller.
Return(t) ==
    /\ got' = [got EXCEPT ![t] = NoValue]
    /\ UNCHANGED <<items, closed>>

Close ==
    /\ closed' = TRUE
    /\ UNCHANGED <<items, got>>

Next ==
    \/ \E v \in Values : Push(v)
    \/ \E t \in Threads : Pop(t) \/ Return(t)
    \/ Close

Spec == Init /\ [][Next]_fifoVars
=================================================================================
