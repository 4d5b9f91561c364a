------------------------------ MODULE EventPipeline ------------------------------
(* What EdgeRuntime promises of the events given to publish(), with no pool, no    *)
(* queue and no threads: those that were accepted wait in order, and machine_      *)
(* changes only by handling the oldest of them, one at a time and each once.  The  *)
(* capacity is the queue's, and the control task may have taken one event more.    *)
(* EdgeRuntime is shown to implement this module and Daemon is built on it.        *)
EXTENDS Naturals, Sequences

CONSTANTS Capacity, Protection, Samples

VARIABLES
    pending,   \* accepted and not yet handled
    shut,      \* no event is accepted any more
    state_, last_sample_, has_sample_, warning_count_, critical_count_,
    recovery_count_, offline_count_, transition

Machine == INSTANCE MotorStateMachine WITH config_ <- Protection, MaxWarningCount <- 0

motor == <<state_, last_sample_, has_sample_, warning_count_, critical_count_,
           recovery_count_, offline_count_, transition>>
pipelineVars == <<pending, shut, motor>>

Init == pending = <<>> /\ shut = FALSE /\ Machine!Init

Accept(e) ==
    /\ ~shut /\ Len(pending) <= Capacity
    /\ pending' = Append(pending, e)
    /\ UNCHANGED <<shut, motor>>

Handle ==
    /\ pending # <<>>
    /\ Machine!handle(Head(pending))
    /\ pending' = Tail(pending)
    /\ UNCHANGED shut

Shut == shut' = TRUE /\ UNCHANGED <<pending, motor>>

Next == (\E e \in Machine!Events : Accept(e)) \/ Handle \/ Shut

Spec == Init /\ [][Next]_pipelineVars
=================================================================================
