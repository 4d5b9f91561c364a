------------------------------ MODULE MotorHistory ------------------------------
(* MotorStateMachine with a history of the samples it has judged since it        *)
(* entered its state, to relate its counters to the samples they stand for.      *)
EXTENDS MotorStateMachine, Sequences

CONSTANT MaxRecent   \* bound: samples judged without a transition

ASSUME MaxRecentAssumption == MaxRecent \in Nat

VARIABLE recent

historyVars == <<machineVars, recent>>

\* handle(e), and what it does to the history: transition_to forgets it, a judged
\* sample extends it, everything else leaves it alone.
Remember(e) ==
    recent' = IF transition'.reason # "none" THEN <<>>
              ELSE IF e.kind = "sensor_sample" /\ state_ \in Active
                   THEN Append(recent, e.sample)
                   ELSE recent

HistoryInit == Init /\ recent = <<>>

HistoryNext ==
    \E e \in Events :
        /\ e.kind = "sensor_sample" => Len(recent) < MaxRecent
        /\ handle(e)
        /\ Remember(e)

HistorySpec == HistoryInit /\ [][HistoryNext]_historyVars

---------------------------------------------------------------------------------
(* Properties.                                                                   *)

\* Type invariant: the members of MotorStateMachine and the last return value.
TypeOK ==
    /\ state_ \in MotorState
    /\ last_sample_ \in SampleType
    /\ has_sample_ \in BOOLEAN
    /\ warning_count_ \in Nat
    /\ critical_count_ \in Nat
    /\ recovery_count_ \in Nat
    /\ offline_count_ \in Nat
    /\ transition \in [previous : MotorState, current : MotorState,
                       reason : TransitionReason, changed : BOOLEAN]
    /\ recent \in Seq(SampleType)

\* n is the length of the longest run of samples satisfying P at the end of recent.
IsRun(n, P(_)) ==
    /\ n <= Len(recent)
    /\ \A i \in 1 .. Len(recent) : i > Len(recent) - n => P(recent[i])
    /\ n < Len(recent) => ~P(recent[Len(recent) - n])

IsOffline(s) == ~s.online
IsCritical(s) == s.online /\ is_critical(s)
IsWarning(s) == s.online /\ is_warning(s)
IsRecovered(s) == s.online /\ ~is_warning(s) /\ is_recovered(s)

\* Each counter of the machine is the length of the run it is meant to count, in
\* the samples judged since the state was entered: a sample that breaks a run, an
\* offline sample and a transition each clear exactly the counters they should.
CountersAreRuns ==
    /\ IsRun(offline_count_, IsOffline)
    /\ IsRun(critical_count_, IsCritical)
    /\ IsRun(warning_count_, IsWarning)
    /\ IF state_ = "degraded" THEN IsRun(recovery_count_, IsRecovered)
                              ELSE recovery_count_ = 0

\* A run that is long enough has been acted on: in an active state no counter has
\* reached its limit, and outside the active states nothing is being counted.
\* (A limit of zero acts on the first sample, so the counter is still zero.)
NoRunOverdue ==
    /\ offline_count_ = 0 \/ offline_count_ < config_.offline_samples
    /\ critical_count_ = 0 \/ critical_count_ < config_.critical_samples
    /\ state_ = "healthy" => warning_count_ = 0 \/ warning_count_ < config_.warning_samples
    /\ state_ = "degraded" => recovery_count_ = 0 \/ recovery_count_ < config_.recovery_samples
    /\ state_ \notin Active => recent = <<>>

Policy == INSTANCE ProtectionPolicy WITH state <- state_

\* The machine with its counters implements the policy on the samples: it latches,
\* degrades and recovers exactly when the last samples say so.
ImplementsPolicy == Policy!Spec
=================================================================================
