--------------------------- MODULE MotorStateMachine ---------------------------
(* fsm/motor_state_machine.hpp: the event-driven protection state machine, with *)
(* its four consecutive-sample counters.  It has a single owner, so a call of   *)
(* handle() is one step.                                                        *)
EXTENDS Readings

CONSTANT MaxWarningCount   \* bound: warning_count_ has no limit in Degraded

ASSUME MaxWarningCountAssumption == MaxWarningCount \in Nat

VARIABLES
    state_, last_sample_, has_sample_,
    warning_count_, critical_count_, recovery_count_, offline_count_,
    transition   \* the StateTransition the last handle() returned

counters == <<warning_count_, critical_count_, recovery_count_, offline_count_>>
machineVars == <<state_, last_sample_, has_sample_, counters, transition>>

MotorState == {"booting", "self_test", "healthy", "degraded", "fault_latched", "safe_shutdown"}
Active == {"healthy", "degraded"}

TransitionReason ==
    {"none", "startup_requested", "self_test_succeeded", "warning_persisted",
     "readings_recovered", "critical_reading", "sensor_offline",
     "internal_resource_failure", "manual_reset", "shutdown_requested"}

DefaultSample == [temperature_c |-> 0, vibration_mm_s |-> 0, current_a |-> 0, online |-> TRUE]

EventOf(kind) == [kind |-> kind, sample |-> DefaultSample]
SampleEvent(s) == [kind |-> "sensor_sample", sample |-> s]

Events ==
    {EventOf(k) : k \in {"startup", "self_test_passed", "reset_requested",
                         "shutdown_requested", "internal_fault"}}
    \cup {SampleEvent(s) : s \in Samples}

Init ==
    /\ state_ = "booting"
    /\ last_sample_ = DefaultSample
    /\ has_sample_ = FALSE
    /\ warning_count_ = 0
    /\ critical_count_ = 0
    /\ recovery_count_ = 0
    /\ offline_count_ = 0
    /\ transition = [previous |-> "booting", current |-> "booting",
                     reason |-> "none", changed |-> FALSE]

---------------------------------------------------------------------------------

reset_counters ==
    /\ warning_count_' = 0
    /\ critical_count_' = 0
    /\ recovery_count_' = 0
    /\ offline_count_' = 0

transition_to(next, reason) ==
    /\ state_' = next
    /\ reset_counters
    /\ transition' = [previous |-> state_, current |-> next,
                      reason |-> reason, changed |-> state_ # next]

unchanged ==
    /\ transition' = [previous |-> state_, current |-> state_,
                      reason |-> "none", changed |-> FALSE]
    /\ UNCHANGED state_

\* Faulty variant: an offline sample does not break a critical run.
CriticalRunSurvivesOffline(s) ==
    IF ~s.online THEN critical_count_ ELSE IF is_critical(s) THEN critical_count_ + 1 ELSE 0
\* The counters once sample s is counted.
OfflineRun(s) == IF s.online THEN 0 ELSE offline_count_ + 1
CriticalRun(s) == IF s.online /\ is_critical(s) THEN critical_count_ + 1 ELSE 0
WarningRun(s) == IF s.online /\ is_warning(s) THEN warning_count_ + 1 ELSE 0
RecoveryRun(s) ==
    IF s.online /\ ~is_warning(s) /\ state_ = "degraded" /\ is_recovered(s)
    THEN recovery_count_ + 1 ELSE 0

\* Faulty variants: one warning too many, one recovered sample too few.
WarningTripsLate(s) ==
    s.online /\ state_ = "healthy" /\ WarningRun(s) > config_.warning_samples
RecoveryTripsEarly(s) ==
    s.online /\ state_ = "degraded" /\ RecoveryRun(s) + 1 >= config_.recovery_samples

OfflineTrips(s) == ~s.online /\ OfflineRun(s) >= config_.offline_samples
CriticalTrips(s) == s.online /\ CriticalRun(s) >= config_.critical_samples
WarningTrips(s) ==
    s.online /\ state_ = "healthy" /\ WarningRun(s) >= config_.warning_samples
RecoveryTrips(s) ==
    s.online /\ state_ = "degraded" /\ RecoveryRun(s) >= config_.recovery_samples

\* The early return of critical_reading comes before the other two are looked at.
handle_sample(s) ==
    /\ last_sample_' = s
    /\ has_sample_' = TRUE
    /\ \/ state_ \notin Active /\ unchanged /\ UNCHANGED counters
       \/ /\ state_ \in Active
          /\ \/ OfflineTrips(s) /\ transition_to("fault_latched", "sensor_offline")
             \/ CriticalTrips(s) /\ transition_to("fault_latched", "critical_reading")
             \/ /\ ~CriticalTrips(s) /\ WarningTrips(s)
                /\ transition_to("degraded", "warning_persisted")
             \/ /\ ~CriticalTrips(s) /\ RecoveryTrips(s)
                /\ transition_to("healthy", "readings_recovered")
             \/ /\ ~OfflineTrips(s) /\ ~CriticalTrips(s)
                /\ ~WarningTrips(s) /\ ~RecoveryTrips(s)
                /\ warning_count_' = WarningRun(s)
                /\ critical_count_' = CriticalRun(s)
                /\ recovery_count_' = RecoveryRun(s)
                /\ offline_count_' = OfflineRun(s)
                /\ unchanged

\* The commands and the state each is acted on in.
Acts(e, kind, from) == e.kind = kind /\ state_ = from

handle(e) ==
    \/ state_ = "safe_shutdown" /\ unchanged /\ UNCHANGED <<last_sample_, has_sample_, counters>>
    \/ /\ state_ # "safe_shutdown"
       /\ e.kind = "sensor_sample"
       /\ handle_sample(e.sample)
    \/ /\ state_ # "safe_shutdown"
       /\ e.kind # "sensor_sample"
       /\ \/ /\ e.kind = "shutdown_requested"
             /\ transition_to("safe_shutdown", "shutdown_requested")
          \/ /\ e.kind = "internal_fault"
             /\ transition_to("fault_latched", "internal_resource_failure")
          \/ /\ Acts(e, "startup", "booting")
             /\ transition_to("self_test", "startup_requested")
          \/ /\ Acts(e, "self_test_passed", "self_test")
             /\ transition_to("healthy", "self_test_succeeded")
          \/ /\ Acts(e, "reset_requested", "fault_latched")
             /\ transition_to("self_test", "manual_reset")
          \/ /\ e.kind \notin {"shutdown_requested", "internal_fault"}
             /\ ~Acts(e, "startup", "booting")
             /\ ~Acts(e, "self_test_passed", "self_test")
             /\ ~Acts(e, "reset_requested", "fault_latched")
             /\ unchanged /\ UNCHANGED counters
       /\ UNCHANGED <<last_sample_, has_sample_>>

Next ==
    \E e \in Events :
        /\ e.kind = "sensor_sample" => warning_count_ < MaxWarningCount
        /\ handle(e)

Spec == Init /\ [][Next]_machineVars
=================================================================================
