--------------------------------- MODULE MCMotor ---------------------------------
(* MotorHistory for TLC: the default configuration, and one sample of each class *)
(* the thresholds tell apart, each decided by a different channel.               *)
EXTENDS MotorHistory

DefaultConfig ==
    [temperature_warning_c |-> 80, temperature_recovery_c |-> 75, temperature_critical_c |-> 95,
     vibration_warning_mm_s |-> 7, vibration_recovery_mm_s |-> 5, vibration_critical_mm_s |-> 10,
     current_warning_a |-> 15, current_recovery_a |-> 13, current_critical_a |-> 20,
     warning_samples |-> 3, critical_samples |-> 2, recovery_samples |-> 5, offline_samples |-> 3]

Reading(t, v, c) ==
    [temperature_c |-> t, vibration_mm_s |-> v, current_a |-> c, online |-> TRUE]

\* Recovered to the last unit, between the thresholds, warning, critical, offline.
SampleClasses ==
    {Reading(75, 5, 13), Reading(40, 6, 8), Reading(40, 2, 15), Reading(95, 2, 8),
     [Reading(120, 2, 8) EXCEPT !.online = FALSE]}
==================================================================================
