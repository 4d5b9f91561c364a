------------------------------ MODULE MCEdgeRuntime ------------------------------
(* EdgeRuntime for TLC: one kind of sample, critical, and short runs.            *)
EXTENDS EdgeRuntime, TLC

ShortRuns ==
    [temperature_warning_c |-> 80, temperature_recovery_c |-> 75, temperature_critical_c |-> 95,
     vibration_warning_mm_s |-> 7, vibration_recovery_mm_s |-> 5, vibration_critical_mm_s |-> 10,
     current_warning_a |-> 15, current_recovery_a |-> 13, current_critical_a |-> 20,
     warning_samples |-> 1, critical_samples |-> 2, recovery_samples |-> 1, offline_samples |-> 1]

CriticalSample ==
    {[temperature_c |-> 100, vibration_mm_s |-> 2, current_a |-> 8, online |-> TRUE]}

Symmetric == Permutations(Clients) \cup Permutations(Slots)
=================================================================================
