--------------------------------- MODULE MCDaemon ---------------------------------
(* Daemon for TLC, with the code's ProtectionConfig.                                *)
EXTENDS Daemon

Defaults ==
    [temperature_warning_c |-> 80, temperature_recovery_c |-> 75, temperature_critical_c |-> 95,
     vibration_warning_mm_s |-> 7, vibration_recovery_mm_s |-> 5, vibration_critical_mm_s |-> 10,
     current_warning_a |-> 15, current_recovery_a |-> 13, current_critical_a |-> 20,
     warning_samples |-> 3, critical_samples |-> 2, recovery_samples |-> 5, offline_samples |-> 3]

Baseline == [temperature_c |-> 45, vibration_mm_s |-> 2, current_a |-> 6, online |-> TRUE]
Hot == [Baseline EXCEPT !.temperature_c = 105]

MCInjections == {Hot}
===================================================================================
