-------------------------------- MODULE Readings --------------------------------
(* Sensor samples (domain/event.hpp) and how ProtectionConfig's thresholds class *)
(* them (fsm/motor_state_machine.hpp).  A reading is an integer: only its order  *)
(* relative to the thresholds matters.  The sequence number is left out.         *)
EXTENDS Integers

CONSTANTS
    config_,   \* ProtectionConfig
    Samples    \* the samples a sensor may deliver

SampleType == [temperature_c : Int, vibration_mm_s : Int, current_a : Int, online : BOOLEAN]

ProtectionConfig ==
    [temperature_warning_c : Int, temperature_recovery_c : Int, temperature_critical_c : Int,
     vibration_warning_mm_s : Int, vibration_recovery_mm_s : Int, vibration_critical_mm_s : Int,
     current_warning_a : Int, current_recovery_a : Int, current_critical_a : Int,
     warning_samples : Nat, critical_samples : Nat, recovery_samples : Nat, offline_samples : Nat]

ASSUME ConfigAssumption == config_ \in ProtectionConfig
ASSUME SamplesAssumption == Samples \subseteq SampleType

is_warning(s) ==
    \/ s.temperature_c >= config_.temperature_warning_c
    \/ s.vibration_mm_s >= config_.vibration_warning_mm_s
    \/ s.current_a >= config_.current_warning_a

is_critical(s) ==
    \/ s.temperature_c >= config_.temperature_critical_c
    \/ s.vibration_mm_s >= config_.vibration_critical_mm_s
    \/ s.current_a >= config_.current_critical_a

is_recovered(s) ==
    /\ s.temperature_c <= config_.temperature_recovery_c
    /\ s.vibration_mm_s <= config_.vibration_recovery_mm_s
    /\ s.current_a <= config_.current_recovery_a
=================================================================================
