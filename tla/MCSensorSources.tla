---------------------------- MODULE MCSensorSources ----------------------------
(* SensorSources for TLC: one good and one critical temperature, a report each    *)
(* way, and the frames and registers that carry them.                             *)
EXTENDS SensorSources

DefaultConfig ==
    [temperature_warning_c |-> 80000, temperature_recovery_c |-> 75000,
     temperature_critical_c |-> 95000, vibration_warning_mm_s |-> 7000,
     vibration_recovery_mm_s |-> 5000, vibration_critical_mm_s |-> 10000,
     current_warning_a |-> 15000, current_recovery_a |-> 13000, current_critical_a |-> 20000,
     warning_samples |-> 3, critical_samples |-> 2, recovery_samples |-> 5, offline_samples |-> 3]

MCUartFrames ==
    {[kind |-> "temperature", milli_value |-> t] : t \in {-5000, 100000}}
    \cup {[kind |-> "vibration", milli_value |-> 2000], [kind |-> "current", milli_value |-> 8000]}
    \cup {[kind |-> "online", milli_value |-> b] : b \in {0, 1}}

CanFrame(id, length, milli) ==
    [can_id |-> id, can_dlc |-> length, data |-> BigEndian(milli, 4)]

\* With a frame of another node and one that is too short.
MCCanFrames ==
    {CanFrame(257, 4, -5000), CanFrame(257, 4, 100000), CanFrame(258, 4, 2000),
     CanFrame(259, 4, 8000), CanFrame(260, 1, 0), CanFrame(260, 1, 2 ^ 24),
     CanFrame(1911, 4, 0), CanFrame(257, 2, 200000)}

MCRegisters ==
    {[temperature |-> BigEndian(t, 2), vibration |-> BigEndian(200, 2),
      current |-> BigEndian(800, 2), status |-> s] : t \in {-500, 10000}, s \in {254, 255}}
=================================================================================
