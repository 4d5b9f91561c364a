----------------------------- MODULE SensorSources -----------------------------
(* The three Linux sensor adapters (linux/sensor_adapters.cpp) with the CAN and  *)
(* I2C decoding they use (protocols/can_protocol.hpp, i2c_sensor.hpp,            *)
(* measurement.hpp), a device on the bus, and the state machine that judges what *)
(* read() returns.  The runtime's sensor task hands every sample on in order;    *)
(* what happens when its queue is full is in EdgeRuntime.                        *)
(*                                                                               *)
(* A reading is an integer number of thousandths, so dividing by 1000 or by 100  *)
(* is a change of unit.  A UART frame is one the decoder has returned (UartLine  *)
(* models the bytes); a CAN frame has its identifier, its length and its data.   *)
EXTENDS ByteOrder

CONSTANTS
    UartFrames,      \* frames the decoder returns: kind and milli_value
    CanFrames,       \* can_frame as read() delivers it: can_id, can_dlc, and of data
                     \* the four bytes that are read
    Registers,       \* what the four I2C registers can hold
    BusCapacity,     \* bound: frames waiting in the kernel
    Protection       \* ProtectionConfig, in thousandths

VARIABLES
    adapter,         \* which adapter it is
    descriptor_,     \* the device or socket was opened
    error_number_,   \* an error was recorded
    sample_,         \* sample_, or last_sample_ of the I2C reader
    bus,             \* frames waiting in the kernel
    alive,           \* the device still answers and sends
    unheard,         \* calls of read() in a row without news, or with bad news
    state_, last_sample_, has_sample_, warning_count_, critical_count_,
    recovery_count_, offline_count_, transition    \* the state machine

Machine == INSTANCE MotorStateMachine WITH
    config_ <- Protection, Samples <- {}, MaxWarningCount <- 0

machineVars == <<state_, last_sample_, has_sample_, warning_count_, critical_count_,
                 recovery_count_, offline_count_, transition>>
sourceVars == <<adapter, descriptor_, error_number_, sample_, bus, alive, unheard>>
vars == <<sourceVars, machineVars>>

Kinds == {"temperature", "vibration", "current", "online"}

ASSUME ProtectionAssumption == Protection \in Machine!ProtectionConfig
ASSUME BusAssumption ==
    /\ UartFrames \subseteq [kind : Kinds, milli_value : Int32]
    /\ CanFrames \subseteq [can_id : Nat, can_dlc : Nat, data : [1 .. 4 -> Byte]]
    /\ Registers \subseteq [temperature : [1 .. 2 -> Byte], vibration : [1 .. 2 -> Byte],
                            current : [1 .. 2 -> Byte], status : Byte]

---------------------------------------------------------------------------------
(* Decoding.  A measurement is a sequence of at most one, empty for nullopt.     *)

decode_uart_measurement(frame) ==
    [kind |-> frame.kind,
     value |-> IF frame.kind # "online" THEN frame.milli_value
               ELSE IF frame.milli_value = 0 THEN 0 ELSE 1]

CanKind == [id \in 257 .. 259 |-> <<"temperature", "vibration", "current">>[id - 256]]
kCanOnlineId == 260

decode_can_message(id, length, data) ==
    CASE id = kCanOnlineId /\ length >= 1 ->
            <<[kind |-> "online", value |-> IF data[1] = 0 THEN 0 ELSE 1]>>
      [] id \in DOMAIN CanKind /\ length >= 4 ->
            <<[kind |-> CanKind[id], value |-> SignedDouble(data, 1)]>>
      [] OTHER -> <<>>

apply_measurement(sample, m) ==
    CASE m.kind = "temperature" -> [sample EXCEPT !.temperature_c = m.value]
      [] m.kind = "vibration" -> [sample EXCEPT !.vibration_mm_s = m.value]
      [] m.kind = "current" -> [sample EXCEPT !.current_a = m.value]
      [] m.kind = "online" -> [sample EXCEPT !.online = m.value # 0]

\* Faulty variant: only an online report brings the sensor back.
ReceiveKeepsOffline(sample, m) == apply_measurement(sample, m)

\* Any other measurement than an online report shows that the sensor is there.
Receive(sample, m) ==
    LET applied == apply_measurement(sample, m)
    IN  IF m.kind = "online" THEN applied ELSE [applied EXCEPT !.online = TRUE]

\* The sample once the measurements ms are received, one after the other.
Received(ms) ==
    LET After[i \in 0 .. Len(ms)] ==
            IF i = 0 THEN sample_ ELSE Receive(After[i - 1], ms[i])
    IN  After[Len(ms)]

\* Faulty variant: silence leaves the sample as it was.
SampleAfterSilent(ms) == Received(ms)

\* The sample read() returns when it received the measurements ms.
SampleAfter(ms) ==
    IF ms = <<>> THEN [sample_ EXCEPT !.online = FALSE] ELSE Received(ms)

\* The I2C registers hold hundredths; bit 0 of the status says online.
DecodeRegisters(r) ==
    [temperature_c |-> Signed(Word(r.temperature, 1)) * 10,
     vibration_mm_s |-> Word(r.vibration, 1) * 10,
     current_a |-> Word(r.current, 1) * 10, online |-> r.status % 2 # 0]

---------------------------------------------------------------------------------

\* The constructor; nothing is sampled before the machine is healthy.
Init ==
    /\ adapter \in {"uart", "can", "i2c"}
    /\ descriptor_ \in BOOLEAN
    /\ error_number_ = ~descriptor_
    /\ sample_ = Machine!DefaultSample
    /\ bus = <<>> /\ alive = TRUE /\ unheard = 0
    /\ state_ = "healthy"
    /\ last_sample_ = Machine!DefaultSample /\ has_sample_ = FALSE
    /\ warning_count_ = 0 /\ critical_count_ = 0
    /\ recovery_count_ = 0 /\ offline_count_ = 0
    /\ transition = [previous |-> "self_test", current |-> "healthy",
                     reason |-> "self_test_succeeded", changed |-> TRUE]

\* read() has returned sample: it becomes an event and the machine handles it.
Deliver(sample, news) ==
    /\ sample_' = sample
    /\ unheard' = IF news THEN 0 ELSE IF unheard < Protection.offline_samples
                                      THEN unheard + 1 ELSE unheard
    /\ Machine!handle(Machine!SampleEvent(sample))
    /\ UNCHANGED <<adapter, descriptor_, alive>>

\* The end of read(), with the measurements the call received.
Finish(ms) ==
    Deliver(SampleAfter(ms),
            ms # <<>> /\ ms[Len(ms)] # [kind |-> "online", value |-> 0])

\* One read of up to 128 bytes: any number of the waiting frames become complete.
UartRead ==
    /\ adapter = "uart" /\ descriptor_
    /\ \E n \in 0 .. Len(bus) :
          /\ bus' = SubSeq(bus, n + 1, Len(bus))
          /\ Finish([i \in 1 .. n |-> decode_uart_measurement(bus[i])])
    /\ UNCHANGED error_number_

\* One frame of those that wait.  CAN_EFF_MASK keeps the low 29 bits of can_id, so
\* that the extended and the remote request flag are lost.
CanRead ==
    /\ adapter = "can" /\ descriptor_ /\ bus # <<>>
    /\ LET frame == Head(bus) IN
          Finish(decode_can_message(frame.can_id % 2 ^ 29, frame.can_dlc, frame.data))
    /\ bus' = Tail(bus)
    /\ UNCHANGED error_number_

\* No input within 50 ms, poll() or read() interrupted, or a source that is not open.
ReadNothing ==
    /\ adapter \in {"uart", "can"}
    /\ Finish(<<>>)
    /\ UNCHANGED <<bus, error_number_>>

\* poll() announced input and read() failed with something else than EAGAIN or EINTR.
ReadFails ==
    /\ adapter \in {"uart", "can"} /\ descriptor_ /\ bus # <<>>
    /\ error_number_' = TRUE
    /\ Finish(<<>>)
    /\ UNCHANGED bus

\* The four registers are read one after the other while the device goes on: each
\* holds what it holds at its own moment.
I2cRead ==
    /\ adapter = "i2c" /\ descriptor_ /\ alive
    /\ \E r \in Registers :
          Deliver(DecodeRegisters(r), r.status % 2 # 0)
    /\ UNCHANGED <<error_number_, bus>>

\* One of the four transfers fails, and the values read before it are dropped.
I2cReadFails ==
    /\ adapter = "i2c"
    /\ error_number_' = TRUE
    /\ Deliver([sample_ EXCEPT !.online = FALSE], FALSE)
    /\ UNCHANGED bus

read == UartRead \/ CanRead \/ ReadNothing \/ ReadFails \/ I2cRead \/ I2cReadFails

\* The device sends a frame; when the kernel's buffer is full the frame is lost.
DeviceSends ==
    /\ alive /\ Len(bus) < BusCapacity
    /\ \/ adapter = "uart" /\ \E f \in UartFrames : bus' = Append(bus, f)
       \/ adapter = "can" /\ \E f \in CanFrames : bus' = Append(bus, f)
    /\ UNCHANGED <<adapter, descriptor_, error_number_, sample_, alive, unheard, machineVars>>

DeviceDies ==
    /\ alive
    /\ alive' = FALSE
    /\ UNCHANGED <<adapter, descriptor_, error_number_, sample_, bus, unheard, machineVars>>

Next == read \/ DeviceSends \/ DeviceDies
Spec == Init /\ [][Next]_vars

\* The sensor task calls read() every period.
FairSpec == Spec /\ WF_vars(read)

---------------------------------------------------------------------------------
(* Properties.                                                                   *)

\* The machine latches "sensor offline" only after offline_samples calls of read() in
\* a row that brought no measurement, or whose last one said the sensor is offline:
\* a sensor that sends a measurement in time is never taken for a dead one.
OfflineMeansUnheard ==
    transition.reason = "sensor_offline" => unheard = Protection.offline_samples

\* A device that falls silent is noticed: whatever still waits on the bus, the motor
\* is stopped in the end.  So is it when the source could not be opened at all.
SilenceLatches == ~alive ~> state_ = "fault_latched"
=================================================================================
