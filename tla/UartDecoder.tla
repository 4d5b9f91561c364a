------------------------------ MODULE UartDecoder ------------------------------
(* protocols/uart_protocol.hpp: the twelve-byte frame and UartFrameDecoder,      *)
(* which is fed one byte at a time.  buffer_ is the part of the array that is in *)
(* use, so position_ is its length; the bytes behind it are never read.          *)
EXTENDS ByteOrder

CONSTANTS
    Crc16(_),         \* crc16_ccitt
    NoFrame,          \* std::nullopt
    CounterModulus    \* 2^64 in the code: the error counters are size_t

ASSUME CounterAssumption == CounterModulus \in Nat \ {0}

VARIABLES
    buffer_, crc_errors_, format_errors_,
    returned       \* what the last feed() returned

decoderVars == <<buffer_, crc_errors_, format_errors_, returned>>

kUartMagicFirst == 170
kUartMagicSecond == 85
kUartProtocolVersion == 1
kUartFrameSize == 12

\* MeasurementKind: temperature, vibration, current, online; the enum can hold any byte.
MeasurementKind == 1 .. 4
UartFrame == [kind : Byte, sequence : UInt16, milli_value : Int32]

\* The ten bytes that the checksum covers.
Covered(frame) ==
    <<kUartMagicFirst, kUartMagicSecond, kUartProtocolVersion, frame.kind>>
    \o BigEndian(frame.sequence, 2) \o BigEndian(frame.milli_value, 4)

encode_uart_frame(frame) == Covered(frame) \o BigEndian(Crc16(Covered(frame)), 2)

Decoded(bytes) ==
    [kind |-> bytes[4], sequence |-> Word(bytes, 5),
     milli_value |-> SignedDouble(bytes, 7)]

DecoderInit ==
    /\ buffer_ = <<>>
    /\ crc_errors_ = 0 /\ format_errors_ = 0
    /\ returned = NoFrame

---------------------------------------------------------------------------------
(* feed().                                                                       *)

position_ == Len(buffer_)

AwaitFirst(byte) ==
    /\ position_ = 0
    /\ buffer_' = IF byte = kUartMagicFirst THEN <<byte>> ELSE <<>>
    /\ returned' = NoFrame
    /\ UNCHANGED <<crc_errors_, format_errors_>>

\* Faulty variant: a repeated first byte starts the search again.
AwaitSecondForgets(byte) ==
    /\ position_ = 1
    /\ buffer_' = IF byte = kUartMagicSecond THEN Append(buffer_, byte) ELSE <<>>
    /\ returned' = NoFrame
    /\ UNCHANGED <<crc_errors_, format_errors_>>

\* A repeated first byte may itself be the start of a frame.
AwaitSecond(byte) ==
    /\ position_ = 1
    /\ buffer_' = CASE byte = kUartMagicSecond -> Append(buffer_, byte)
                    [] byte = kUartMagicFirst -> buffer_
                    [] OTHER -> <<>>
    /\ returned' = NoFrame
    /\ UNCHANGED <<crc_errors_, format_errors_>>

Collect(byte) ==
    /\ position_ \in 2 .. kUartFrameSize - 2
    /\ buffer_' = Append(buffer_, byte)
    /\ returned' = NoFrame
    /\ UNCHANGED <<crc_errors_, format_errors_>>

\* Faulty variant: a CRC mismatch is counted and the frame is used all the same.
RejectCrcCountsOnly(bytes) ==
    /\ crc_errors_' = (crc_errors_ + 1) % CounterModulus
    /\ returned' = Decoded(bytes)
    /\ UNCHANGED format_errors_

RejectCrc(bytes) ==
    /\ crc_errors_' = (crc_errors_ + 1) % CounterModulus
    /\ returned' = NoFrame
    /\ UNCHANGED format_errors_

RejectFormat(bytes) ==
    /\ bytes[3] # kUartProtocolVersion \/ bytes[4] \notin MeasurementKind
    /\ format_errors_' = (format_errors_ + 1) % CounterModulus
    /\ returned' = NoFrame
    /\ UNCHANGED crc_errors_

Accept(bytes) ==
    /\ bytes[3] = kUartProtocolVersion /\ bytes[4] \in MeasurementKind
    /\ returned' = Decoded(bytes)
    /\ UNCHANGED <<crc_errors_, format_errors_>>

Judge(bytes) ==
    IF Crc16(SubSeq(bytes, 1, 10)) = Word(bytes, 11)
    THEN RejectFormat(bytes) \/ Accept(bytes)
    ELSE RejectCrc(bytes)

\* The twelfth byte; the buffer is emptied whatever the frame is worth.
Complete(byte) ==
    /\ position_ = kUartFrameSize - 1
    /\ Judge(Append(buffer_, byte))
    /\ buffer_' = <<>>

feed(byte) == AwaitFirst(byte) \/ AwaitSecond(byte) \/ Collect(byte) \/ Complete(byte)
=================================================================================
