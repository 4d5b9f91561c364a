-------------------------------- MODULE UartLine --------------------------------
(* A device that sends frames back to back over a serial line that may lose,     *)
(* damage and insert bytes, and the decoder at the other end.  The device and    *)
(* the line are outside the repository; what the decoder does with each byte is  *)
(* UartDecoder.                                                                  *)
EXTENDS UartDecoder

CONSTANTS
    Frames,       \* the frames the device sends, as it hands them to the encoder
    Inserted,     \* bytes the line can insert
    Damaged,      \* bytes it can put in the place of another
    MaxFaults     \* bound: line faults

ASSUME LineAssumption == Inserted \cup Damaged \subseteq Byte /\ MaxFaults \in Nat
ASSUME FramesAssumption ==
    /\ Frames \subseteq UartFrame
    /\ \A frame \in Frames : Crc16(Covered(frame)) \in UInt16

VARIABLES
    sending,    \* the frame on the line
    sent,       \* how many of its bytes have gone
    spoiled,    \* a fault hit this frame, or the gap before it
    missed,     \* valid frames in a row that came through whole and were not
                \* returned as they were sent; 2 stands for two or more
    faults

lineVars == <<sending, sent, spoiled, missed, faults>>
uartVars == <<decoderVars, lineVars>>

LineInit ==
    /\ DecoderInit
    /\ sending \in Frames
    /\ sent = 0 /\ spoiled = FALSE /\ missed = 0 /\ faults = 0

Wire == [frame \in Frames |-> encode_uart_frame(frame)]
OnWire == Wire[sending][sent + 1]
Valid(frame) == frame.kind \in MeasurementKind

\* No frame has the first two bytes of a frame anywhere behind its own.
NoMagicInside ==
    \A frame \in Frames : \A i \in 2 .. kUartFrameSize - 1 :
        Wire[frame][i] = kUartMagicFirst => Wire[frame][i + 1] # kUartMagicSecond

\* The byte is past; after the last one the device goes on to the next frame.
Advance(fault) ==
    IF sent + 1 < kUartFrameSize
    THEN /\ sent' = sent + 1
         /\ spoiled' = (spoiled \/ fault)
         /\ UNCHANGED <<sending, missed>>
    ELSE /\ sent' = 0 /\ spoiled' = FALSE
         /\ sending' \in Frames
         /\ missed' = IF spoiled \/ fault \/ returned' = sending THEN 0
                      ELSE IF Valid(sending) /\ missed < 2 THEN missed + 1 ELSE missed

Transmit ==
    /\ feed(OnWire)
    /\ Advance(FALSE)
    /\ UNCHANGED faults

Fault == faults < MaxFaults /\ faults' = faults + 1

Lose ==
    /\ Fault
    /\ returned' = NoFrame
    /\ UNCHANGED <<buffer_, crc_errors_, format_errors_>>
    /\ Advance(TRUE)

Damage ==
    /\ Fault
    /\ \E byte \in Damaged \ {OnWire} : feed(byte)
    /\ Advance(TRUE)

Insert ==
    /\ Fault
    /\ \E byte \in Inserted : feed(byte)
    /\ spoiled' = TRUE
    /\ UNCHANGED <<sending, sent, missed>>

LineNext == Transmit \/ Lose \/ Damage \/ Insert
LineSpec == LineInit /\ [][LineNext]_uartVars

\* The device never falls silent; nothing makes the line fail.
FairLineSpec == LineSpec /\ WF_uartVars(Transmit)

---------------------------------------------------------------------------------
(* Properties.                                                                   *)

\* feed() returns only frames of a known kind that the device has sent, with the kind,
\* the sequence number and the value it encoded: what is left of a frame after bytes
\* were lost, damaged or inserted is never taken for one, nor is the end of one frame
\* with the start of another.
ReturnsSentFrames == returned \in {frame \in Frames : Valid(frame)} \cup {NoFrame}

\* However the line has failed before, the decoder misses at most one frame that came
\* through whole, and returns the next as it was sent.
MissesAtMostOne == missed <= 1

\* docs/zh-CN/06-linux-buses.md:39: after an error the decoder synchronizes again,
\* so that it keeps returning frames while the device keeps sending valid ones.
Resynchronizes == []<>Valid(sending) => []<>(returned # NoFrame)
=================================================================================
