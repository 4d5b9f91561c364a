------------------------------ MODULE MCUartLine ------------------------------
(* Frames for TLC, with the CRC of the code.                                   *)
EXTENDS UartLine, Crc16

Frame(k, s, v) == [kind |-> k, sequence |-> s, milli_value |-> v]

\* The CRC of the first ends in 0xAA; the second is negative; the third has a kind
\* this decoder does not know.
MCFrames == {Frame(1, 95, 25000), Frame(2, 7, -5000), Frame(9, 1, 0)}

MCNoise == {kUartMagicFirst, kUartMagicSecond, 0}

\* Bits set and cleared anywhere in a frame, and kinds and values of the other frames.
MCDamage == MCNoise \cup {1, 2, 9, 128, 255}

\* What the decoder needs to find the next frame (SensorProofs) is true of these.
ASSUME NoMagicAssumption == NoMagicInside
=================================================================================
