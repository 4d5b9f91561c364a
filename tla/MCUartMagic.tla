------------------------------ MODULE MCUartMagic ------------------------------
(* UartLine for TLC with a value that looks like the start of a frame.          *)
EXTENDS UartLine, Crc16

\* 43.605 degrees: the value is 0x0000AA55.
MCMagicFrames ==
    {[kind |-> 1, sequence |-> s, milli_value |-> 43605] : s \in {1, 2}}

MCNoise == {kUartMagicFirst, kUartMagicSecond, 0}
=================================================================================
