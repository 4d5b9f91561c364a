-------------------------------- MODULE Crc16 --------------------------------
(* crc16_ccitt() of protocols/uart_protocol.hpp: CRC-16 with polynomial 0x1021,  *)
(* initial value 0xFFFF, most significant bit first, nothing reflected.  The     *)
(* loops are recursive functions of the loop variables.                          *)
EXTENDS Naturals, Sequences, Bitwise

crc16_ccitt(bytes) ==
    LET Crc == 0 .. 65535
        shifted[crc \in Crc, bits \in 0 .. 8] ==
            IF bits = 0 THEN crc
            ELSE shifted[IF crc >= 32768 THEN ((crc * 2) % 65536) ^^ 4129 ELSE crc * 2, bits - 1]
        added[crc \in Crc, byte \in 0 .. 255] == shifted[crc ^^ (byte * 256), 8]
        after[i \in 0 .. Len(bytes)] ==
            IF i = 0 THEN 65535 ELSE added[after[i - 1], bytes[i]]
    IN  after[Len(bytes)]
==============================================================================
