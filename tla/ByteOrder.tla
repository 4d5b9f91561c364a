------------------------------- MODULE ByteOrder -------------------------------
(* Big-endian integers as the protocols put them into bytes and take them out.   *)
EXTENDS Integers, Sequences

Byte == {n \in Nat : n < 256}
UInt16 == {n \in Nat : n < 65536}
Int32 == {n \in Int : -2147483647 - 1 <= n /\ n <= 2147483647}

\* What the bytes of a 32-bit integer count.
Place == <<16777216, 65536, 256, 1>>

\* The bytes of n in two's complement, most significant first.
BigEndian(n, size) == [i \in 1 .. size |-> (n \div Place[4 - size + i]) % 256]

\* The unsigned 16-bit integer at bytes i and i + 1.
Word(bytes, i) == bytes[i] * 256 + bytes[i + 1]

\* std::bit_cast to a signed integer, of 16 and of 32 bits.
Signed(word) == IF word >= 32768 THEN word - 65536 ELSE word
SignedDouble(bytes, i) == Signed(Word(bytes, i)) * 65536 + Word(bytes, i + 2)
=================================================================================
