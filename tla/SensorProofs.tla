------------------------------- MODULE SensorProofs ------------------------------
(* Proofs about UartLine, for any checksum, any frames, any line and any number of *)
(* faults, and about SensorSources, for any protection, frames and registers.      *)
EXTENDS UartLine, SensorSources, SequenceTheorems, WellFoundedInduction, TLAPS

---------------------------------------------------------------------------------
(* Numbers and their bytes.                                                        *)

LEMMA SixteenBits ==
    ASSUME NEW n \in UInt16
    PROVE  /\ BigEndian(n, 2) = <<n \div 256, n % 256>>
           /\ n \div 256 \in Byte /\ n % 256 \in Byte
           /\ (n \div 256) * 256 + (n % 256) = n
  <1>1. n \div 256 \in Byte /\ n % 256 \in Byte
    BY SMT DEF Byte, UInt16
  <1>2. (n \div 256) * 256 + (n % 256) = n
    BY SMT DEF UInt16
  <1>3. BigEndian(n, 2) = <<n \div 256, n % 256>>
    BY SMT DEF BigEndian, Place, UInt16
  <1> QED
    BY <1>1, <1>2, <1>3

LEMMA TwoBytes ==
    ASSUME NEW n \in UInt16
    PROVE  /\ BigEndian(n, 2) \in Seq(Byte) /\ Len(BigEndian(n, 2)) = 2
           /\ Word(BigEndian(n, 2), 1) = n
  <1> DEFINE h == n \div 256
             l == n % 256
  <1>1. BigEndian(n, 2) = <<h, l>> /\ h \in Byte /\ l \in Byte /\ h * 256 + l = n
    BY SixteenBits
  <1> HIDE DEF h, l
  <1> QED
    <2> DEFINE b == BigEndian(n, 2)
    <2>1. b = <<h, l>>
      BY <1>1
    <2> HIDE DEF b
    <2>2. b \in Seq(Byte) /\ Len(b) = 2 /\ b[1] = h /\ b[2] = l
      BY <2>1, <1>1, SMT
    <2>3. Word(b, 1) = n
      BY <2>2, <1>1, SMT DEF Word
    <2> QED
      BY <2>2, <2>3 DEF b

\* The two's complement of a 32-bit integer, taken apart and put together again.
LEMMA ThirtyTwoBits ==
    ASSUME NEW n \in Int32
    PROVE  /\ BigEndian(n, 4) \in Seq(Byte) /\ Len(BigEndian(n, 4)) = 4
           /\ SignedDouble(BigEndian(n, 4), 1) = n
  <1> DEFINE h == n \div 65536
             l == n % 65536
  <1>1. /\ h \in Int /\ -32768 <= h /\ h < 32768 /\ l \in UInt16
        /\ n = h * 65536 + l
    BY SMT DEF Int32, UInt16
  <1> HIDE DEF h, l
  <1>2. BigEndian(n, 4) = <<(n \div 16777216) % 256, (n \div 65536) % 256,
                            (n \div 256) % 256, n % 256>>
    BY SMT DEF BigEndian, Place, Int32
  <1>3. n \div 16777216 = h \div 256
    BY SMT, <1>1 DEF UInt16
  <1>4. n \div 65536 = h
    BY SMT DEF h
  <1>5. (n \div 256) % 256 = l \div 256
    BY SMT, <1>1 DEF UInt16
  <1>6. n % 256 = l % 256
    BY SMT, <1>1 DEF UInt16
  <1>7. Signed(((h \div 256) % 256) * 256 + (h % 256)) = h
    BY SMT, <1>1 DEF Signed
  <1>8. (l \div 256) * 256 + (l % 256) = l
    BY SixteenBits, <1>1
  <1>9. (h \div 256) % 256 \in Byte /\ h % 256 \in Byte /\ l \div 256 \in Byte /\ l % 256 \in Byte
    BY SMT, <1>1 DEF Byte, UInt16
  <1>10. BigEndian(n, 4) = <<(h \div 256) % 256, h % 256, l \div 256, l % 256>>
    BY <1>2, <1>3, <1>4, <1>5, <1>6, SMT
  <1> QED
    <2>1. SignedDouble(BigEndian(n, 4), 1)
            = Signed(((h \div 256) % 256) * 256 + (h % 256)) * 65536
              + ((l \div 256) * 256 + (l % 256))
      BY <1>10, SMT DEF SignedDouble, Word
    <2>2. SignedDouble(BigEndian(n, 4), 1) = n
      BY <2>1, <1>1, <1>7, <1>8, SMT
    <2> QED
      <3> DEFINE b == BigEndian(n, 4)
      <3>1. b = <<(h \div 256) % 256, h % 256, l \div 256, l % 256>>
        BY <1>10
      <3> HIDE DEF b
      <3>2. b \in Seq(Byte) /\ Len(b) = 4
        BY <3>1, <1>9, SMT
      <3> QED
        BY <3>2, <2>2 DEF b

---------------------------------------------------------------------------------
(* What the encoder puts on the wire is what the decoder takes from it.            *)

LEMMA CoveredBytes ==
    ASSUME NEW frame \in UartFrame
    PROVE  /\ Covered(frame) \in Seq(Byte) /\ Len(Covered(frame)) = 10
           /\ Covered(frame)[1] = kUartMagicFirst /\ Covered(frame)[2] = kUartMagicSecond
           /\ Covered(frame)[3] = kUartProtocolVersion /\ Covered(frame)[4] = frame.kind
           /\ Word(Covered(frame), 5) = frame.sequence
           /\ SignedDouble(Covered(frame), 7) = frame.milli_value
  <1> DEFINE head == <<kUartMagicFirst, kUartMagicSecond, kUartProtocolVersion, frame.kind>>
             s == BigEndian(frame.sequence, 2)
             v == BigEndian(frame.milli_value, 4)
             c == Covered(frame)
  <1>1. s \in Seq(Byte) /\ Len(s) = 2 /\ Word(s, 1) = frame.sequence
    <2>1. frame.sequence \in UInt16
      BY DEF UartFrame
    <2> QED
      BY <2>1, TwoBytes
  <1>2. v \in Seq(Byte) /\ Len(v) = 4 /\ SignedDouble(v, 1) = frame.milli_value
    BY ThirtyTwoBits, SMT DEF UartFrame
  <1>3. /\ head \in Seq(Byte) /\ Len(head) = 4
        /\ head[1] = kUartMagicFirst /\ head[2] = kUartMagicSecond
        /\ head[3] = kUartProtocolVersion /\ head[4] = frame.kind
    BY SMT DEF UartFrame, Byte, kUartMagicFirst, kUartMagicSecond, kUartProtocolVersion
  <1>4. c = head \o s \o v
    BY DEF Covered
  <1> HIDE DEF head, s, v, c
  <1>6. /\ c \in Seq(Byte) /\ Len(c) = 10
        /\ c[1] = head[1] /\ c[2] = head[2] /\ c[3] = head[3] /\ c[4] = head[4]
        /\ c[5] = s[1] /\ c[6] = s[2]
        /\ c[7] = v[1] /\ c[8] = v[2] /\ c[9] = v[3] /\ c[10] = v[4]
    <2> DEFINE hs == head \o s
    <2>0. c = hs \o v
      BY <1>4
    <2>1. hs \in Seq(Byte) /\ Len(hs) = Len(head) + Len(s)
      BY <1>1, <1>3, ConcatProperties, Zenon
    <2>2. \A i \in 1 .. Len(head) + Len(s) :
             hs[i] = IF i <= Len(head) THEN head[i] ELSE s[i - Len(head)]
      BY <1>1, <1>3, ConcatProperties, Zenon
    <2>3. c \in Seq(Byte) /\ Len(c) = Len(hs) + Len(v)
      BY <1>2, <1>4, <2>1, ConcatProperties, Zenon
    <2> HIDE DEF hs
    <2>4. \A i \in 1 .. Len(hs) + Len(v) :
             c[i] = IF i <= Len(hs) THEN hs[i] ELSE v[i - Len(hs)]
      <3>1. hs \in Seq(Byte) /\ v \in Seq(Byte)
        BY <2>1, <1>2
      <3> QED
        BY <3>1, <2>0, ConcatProperties, Zenon
    <2> QED
      BY <1>1, <1>2, <1>3, <2>1, <2>2, <2>3, <2>4, SMT
  <1>7. Word(c, 5) = frame.sequence /\ SignedDouble(c, 7) = frame.milli_value
    BY <1>1, <1>2, <1>6, SMT DEF Word, SignedDouble
  <1> QED
    BY <1>3, <1>6, <1>7 DEF c

\* A frame on the wire: twelve bytes that begin with the magic, carry their own checksum
\* and decode to the frame they encode.
LEMMA RoundTrip ==
    ASSUME NEW frame \in Frames
    PROVE  /\ Wire[frame] \in Seq(Byte) /\ Len(Wire[frame]) = 12
           /\ Wire[frame][1] = kUartMagicFirst /\ Wire[frame][2] = kUartMagicSecond
           /\ Wire[frame][3] = kUartProtocolVersion /\ Wire[frame][4] = frame.kind
           /\ Crc16(SubSeq(Wire[frame], 1, 10)) = Word(Wire[frame], 11)
           /\ Decoded(Wire[frame]) = frame
  <1> DEFINE c == Covered(frame)
             crc == BigEndian(Crc16(c), 2)
             w == Wire[frame]
  <1>1. frame \in UartFrame /\ Crc16(c) \in UInt16
    BY FramesAssumption
  <1>2. crc \in Seq(Byte) /\ Len(crc) = 2 /\ Word(crc, 1) = Crc16(c)
    BY <1>1, TwoBytes
  <1>3. w = c \o crc
    BY DEF Wire, encode_uart_frame
  <1>4. c \in Seq(Byte) /\ Len(c) = 10
    BY <1>1, CoveredBytes
  <1> HIDE DEF c, crc, w
  <1>5. w \in Seq(Byte) /\ Len(w) = Len(c) + Len(crc)
    BY <1>2, <1>3, <1>4, ConcatProperties, Zenon
  <1>6. /\ Len(w) = 12 /\ \A i \in 1 .. 10 : w[i] = c[i]
        /\ w[11] = crc[1] /\ w[12] = crc[2]
    <2>1. \A i \in 1 .. Len(c) + Len(crc) :
             w[i] = IF i <= Len(c) THEN c[i] ELSE crc[i - Len(c)]
      BY <1>2, <1>3, <1>4, ConcatProperties, Zenon
    <2> QED
      BY <2>1, <1>2, <1>4, <1>5, SMT
  <1>7. SubSeq(w, 1, 10) = c
    <2>1. SubSeq(c \o crc, 1, Len(c)) = SubSeq(c, 1, Len(c))
      <3>1. 1 \in 1 .. Len(c) /\ Len(c) \in 1 .. Len(c)
        BY <1>4
      <3> QED
        BY <3>1, <1>2, <1>4, SubSeqOfConcat1, Zenon
    <2>2. SubSeq(c, 1, Len(c)) = c
      BY <1>4, SubSeqFull, Zenon
    <2> QED
      BY <2>1, <2>2, <1>3, <1>4, Zenon
  <1>8. Word(w, 11) = Crc16(c)
    BY <1>2, <1>6, SMT DEF Word
  <1>9. /\ w[1] = kUartMagicFirst /\ w[2] = kUartMagicSecond
        /\ w[3] = kUartProtocolVersion /\ w[4] = frame.kind
    BY <1>1, <1>6, CoveredBytes, SMT DEF c
  <1>10. Word(w, 5) = frame.sequence /\ SignedDouble(w, 7) = frame.milli_value
    <2>1. Word(w, 5) = Word(c, 5) /\ SignedDouble(w, 7) = SignedDouble(c, 7)
      BY <1>6, SMT DEF Word, SignedDouble
    <2> QED
      BY <2>1, <1>1, CoveredBytes DEF c
  <1>11. Decoded(w) = frame
    BY <1>1, <1>9, <1>10 DEF Decoded, UartFrame
  <1> QED
    BY <1>5, <1>6, <1>7, <1>8, <1>9, <1>11 DEF w, c

\* There is one way to write a number in bytes.
LEMMA BytesUnique ==
    ASSUME NEW p \in Byte, NEW q \in Byte, NEW r \in Byte, NEW s \in Byte,
           p * 256 + q = r * 256 + s
    PROVE  p = r /\ q = s
  BY SMT DEF Byte

LEMMA WordsUnique ==
    ASSUME NEW u \in UInt16, NEW v \in UInt16, NEW x \in UInt16, NEW y \in UInt16,
           Signed(u) * 65536 + v = Signed(x) * 65536 + y
    PROVE  u = x /\ v = y
  BY SMT DEF UInt16, Signed

LEMMA WordType ==
    ASSUME NEW p \in Byte, NEW q \in Byte
    PROVE  p * 256 + q \in UInt16
  BY SMT DEF Byte, UInt16

LEMMA DoubleType ==
    ASSUME NEW u \in UInt16, NEW v \in UInt16
    PROVE  Signed(u) * 65536 + v \in Int32
  BY SMT DEF UInt16, Signed, Int32

LEMMA FieldBytes ==
    ASSUME NEW b \in Seq(Byte), Len(b) >= 10
    PROVE  /\ b[4] \in Byte /\ b[5] \in Byte /\ b[6] \in Byte /\ b[7] \in Byte
           /\ b[8] \in Byte /\ b[9] \in Byte /\ b[10] \in Byte
           /\ Word(b, 5) = b[5] * 256 + b[6]
           /\ Word(b, 7) = b[7] * 256 + b[8]
           /\ Word(b, 9) = b[9] * 256 + b[10]
           /\ SignedDouble(b, 7) = Signed(Word(b, 7)) * 65536 + Word(b, 9)
  <1>1. /\ b[4] \in Byte /\ b[5] \in Byte /\ b[6] \in Byte /\ b[7] \in Byte
        /\ b[8] \in Byte /\ b[9] \in Byte /\ b[10] \in Byte
    BY SMT
  <1>2. /\ Word(b, 5) = b[5] * 256 + b[6] /\ Word(b, 7) = b[7] * 256 + b[8]
        /\ Word(b, 9) = b[9] * 256 + b[10]
    BY SMT DEF Word
  <1>3. SignedDouble(b, 7) = Signed(Word(b, 7)) * 65536 + Word(b, 9)
    BY SMT DEF SignedDouble
  <1> QED
    BY <1>1, <1>2, <1>3, SMT

LEMMA FieldTypes ==
    ASSUME NEW b \in Seq(Byte), Len(b) >= 10
    PROVE  /\ b[4] \in Byte /\ Word(b, 5) \in UInt16
           /\ Word(b, 7) \in UInt16 /\ Word(b, 9) \in UInt16 /\ SignedDouble(b, 7) \in Int32
  <1>1. b[4] \in Byte /\ Word(b, 5) \in UInt16 /\ Word(b, 7) \in UInt16 /\ Word(b, 9) \in UInt16
    BY FieldBytes, WordType, SMT
  <1>2. SignedDouble(b, 7) \in Int32
    BY <1>1, FieldBytes, DoubleType, SMT
  <1> QED
    BY <1>1, <1>2

LEMMA FieldsUnique ==
    ASSUME NEW b \in Seq(Byte), NEW c \in Seq(Byte), Len(b) >= 10, Len(c) >= 10,
           Word(c, 5) = Word(b, 5), SignedDouble(c, 7) = SignedDouble(b, 7)
    PROVE  /\ c[5] = b[5] /\ c[6] = b[6] /\ c[7] = b[7]
           /\ c[8] = b[8] /\ c[9] = b[9] /\ c[10] = b[10]
  <1>1. Word(c, 7) = Word(b, 7) /\ Word(c, 9) = Word(b, 9)
    BY FieldBytes, FieldTypes, WordsUnique, SMT
  <1>2. ASSUME NEW d \in Seq(Byte), Len(d) >= 10
        PROVE  /\ d[5] \in Byte /\ d[6] \in Byte /\ d[7] \in Byte
               /\ d[8] \in Byte /\ d[9] \in Byte /\ d[10] \in Byte
    BY <1>2, FieldBytes, SMT
  <1>3. c[5] * 256 + c[6] = b[5] * 256 + b[6]
    BY FieldBytes, SMT
  <1>4. c[7] * 256 + c[8] = b[7] * 256 + b[8]
    BY <1>1, FieldBytes, SMT
  <1>5. c[9] * 256 + c[10] = b[9] * 256 + b[10]
    BY <1>1, FieldBytes, SMT
  <1>6. /\ c[5] \in Byte /\ c[6] \in Byte /\ b[5] \in Byte /\ b[6] \in Byte
        /\ c[7] \in Byte /\ c[8] \in Byte /\ b[7] \in Byte /\ b[8] \in Byte
        /\ c[9] \in Byte /\ c[10] \in Byte /\ b[9] \in Byte /\ b[10] \in Byte
    BY <1>2
  <1>7. c[5] = b[5] /\ c[6] = b[6]
    BY <1>3, <1>6, BytesUnique, SMT
  <1>8. c[7] = b[7] /\ c[8] = b[8]
    BY <1>4, <1>6, BytesUnique, SMT
  <1>9. c[9] = b[9] /\ c[10] = b[10]
    BY <1>5, <1>6, BytesUnique, SMT
  <1> QED
    BY <1>7, <1>8, <1>9

LEMMA ChecksumBytes ==
    ASSUME NEW b \in Seq(Byte), Len(b) >= 12
    PROVE  /\ Word(b, 11) \in UInt16
           /\ \A i \in 1 .. 10 : b[i] \in Byte
           /\ \A d \in Seq(Byte) : Len(d) >= 2 /\ Word(d, 1) = Word(b, 11) =>
                 d[1] = b[11] /\ d[2] = b[12]
  <1>1. b[11] \in Byte /\ b[12] \in Byte /\ Word(b, 11) = b[11] * 256 + b[12]
    BY SMT DEF Word
  <1>2. ASSUME NEW d \in Seq(Byte), Len(d) >= 2, Word(d, 1) = Word(b, 11)
        PROVE  d[1] = b[11] /\ d[2] = b[12]
    <2>1. d[1] \in Byte /\ d[2] \in Byte /\ Word(d, 1) = d[1] * 256 + d[2]
      BY <1>2, SMT DEF Word
    <2> QED
      BY <1>1, <1>2, <2>1, BytesUnique, SMT
  <1>3. Word(b, 11) \in UInt16
    BY <1>1, WordType, SMT
  <1>4. \A i \in 1 .. 10 : b[i] \in Byte
    BY SMT
  <1> QED
    BY <1>2, <1>3, <1>4

\* Twelve bytes with the magic, the version and their checksum are the encoding of what
\* they decode to.
LEMMA DecodedEncodes ==
    ASSUME NEW b \in Seq(Byte), Len(b) = 12, b[1] = kUartMagicFirst, b[2] = kUartMagicSecond,
           b[3] = kUartProtocolVersion, Crc16(SubSeq(b, 1, 10)) = Word(b, 11)
    PROVE  encode_uart_frame(Decoded(b)) = b
  <1> DEFINE f == Decoded(b)
             c == Covered(f)
             crc == BigEndian(Crc16(c), 2)
             w == encode_uart_frame(f)
  <1>1. Len(b) >= 10 /\ Len(b) >= 12
    OBVIOUS
  <1>2. /\ b[4] \in Byte /\ Word(b, 5) \in UInt16 /\ SignedDouble(b, 7) \in Int32
        /\ Word(b, 11) \in UInt16
    BY <1>1, FieldTypes, ChecksumBytes, Zenon
  <1>3. f \in UartFrame
    BY <1>2, Zenon DEF Decoded, UartFrame
  <1>4. f.kind = b[4] /\ f.sequence = Word(b, 5) /\ f.milli_value = SignedDouble(b, 7)
    BY DEF Decoded
  <1> HIDE DEF f
  <1>5. /\ c \in Seq(Byte) /\ Len(c) = 10
        /\ c[1] = b[1] /\ c[2] = b[2] /\ c[3] = b[3] /\ c[4] = b[4]
        /\ Word(c, 5) = Word(b, 5) /\ SignedDouble(c, 7) = SignedDouble(b, 7)
    BY <1>3, <1>4, CoveredBytes
  <1>6. w = c \o crc
    BY DEF encode_uart_frame
  <1> HIDE DEF c, w
  <1>7. /\ c[5] = b[5] /\ c[6] = b[6] /\ c[7] = b[7]
        /\ c[8] = b[8] /\ c[9] = b[9] /\ c[10] = b[10]
    <2>1. Len(c) >= 10
      BY <1>5
    <2> QED
      BY <1>1, <1>5, <2>1, FieldsUnique, Zenon
  <1>8. c = SubSeq(b, 1, 10)
    <2> DEFINE d == SubSeq(b, 1, 10)
    <2>1. \A i \in 1 .. 10 : b[i] \in Byte
      BY <1>1, ChecksumBytes, Zenon
    <2>2. /\ d \in Seq(Byte) /\ Len(d) = IF 1 <= 10 THEN 10 - 1 + 1 ELSE 0
          /\ \A i \in 1 .. 10 - 1 + 1 : d[i] = b[1 + i - 1]
      BY <2>1, SubSeqProperties
    <2> HIDE DEF d
    <2>3. Len(d) = 10 /\ \A i \in 1 .. 10 : c[i] = d[i]
      BY <1>5, <1>7, <2>2, SMT
    <2>4. c = d
      BY <1>5, <2>2, <2>3, SeqEqual
    <2> QED
      BY <2>4 DEF d
  <1>9. crc \in Seq(Byte) /\ Len(crc) = 2 /\ Word(crc, 1) = Word(b, 11)
    BY <1>2, <1>8, TwoBytes
  <1> HIDE DEF crc
  <1>10. crc[1] = b[11] /\ crc[2] = b[12]
    <2>1. Len(crc) >= 2
      BY <1>9
    <2> QED
      BY <1>1, <1>9, <2>1, ChecksumBytes, Zenon
  <1>11. w \in Seq(Byte) /\ Len(w) = Len(c) + Len(crc)
    BY <1>5, <1>6, <1>9, ConcatProperties, Zenon
  <1>12. \A i \in 1 .. Len(c) + Len(crc) :
            w[i] = IF i <= Len(c) THEN c[i] ELSE crc[i - Len(c)]
    BY <1>5, <1>6, <1>9, ConcatProperties, Zenon
  <1>13. Len(w) = 12 /\ \A i \in 1 .. 12 : w[i] = b[i]
    BY <1>5, <1>7, <1>9, <1>10, <1>11, <1>12, SMT
  <1>14. w = b
    BY <1>11, <1>13, SeqEqual
  <1> QED
    BY <1>14 DEF w, f

---------------------------------------------------------------------------------
(* The decoder on the line.                                                        *)

LineTypes ==
    /\ buffer_ \in Seq(Byte) /\ Len(buffer_) < 12
    /\ Len(buffer_) > 0 => buffer_[1] = kUartMagicFirst
    /\ sending \in Frames /\ sent \in Nat /\ sent < 12
    /\ spoiled \in BOOLEAN /\ missed \in Nat

\* The buffer holds what has gone of the frame on the line.
Follows ==
    /\ Len(buffer_) = sent
    /\ \A i \in 1 .. sent : buffer_[i] = Wire[sending][i]

\* A single first byte before a frame does no harm.
Aligned == Follows \/ (sent = 0 /\ Len(buffer_) = 1)

\* The buffer was filled before the frame began, or was emptied within it.
Adrift ==
    \/ Len(buffer_) >= sent + 2
    \/ sent >= 1 /\ Len(buffer_) = 0
    \/ sent >= 2 /\ Len(buffer_) = 1 /\ Wire[sending][sent] = kUartMagicFirst

\* A frame that is still whole begins in step, or the one before it was not missed.
Resync ==
    /\ missed <= 1
    /\ spoiled \/ Aligned \/ (Adrift /\ missed = 0)

LEMMA OnWireByte ==
    ASSUME LineTypes
    PROVE  OnWire \in Byte /\ OnWire = Wire[sending][sent + 1]
  <1>1. Wire[sending] \in Seq(Byte) /\ Len(Wire[sending]) = 12
    BY RoundTrip DEF LineTypes
  <1>2. sent + 1 \in 1 .. 12
    BY DEF LineTypes
  <1> QED
    BY <1>1, <1>2 DEF OnWire

LEMMA Grown ==
    ASSUME LineTypes, NEW byte \in Byte, buffer_' = Append(buffer_, byte)
    PROVE  /\ buffer_' \in Seq(Byte) /\ Len(buffer_') = Len(buffer_) + 1
           /\ \A i \in 1 .. Len(buffer_) : buffer_'[i] = buffer_[i]
           /\ buffer_'[Len(buffer_) + 1] = byte
  BY AppendProperties DEF LineTypes

\* What one call of feed() does to the buffer.
LEMMA FeedBuffer ==
    ASSUME LineTypes, NEW byte \in Byte, feed(byte)
    PROVE  /\ buffer_' \in Seq(Byte) /\ Len(buffer_') < 12
           /\ Len(buffer_') > 0 => buffer_'[1] = kUartMagicFirst
           /\ Len(buffer_) = 0 =>
                 Len(buffer_') = IF byte = kUartMagicFirst THEN 1 ELSE 0
           /\ Len(buffer_) = 1 =>
                 Len(buffer_') = IF byte = kUartMagicSecond THEN 2
                                 ELSE IF byte = kUartMagicFirst THEN 1 ELSE 0
           /\ Len(buffer_) >= 2 /\ Len(buffer_) < 11 => Len(buffer_') = Len(buffer_) + 1
           /\ Len(buffer_) = 11 => Len(buffer_') = 0
           /\ Len(buffer_') >= 2 =>
                 /\ Len(buffer_') = Len(buffer_) + 1
                 /\ \A i \in 1 .. Len(buffer_) : buffer_'[i] = buffer_[i]
                 /\ buffer_'[Len(buffer_')] = byte
  <1> USE DEF LineTypes, position_
  <1>1. CASE AwaitFirst(byte)
    BY <1>1, SMT DEF AwaitFirst
  <1>2. CASE AwaitSecond(byte)
    <2>1. CASE byte = kUartMagicSecond
      <3>1. Len(buffer_) = 1
        BY <1>2 DEF AwaitSecond
      <3>2. buffer_' = Append(buffer_, byte)
        BY <1>2, <2>1 DEF AwaitSecond, kUartMagicFirst, kUartMagicSecond
      <3> QED
        BY <2>1, <3>1, <3>2, Grown, SMT
    <2>2. CASE byte # kUartMagicSecond
      <3>1. Len(buffer_) = 1
        BY <1>2 DEF AwaitSecond
      <3>2. CASE byte = kUartMagicFirst
        <4>1. buffer_' = buffer_
          BY <1>2, <2>2, <3>2 DEF AwaitSecond
        <4> QED
          BY <2>2, <3>1, <3>2, <4>1, SMT
      <3>3. CASE byte # kUartMagicFirst
        <4>1. buffer_' = <<>>
          BY <1>2, <2>2, <3>3 DEF AwaitSecond
        <4> QED
          BY <2>2, <3>1, <3>3, <4>1, SMT
      <3> QED
        BY <3>2, <3>3
    <2> QED
      BY <2>1, <2>2
  <1>3. CASE Collect(byte)
    <2>1. Len(buffer_) >= 2 /\ Len(buffer_) < 11
      <3>1. \A n \in 2 .. kUartFrameSize - 2 : n >= 2 /\ n < 11
        BY DEF kUartFrameSize
      <3> QED
        BY <1>3, <3>1, Zenon DEF Collect
    <2>2. buffer_' = Append(buffer_, byte)
      BY <1>3 DEF Collect
    <2> QED
      BY <2>1, <2>2, Grown, SMT
  <1>4. CASE Complete(byte)
    BY <1>4, SMT DEF Complete, kUartFrameSize
  <1> QED
    BY <1>1, <1>2, <1>3, <1>4 DEF feed
---------------------------------------------------------------------------------
(* A byte of a whole frame.                                                        *)

LEMMA AlignedStep ==
    ASSUME LineTypes, Aligned, feed(OnWire), sent < 11, sent' = sent + 1, sending' = sending
    PROVE  Follows'
  <1> DEFINE byte == OnWire
             wire == Wire[sending]
  <1>1. /\ byte \in Byte /\ byte = wire[sent + 1]
        /\ wire[1] = kUartMagicFirst /\ wire[2] = kUartMagicSecond
    BY OnWireByte, RoundTrip DEF LineTypes
  <1>2. wire' = wire
    BY DEF Wire, encode_uart_frame, Covered
  <1> HIDE DEF byte, wire
  <1>3. Len(buffer_') = sent + 1
    <2>1. CASE sent = 0
      <3>1. Len(buffer_) = 0 \/ Len(buffer_) = 1
        BY <2>1 DEF Aligned, Follows
      <3>2. byte = kUartMagicFirst
        BY <2>1, <1>1
      <3> QED
        BY <2>1, <3>1, <3>2, <1>1, FeedBuffer DEF byte, kUartMagicFirst, kUartMagicSecond
    <2>2. CASE sent = 1
      <3>1. Len(buffer_) = 1 /\ byte = kUartMagicSecond
        BY <2>2, <1>1 DEF Aligned, Follows
      <3> QED
        BY <2>2, <3>1, <1>1, FeedBuffer DEF byte
    <2>3. CASE sent >= 2
      <3>1. Len(buffer_) = sent
        BY <2>3 DEF Aligned, Follows
      <3> QED
        BY <2>3, <3>1, <1>1, FeedBuffer DEF byte
    <2> QED
      BY <2>1, <2>2, <2>3 DEF LineTypes
  <1>4. \A i \in 1 .. sent + 1 : buffer_'[i] = wire[i]
    <2>1. CASE sent = 0
      BY <2>1, <1>1, <1>3, FeedBuffer, SMT DEF byte
    <2>2. CASE sent > 0
      <3>1. Len(buffer_) = sent /\ \A i \in 1 .. sent : buffer_[i] = wire[i]
        BY <2>2 DEF Aligned, Follows, wire
      <3>2. /\ \A i \in 1 .. sent : buffer_'[i] = buffer_[i]
            /\ buffer_'[sent + 1] = byte
        BY <2>2, <1>1, <1>3, <3>1, FeedBuffer DEF byte, LineTypes
      <3> QED
        BY <3>1, <3>2, <1>1 DEF LineTypes
    <2> QED
      BY <2>1, <2>2 DEF LineTypes
  <1> QED
    BY <1>2, <1>3, <1>4 DEF Follows, wire

LEMMA OneMore ==
    ASSUME NEW S, NEW s \in Seq(S), NEW e \in S, NEW w \in Seq(S),
           Len(w) = Len(s) + 1, \A i \in 1 .. Len(s) : s[i] = w[i], e = w[Len(s) + 1]
    PROVE  Append(s, e) = w
  <1> DEFINE a == Append(s, e)
  <1>1. a \in Seq(S)
    BY AppendProperties
  <1>2. Len(a) = Len(s) + 1
    BY AppendProperties
  <1>3. \A i \in 1 .. Len(s) : a[i] = s[i]
    BY AppendProperties
  <1>4. a[Len(s) + 1] = e
    BY AppendProperties
  <1> HIDE DEF a
  <1>5. \A i \in 1 .. Len(a) : a[i] = w[i]
    BY <1>2, <1>3, <1>4
  <1>6. a = w
    BY <1>1, <1>2, <1>5, SeqEqual, Zenon
  <1> QED
    BY <1>6 DEF a

LEMMA AlignedEnd ==
    ASSUME LineTypes, Aligned, feed(OnWire), sent = 11
    PROVE  /\ Len(buffer_') = 0
           /\ returned' = IF Valid(sending) THEN sending ELSE NoFrame
  <1> DEFINE bytes == Append(buffer_, OnWire)
             wire == Wire[sending]
  <1>1. /\ OnWire \in Byte /\ OnWire = wire[12]
        /\ wire \in Seq(Byte) /\ Len(wire) = 12
    BY OnWireByte, RoundTrip DEF LineTypes
  <1>2. buffer_ \in Seq(Byte) /\ Len(buffer_) = 11 /\ \A i \in 1 .. 11 : buffer_[i] = wire[i]
    BY DEF LineTypes, Aligned, Follows
  <1>3. bytes = wire
    <2> HIDE DEF wire
    <2>1. /\ buffer_ \in Seq(Byte) /\ OnWire \in Byte /\ wire \in Seq(Byte)
          /\ Len(wire) = Len(buffer_) + 1 /\ OnWire = wire[Len(buffer_) + 1]
          /\ \A i \in 1 .. Len(buffer_) : buffer_[i] = wire[i]
      BY <1>1, <1>2
    <2> QED
      BY <2>1, OneMore, Zenon
  <1>4. Judge(wire) /\ buffer_' = <<>>
    BY <1>2, <1>3 DEF feed, AwaitFirst, AwaitSecond, Collect, Complete, position_, kUartFrameSize
  <1>5. RejectFormat(wire) \/ Accept(wire)
    BY <1>4, RoundTrip DEF Judge, LineTypes
  <1>6. wire[3] = kUartProtocolVersion /\ wire[4] = sending.kind /\ Decoded(wire) = sending
    BY RoundTrip DEF LineTypes
  <1>7. returned' = IF Valid(sending) THEN sending ELSE NoFrame
    BY <1>5, <1>6 DEF RejectFormat, Accept, Valid
  <1> QED
    BY <1>4, <1>7

LEMMA AdriftStep ==
    ASSUME NoMagicInside, LineTypes, Adrift, feed(OnWire)
    PROVE  /\ sent < 11 /\ sent' = sent + 1 /\ sending' = sending => Adrift'
           /\ sent = 11 => Len(buffer_') <= 1
  <1> DEFINE byte == OnWire
             wire == Wire[sending]
  <1>1. byte \in Byte /\ byte = wire[sent + 1]
    BY OnWireByte
  <1>2. wire' = Wire[sending']
    BY DEF Wire, encode_uart_frame, Covered
  <1>3. \A i \in 2 .. 11 : wire[i] = kUartMagicFirst => wire[i + 1] # kUartMagicSecond
    BY DEF NoMagicInside, LineTypes, kUartFrameSize
  <1> HIDE DEF byte, wire
  <1>4. CASE Len(buffer_) >= sent + 2
    <2>1. Len(buffer_) < 12 /\ sent \in Nat /\ Len(buffer_) \in Nat
      BY DEF LineTypes
    <2>2. CASE Len(buffer_) < 11
      <3>1. Len(buffer_') = Len(buffer_) + 1
        BY <1>4, <2>1, <2>2, <1>1, FeedBuffer DEF byte
      <3> QED
        BY <1>4, <2>1, <2>2, <3>1 DEF Adrift
    <2>3. CASE Len(buffer_) = 11
      <3>1. Len(buffer_') = 0
        BY <2>3, <1>1, FeedBuffer DEF byte
      <3> QED
        BY <2>1, <3>1 DEF Adrift
    <2>4. Len(buffer_) < 11 \/ Len(buffer_) = 11
      <3>1. \A n \in Nat : n < 12 => n < 11 \/ n = 11
        OBVIOUS
      <3> QED
        BY <2>1, <3>1, Zenon
    <2> QED
      BY <2>2, <2>3, <2>4, Zenon
  <1>5. CASE sent >= 1 /\ Len(buffer_) = 0
    BY <1>5, <1>1, <1>2, FeedBuffer, SMT DEF Adrift, LineTypes, byte, wire
  <1>6. CASE sent >= 2 /\ Len(buffer_) = 1 /\ wire[sent] = kUartMagicFirst
    <2>1. byte # kUartMagicSecond
      <3>1. sent \in 2 .. 11
        BY <1>6 DEF LineTypes
      <3> QED
        BY <1>1, <1>3, <1>6, <3>1, Zenon
    <2> QED
      BY <2>1, <1>6, <1>1, <1>2, FeedBuffer, SMT DEF Adrift, LineTypes, byte, wire
  <1> QED
    BY <1>4, <1>5, <1>6 DEF Adrift, wire
---------------------------------------------------------------------------------
(* Losing step and finding it again.                                               *)

\* At the beginning of a frame the decoder is in step, or it is adrift.
LEMMA FrameBegins ==
    ASSUME LineTypes, sent = 0
    PROVE  /\ Len(buffer_) <= 1 => Aligned
           /\ Aligned \/ Adrift
  <1>1. Len(buffer_) \in Nat
    BY DEF LineTypes
  <1>2. Len(buffer_) = 0 => Follows
    BY DEF Follows
  <1>3. \A n \in Nat : n = 0 \/ n = 1 \/ (n >= 2 /\ ~(n <= 1))
    OBVIOUS
  <1>4. Len(buffer_) >= 2 => Adrift
    BY DEF Adrift
  <1> QED
    BY <1>1, <1>2, <1>3, <1>4, Zenon DEF Aligned

LEMMA NextFrameBegins ==
    ASSUME LineTypes', sent' = 0
    PROVE  /\ Len(buffer_') <= 1 => Aligned'
           /\ Aligned' \/ Adrift'
  <1>1. Len(buffer_') \in Nat
    BY DEF LineTypes
  <1>2. Len(buffer_') = 0 => Follows'
    BY DEF Follows
  <1>3. \A n \in Nat : n = 0 \/ n = 1 \/ (n >= 2 /\ ~(n <= 1))
    OBVIOUS
  <1>4. Len(buffer_') >= 2 => Adrift'
    BY DEF Adrift
  <1> QED
    BY <1>1, <1>2, <1>3, <1>4, Zenon DEF Aligned

LEMMA LineInitTypes == LineInit => LineTypes /\ Aligned /\ missed = 0 /\ ~spoiled
  <1> SUFFICES ASSUME LineInit PROVE LineTypes /\ Aligned /\ missed = 0 /\ ~spoiled
    OBVIOUS
  <1> USE DEF LineInit, DecoderInit
  <1>1. buffer_ \in Seq(Byte) /\ Len(buffer_) = 0
    OBVIOUS
  <1>2. LineTypes
    <2>1. ~spoiled /\ spoiled \in BOOLEAN
      OBVIOUS
    <2>2. sent \in Nat /\ sent < 12 /\ missed \in Nat /\ sending \in Frames
      OBVIOUS
    <2>3. Len(buffer_) < 12 /\ ~(Len(buffer_) > 0)
      BY <1>1
    <2> QED
      BY <1>1, <2>1, <2>2, <2>3, Zenon DEF LineTypes
  <1> QED
    BY <1>1, <1>2, FrameBegins

LEMMA LineTypesNext == LineTypes /\ [LineNext]_uartVars => LineTypes'
  <1> SUFFICES ASSUME LineTypes, [LineNext]_uartVars PROVE LineTypes'
    OBVIOUS
  <1> DEFINE Buffer ==
        buffer_ \in Seq(Byte) /\ Len(buffer_) < 12
        /\ (Len(buffer_) > 0 => buffer_[1] = kUartMagicFirst)
  <1>1. ASSUME NEW byte \in Byte, feed(byte) PROVE Buffer'
    BY <1>1, FeedBuffer
  <1>2. ASSUME NEW fault \in BOOLEAN, Advance(fault), Buffer' PROVE LineTypes'
    <2>1. sending' \in Frames /\ spoiled' \in BOOLEAN
      BY <1>2, Zenon DEF Advance, LineTypes
    <2>2. sent' \in Nat /\ sent' < 12
      BY <1>2 DEF Advance, LineTypes, kUartFrameSize
    <2>3. missed' \in Nat
      BY <1>2 DEF Advance, LineTypes
    <2> QED
      BY <1>2, <2>1, <2>2, <2>3 DEF LineTypes
  <1>3. CASE Transmit
    BY <1>1, <1>2, <1>3, OnWireByte DEF Transmit
  <1>4. CASE Lose
    <2>1. Buffer'
      BY <1>4 DEF Lose, LineTypes
    <2> QED
      BY <2>1, <1>2, <1>4 DEF Lose
  <1>5. CASE Damage
    <2>1. Buffer'
      BY <1>1, <1>5, LineAssumption DEF Damage
    <2> QED
      BY <2>1, <1>2, <1>5 DEF Damage
  <1>6. CASE Insert
    <2>1. Buffer'
      BY <1>1, <1>6, LineAssumption DEF Insert
    <2> QED
      BY <2>1, <1>6 DEF Insert, LineTypes
  <1>7. CASE UNCHANGED uartVars
    BY <1>7 DEF uartVars, decoderVars, lineVars, LineTypes
  <1> QED
    BY <1>3, <1>4, <1>5, <1>6, <1>7 DEF LineNext

LEMMA ResyncNext ==
    ASSUME NoMagicInside, LineTypes, LineTypes', Resync, [LineNext]_uartVars
    PROVE  Resync'
  <1>1. ASSUME Advance(TRUE) PROVE Resync'
    <2>1. CASE sent + 1 < kUartFrameSize
      BY <1>1, <2>1 DEF Advance, Resync
    <2>2. CASE ~(sent + 1 < kUartFrameSize)
      <3>1. sent' = 0 /\ missed' = 0
        BY <1>1, <2>2 DEF Advance
      <3>2. Aligned' \/ Adrift'
        BY <3>1, NextFrameBegins
      <3> QED
        BY <3>1, <3>2 DEF Resync
    <2> QED
      BY <2>1, <2>2
  <1>2. CASE Transmit
    <2>1. feed(OnWire) /\ Advance(FALSE)
      BY <1>2 DEF Transmit
    <2>2. CASE sent < 11
      <3>1. /\ sent' = sent + 1 /\ sending' = sending /\ missed' = missed
            /\ spoiled' <=> spoiled
        BY <2>1, <2>2 DEF Advance, LineTypes, kUartFrameSize
      <3>2. ~spoiled /\ Aligned => Aligned'
        BY <2>1, <2>2, <3>1, AlignedStep DEF Aligned
      <3>3. ~spoiled /\ Adrift => Adrift'
        BY <2>1, <2>2, <3>1, AdriftStep
      <3> QED
        BY <3>1, <3>2, <3>3 DEF Resync
    <2>3. CASE sent = 11
      <3>1. /\ sent' = 0 /\ ~spoiled'
            /\ missed' = IF spoiled \/ returned' = sending THEN 0
                         ELSE IF Valid(sending) /\ missed < 2 THEN missed + 1 ELSE missed
        BY <2>1, <2>3 DEF Advance, kUartFrameSize
      <3>2. CASE spoiled
        BY <3>1, <3>2, NextFrameBegins DEF Resync
      <3>3. CASE ~spoiled /\ Aligned
        <4>1. Len(buffer_') = 0 /\ (Valid(sending) => returned' = sending)
          BY <2>1, <2>3, <3>3, AlignedEnd
        <4>2. Aligned'
          BY <3>1, <4>1, NextFrameBegins
        <4>3. missed' <= 1
          BY <3>1, <3>3, <4>1 DEF Resync, LineTypes
        <4> QED
          BY <4>2, <4>3 DEF Resync
      <3>4. CASE ~spoiled /\ Adrift /\ missed = 0
        <4>1. Aligned'
          BY <2>1, <2>3, <3>1, <3>4, AdriftStep, NextFrameBegins
        <4>2. missed' <= 1
          BY <3>1, <3>4
        <4> QED
          BY <4>1, <4>2 DEF Resync
      <3> QED
        BY <3>2, <3>3, <3>4 DEF Resync
    <2>4. sent < 11 \/ sent = 11
      BY DEF LineTypes
    <2> QED
      BY <2>2, <2>3, <2>4
  <1>3. CASE Lose
    BY <1>1, <1>3 DEF Lose
  <1>4. CASE Damage
    BY <1>1, <1>4 DEF Damage
  <1>5. CASE Insert
    BY <1>5 DEF Insert, Resync
  <1>6. CASE UNCHANGED uartVars
    <2>1. Wire' = Wire
      BY DEF Wire, encode_uart_frame, Covered
    <2>2. UNCHANGED <<buffer_, sending, sent, spoiled, missed>>
      BY <1>6 DEF uartVars, decoderVars, lineVars
    <2>3. Follows' <=> Follows
      BY <2>1, <2>2 DEF Follows
    <2>4. (Aligned' <=> Aligned) /\ (Adrift' <=> Adrift)
      BY <2>1, <2>2, <2>3 DEF Aligned, Adrift
    <2> QED
      BY <2>2, <2>4 DEF Resync
  <1> QED
    BY <1>2, <1>3, <1>4, <1>5, <1>6 DEF LineNext
LEMMA ResyncAlways == NoMagicInside /\ LineSpec => [](LineTypes /\ Resync)
  <1> SUFFICES ASSUME NoMagicInside PROVE LineSpec => [](LineTypes /\ Resync)
    OBVIOUS
  <1>1. LineInit => LineTypes /\ Resync
    BY LineInitTypes DEF Resync
  <1>2. LineTypes /\ Resync /\ [LineNext]_uartVars => (LineTypes /\ Resync)'
    BY LineTypesNext, ResyncNext
  <1> QED
    BY <1>1, <1>2, PTL DEF LineSpec

\* After any faults feed() misses at most one frame that came through whole and returns
\* the next as it was sent, whatever the checksum: this only takes that no frame has the
\* magic bytes inside.
THEOREM MissesAtMostOneCorrect == NoMagicInside /\ LineSpec => []MissesAtMostOne
  <1>1. LineTypes /\ Resync => MissesAtMostOne
    BY DEF Resync, MissesAtMostOne
  <1> QED
    BY <1>1, ResyncAlways, PTL

\* With the last byte of a whole frame feed() returns that frame or nothing: never
\* another frame, and never one with other values.
THEOREM WholeFramesExact ==
    NoMagicInside /\ LineSpec =>
        [][Transmit /\ sent = 11 /\ ~spoiled => returned' \in {NoFrame, sending}]_uartVars
  <1> DEFINE Exact == Transmit /\ sent = 11 /\ ~spoiled => returned' \in {NoFrame, sending}
  <1>1. ASSUME LineTypes, Resync, [LineNext]_uartVars PROVE Exact
    <2> SUFFICES ASSUME Transmit, sent = 11, ~spoiled PROVE returned' \in {NoFrame, sending}
      OBVIOUS
    <2>1. feed(OnWire)
      BY DEF Transmit
    <2>2. CASE Aligned
      BY <2>1, <2>2, <1>1, AlignedEnd
    <2>3. CASE Adrift
      <3>1. ~(Len(buffer_) >= sent + 2)
        BY <1>1 DEF LineTypes
      <3>2. Len(buffer_) = 0 \/ Len(buffer_) = 1
        BY <2>3, <3>1 DEF Adrift
      <3>3. AwaitFirst(OnWire) \/ AwaitSecond(OnWire)
        <4>1. 0 \notin 2 .. kUartFrameSize - 2 /\ 1 \notin 2 .. kUartFrameSize - 2
          BY DEF kUartFrameSize
        <4>2. 0 # kUartFrameSize - 1 /\ 1 # kUartFrameSize - 1
          BY DEF kUartFrameSize
        <4> QED
          BY <2>1, <3>2, <4>1, <4>2, Zenon DEF feed, Collect, Complete, position_
      <3> QED
        BY <3>3 DEF AwaitFirst, AwaitSecond
    <2> QED
      BY <2>2, <2>3, <1>1 DEF Resync
  <1>2. LineTypes /\ Resync /\ [LineNext]_uartVars => [Exact]_uartVars
    BY <1>1
  <1> QED
    BY <1>2, ResyncAlways, PTL DEF LineSpec

---------------------------------------------------------------------------------
(* Before the first fault.                                                         *)

Clean ==
    /\ faults \in Nat
    /\ faults = 0 => ~spoiled /\ Aligned /\ missed = 0 /\ ReturnsSentFrames

LEMMA CleanStep ==
    ASSUME LineTypes, LineTypes', Clean, Transmit, faults = 0
    PROVE  /\ ~spoiled' /\ Aligned' /\ missed' = 0
           /\ returned' = IF sent = 11 /\ Valid(sending) THEN sending ELSE NoFrame
  <1>1. feed(OnWire) /\ Advance(FALSE) /\ ~spoiled /\ Aligned /\ missed = 0
    BY DEF Transmit, Clean
  <1>2. CASE sent < 11
    <2>1. sent' = sent + 1 /\ sending' = sending /\ missed' = missed /\ ~spoiled'
      BY <1>1, <1>2 DEF Advance, LineTypes, kUartFrameSize
    <2>2. Aligned'
      BY <1>1, <1>2, <2>1, AlignedStep DEF Aligned
    <2>3. Len(buffer_) # 11
      BY <1>1, <1>2 DEF Aligned, Follows
    <2>4. returned' = NoFrame
      BY <1>1, <2>3 DEF feed, AwaitFirst, AwaitSecond, Collect, Complete, position_,
         kUartFrameSize
    <2> QED
      BY <1>1, <1>2, <2>1, <2>2, <2>4
  <1>3. CASE sent = 11
    <2>1. Len(buffer_') = 0 /\ returned' = IF Valid(sending) THEN sending ELSE NoFrame
      BY <1>1, <1>3, AlignedEnd
    <2>2. /\ sent' = 0 /\ ~spoiled'
          /\ missed' = IF returned' = sending THEN 0
                       ELSE IF Valid(sending) /\ missed < 2 THEN missed + 1 ELSE missed
      BY <1>1, <1>3 DEF Advance, kUartFrameSize
    <2>3. Aligned'
      BY <2>1, <2>2, NextFrameBegins
    <2>4. missed' = 0
      BY <1>1, <2>1, <2>2
    <2> QED
      BY <1>3, <2>1, <2>2, <2>3, <2>4
  <1>4. sent < 11 \/ sent = 11
    BY DEF LineTypes
  <1> QED
    BY <1>2, <1>3, <1>4
LEMMA CleanInit == LineInit => Clean
  <1> SUFFICES ASSUME LineInit PROVE Clean
    OBVIOUS
  <1>1. Aligned /\ missed = 0 /\ ~spoiled
    BY LineInitTypes
  <1>2. faults \in Nat /\ returned = NoFrame
    BY DEF LineInit, DecoderInit
  <1> QED
    BY <1>1, <1>2 DEF Clean, ReturnsSentFrames

LEMMA CleanNext ==
    ASSUME LineTypes, LineTypes', Clean, [LineNext]_uartVars
    PROVE  Clean'
  <1>1. ASSUME Fault PROVE Clean'
    <2>1. faults' \in Nat /\ faults' # 0
      BY <1>1 DEF Fault, Clean
    <2> QED
      BY <2>1 DEF Clean
  <1>2. CASE Transmit
    <2>1. faults' = faults
      BY <1>2 DEF Transmit
    <2>2. CASE faults = 0
      <3>1. /\ ~spoiled' /\ Aligned' /\ missed' = 0
            /\ returned' = IF sent = 11 /\ Valid(sending) THEN sending ELSE NoFrame
        BY <1>2, <2>2, CleanStep
      <3>2. ReturnsSentFrames'
        BY <3>1 DEF ReturnsSentFrames, LineTypes, Valid
      <3> QED
        BY <2>1, <2>2, <3>1, <3>2 DEF Clean
    <2> QED
      BY <2>1, <2>2 DEF Clean
  <1>3. CASE UNCHANGED uartVars
    <2>1. Wire' = Wire
      BY DEF Wire, encode_uart_frame, Covered
    <2>2. UNCHANGED <<buffer_, returned, sending, sent, spoiled, missed, faults>>
      BY <1>3 DEF uartVars, decoderVars, lineVars
    <2>3. Follows' <=> Follows
      BY <2>1, <2>2 DEF Follows
    <2>4. Aligned' <=> Aligned
      BY <2>2, <2>3 DEF Aligned
    <2>5. ReturnsSentFrames' <=> ReturnsSentFrames
      BY <2>2 DEF ReturnsSentFrames, Valid
    <2> QED
      BY <2>2, <2>4, <2>5 DEF Clean
  <1> QED
    BY <1>1, <1>2, <1>3 DEF LineNext, Lose, Damage, Insert

LEMMA CleanAlways == LineSpec => [](LineTypes /\ Clean)
  <1>1. LineInit => LineTypes /\ Clean
    BY LineInitTypes, CleanInit
  <1>2. LineTypes /\ Clean /\ [LineNext]_uartVars => (LineTypes /\ Clean)'
    BY LineTypesNext, CleanNext
  <1> QED
    BY <1>1, <1>2, PTL DEF LineSpec

\* Until the line first fails feed() returns only frames that were sent, as they were
\* sent, and misses none, whatever the frames hold.
THEOREM CleanLineCorrect == LineSpec => [](faults = 0 => ReturnsSentFrames /\ missed = 0)
  <1>1. LineTypes /\ Clean => (faults = 0 => ReturnsSentFrames /\ missed = 0)
    BY DEF Clean
  <1> QED
    BY <1>1, CleanAlways, PTL

\* Until then it returns exactly the valid frames, each with its last byte: encoding and
\* decoding are inverse for every sequence number and every value.
THEOREM CleanLineExact ==
    LineSpec => [][faults' = 0 =>
                 returned' = IF sent = 11 /\ Valid(sending) THEN sending ELSE NoFrame]_uartVars
  <1> DEFINE Exact ==
        faults' = 0 => returned' = IF sent = 11 /\ Valid(sending) THEN sending ELSE NoFrame
  <1>1. ASSUME LineTypes, LineTypes', Clean, LineNext PROVE Exact
    <2>1. CASE Transmit
      <3>1. faults' = faults
        BY <2>1 DEF Transmit
      <3> QED
        BY <1>1, <2>1, <3>1, CleanStep
    <2>2. CASE Lose \/ Damage \/ Insert
      <3>1. Fault
        BY <2>2 DEF Lose, Damage, Insert
      <3>2. faults' # 0
        BY <1>1, <3>1 DEF Fault, Clean
      <3> QED
        BY <3>2
    <2> QED
      BY <1>1, <2>1, <2>2 DEF LineNext
  <1>2. LineTypes /\ Clean /\ LineTypes' /\ [LineNext]_uartVars => [Exact]_uartVars
    BY <1>1
  <1> QED
    BY <1>2, CleanAlways, PTL DEF LineSpec

---------------------------------------------------------------------------------
(* Whatever the line does.                                                         *)

Started == Len(buffer_) >= 2 => buffer_[2] = kUartMagicSecond

LEMMA StartedFeed ==
    ASSUME LineTypes, Started, NEW byte \in Byte, feed(byte)
    PROVE  Started'
  <1> SUFFICES ASSUME Len(buffer_') >= 2 PROVE buffer_'[2] = kUartMagicSecond
    BY DEF Started
  <1>1. buffer_ \in Seq(Byte) /\ Len(buffer_) \in Nat /\ Len(buffer_) < 12
    BY DEF LineTypes
  <1>2. /\ Len(buffer_') = Len(buffer_) + 1
        /\ \A i \in 1 .. Len(buffer_) : buffer_'[i] = buffer_[i]
        /\ buffer_'[Len(buffer_')] = byte
    BY FeedBuffer
  <1>3. CASE Len(buffer_) = 1
    <2>1. byte = kUartMagicSecond
      <3>1. Len(buffer_') = IF byte = kUartMagicSecond THEN 2
                            ELSE IF byte = kUartMagicFirst THEN 1 ELSE 0
        BY <1>3, FeedBuffer
      <3> QED
        BY <3>1
    <2> QED
      BY <1>2, <1>3, <2>1
  <1>4. CASE Len(buffer_) >= 2
    BY <1>1, <1>2, <1>4 DEF Started
  <1>5. Len(buffer_) = 1 \/ Len(buffer_) >= 2
    <2>1. \A m, n \in Nat : n = m + 1 /\ n >= 2 => m = 1 \/ m >= 2
      OBVIOUS
    <2>2. Len(buffer_') \in Nat
      BY FeedBuffer
    <2> QED
      BY <1>1, <1>2, <2>1, <2>2, Zenon
  <1> QED
    BY <1>3, <1>4, <1>5

LEMMA StartedNext == LineTypes /\ Started /\ [LineNext]_uartVars => Started'
  <1> SUFFICES ASSUME LineTypes, Started, [LineNext]_uartVars PROVE Started'
    OBVIOUS
  <1>1. CASE \E byte \in Byte : feed(byte)
    BY <1>1, StartedFeed
  <1>2. CASE UNCHANGED buffer_
    BY <1>2 DEF Started
  <1>3. LineNext => (\E byte \in Byte : feed(byte)) \/ UNCHANGED buffer_
    BY OnWireByte, LineAssumption DEF LineNext, Transmit, Lose, Damage, Insert
  <1> QED
    BY <1>1, <1>2, <1>3 DEF uartVars, decoderVars

LEMMA FeedReturns ==
    ASSUME LineTypes, Started, NEW byte \in Byte, feed(byte), returned' # NoFrame
    PROVE  Valid(returned') /\ encode_uart_frame(returned') = Append(buffer_, byte)
  <1> DEFINE b == Append(buffer_, byte)
  <1>1. position_ = kUartFrameSize - 1 /\ Judge(b)
    BY Zenon DEF feed, AwaitFirst, AwaitSecond, Collect, Complete
  <1>2. Len(buffer_) = 11 /\ buffer_ \in Seq(Byte)
    BY <1>1 DEF position_, kUartFrameSize, LineTypes
  <1>3. /\ b \in Seq(Byte) /\ Len(b) = Len(buffer_) + 1
        /\ \A i \in 1 .. Len(buffer_) : b[i] = buffer_[i]
    <2>1. buffer_ \in Seq(Byte)
      BY <1>2
    <2> QED
      BY <2>1, AppendProperties
  <1> HIDE DEF b
  <1>4. Len(b) = 12 /\ b[1] = kUartMagicFirst /\ b[2] = kUartMagicSecond
    BY <1>2, <1>3 DEF LineTypes, Started
  <1>5. Crc16(SubSeq(b, 1, 10)) = Word(b, 11) /\ Accept(b)
    BY <1>1, Zenon DEF Judge, RejectCrc, RejectFormat
  <1>6. returned' = Decoded(b) /\ b[3] = kUartProtocolVersion /\ Decoded(b).kind \in MeasurementKind
    BY <1>5, Zenon DEF Accept, Decoded
  <1>7. encode_uart_frame(Decoded(b)) = b
    BY <1>3, <1>4, <1>5, <1>6, DecodedEncodes, Zenon
  <1> QED
    BY <1>6, <1>7, Zenon DEF b, Valid

\* Under any faults feed() returns a frame only with the twelfth byte of a sequence that
\* is the encoding of that frame, of a known kind: decoding loses nothing and makes
\* nothing up, and what a wrong frame needs to get through is a right checksum.
THEOREM ReturnsWhatCameIn ==
    LineSpec => [][returned' # NoFrame =>
                      /\ Valid(returned')
                      /\ \E byte \in Byte :
                            encode_uart_frame(returned') = Append(buffer_, byte)]_uartVars
  <1> DEFINE CameIn == returned' # NoFrame =>
                          /\ Valid(returned')
                          /\ \E byte \in Byte :
                                encode_uart_frame(returned') = Append(buffer_, byte)
  <1>1. LineTypes /\ Started /\ LineNext => CameIn
    <2> SUFFICES ASSUME LineTypes, Started, LineNext, returned' # NoFrame
                 PROVE  Valid(returned') /\ \E byte \in Byte :
                            encode_uart_frame(returned') = Append(buffer_, byte)
      OBVIOUS
    <2>1. PICK byte \in Byte : feed(byte)
      BY OnWireByte, LineAssumption DEF LineNext, Transmit, Lose, Damage, Insert
    <2> QED
      BY <2>1, FeedReturns
  <1>2. LineInit => LineTypes /\ Started
    <2>1. LineInit => Started
      BY DEF LineInit, DecoderInit, Started
    <2> QED
      BY <2>1, LineInitTypes
  <1>3. LineTypes /\ Started /\ [LineNext]_uartVars => (LineTypes /\ Started)' /\ [CameIn]_uartVars
    <2> HIDE DEF CameIn
    <2> QED
      BY <1>1, LineTypesNext, StartedNext
  <1> HIDE DEF CameIn
  <1>4. LineSpec => [][CameIn]_uartVars
    BY <1>2, <1>3, PTL DEF LineSpec
  <1> QED
    BY <1>4 DEF CameIn

---------------------------------------------------------------------------------
(* The sensor adapters: what a call of read() makes of the measurements it got.    *)

\* Induction over the natural numbers, with a set in the place of a predicate.
LEMMA Induction ==
    ASSUME NEW T, 0 \in T, \A n \in Nat : n \in T => n + 1 \in T
    PROVE  \A n \in Nat : n \in T
  <1> SUFFICES ASSUME NEW m \in Nat, m \notin T PROVE FALSE
    OBVIOUS
  <1> DEFINE R == OpToRel(<, Nat)
             B == {n \in Nat : n \notin T}
  <1>1. PICK x \in B : \A y \in B : ~(<<y, x>> \in R)
    <2>1. IsWellFoundedOn(R, Nat)
      BY NatLessThanWellFounded, Zenon
    <2>2. B \subseteq Nat /\ B # {}
      OBVIOUS
    <2> HIDE DEF R, B
    <2> QED
      BY <2>1, <2>2, WFMin, Zenon
  <1>2. x \in Nat /\ x # 0 /\ x \notin T
    OBVIOUS
  <1>3. x - 1 \in Nat /\ x - 1 < x /\ (x - 1) + 1 = x
    BY <1>2
  <1>4. x - 1 \notin B
    BY <1>1, <1>2, <1>3, Zenon DEF OpToRel
  <1> QED
    BY <1>2, <1>3, <1>4

\* What the decoders return, and what counts as bad news.
Measurements == {m \in [kind : Kinds, value : Int] : m.kind = "online" => m.value \in {0, 1}}
SaysOffline(m) == m = [kind |-> "online", value |-> 0]

LEMMA ReceiveOnline ==
    ASSUME NEW s \in Machine!SampleType, NEW m \in Measurements
    PROVE  /\ Receive(s, m) \in Machine!SampleType
           /\ Receive(s, m).online <=> ~SaysOffline(m)
  <1>1. m \in [kind : Kinds, value : Int] /\ (m.kind = "online" => m.value \in {0, 1})
    BY DEF Measurements
  <1>2. CASE m.kind # "online"
    <2>1. apply_measurement(s, m) \in Machine!SampleType
      BY <1>1, <1>2 DEF Kinds, apply_measurement, Machine!SampleType
    <2>2. Receive(s, m) = [apply_measurement(s, m) EXCEPT !.online = TRUE]
      BY <1>2 DEF Receive
    <2> HIDE DEF apply_measurement
    <2>3. Receive(s, m) \in Machine!SampleType /\ Receive(s, m).online = TRUE
      BY <2>1, <2>2 DEF Machine!SampleType
    <2> QED
      BY <1>2, <2>3 DEF SaysOffline
  <1>3. CASE m.kind = "online"
    <2>1. Receive(s, m) = [s EXCEPT !.online = m.value # 0]
      BY <1>3 DEF Receive, apply_measurement
    <2>2. Receive(s, m) \in Machine!SampleType /\ Receive(s, m).online = (m.value # 0)
      BY <2>1 DEF Machine!SampleType
    <2>3. SaysOffline(m) <=> m.value = 0
      BY <1>1, <1>3 DEF SaysOffline
    <2> QED
      BY <2>2, <2>3
  <1> QED
    BY <1>2, <1>3

LEMMA UartMeasurement ==
    ASSUME NEW f \in UartFrames
    PROVE  decode_uart_measurement(f) \in Measurements
  BY BusAssumption, SMT DEF Measurements, Kinds, decode_uart_measurement, Int32

LEMMA CanMeasurement ==
    ASSUME NEW f \in CanFrames, NEW id \in Int
    PROVE  decode_can_message(id, f.can_dlc, f.data) \in {<<>>} \cup {<<m>> : m \in Measurements}
  <1>1. f.can_dlc \in Nat /\ f.data \in [1 .. 4 -> Byte]
    BY BusAssumption
  <1>2. CASE id = kCanOnlineId
    <2>1. PICK v \in {0, 1} :
             decode_can_message(id, f.can_dlc, f.data) \in {<<>>, <<[kind |-> "online", value |-> v]>>}
      <3>1. id \notin DOMAIN CanKind
        BY <1>2 DEF CanKind, kCanOnlineId
      <3> QED
        BY <1>2, <3>1 DEF decode_can_message
    <2>2. [kind |-> "online", value |-> v] \in Measurements
      BY DEF Measurements, Kinds
    <2> QED
      BY <2>1, <2>2
  <1>3. CASE id # kCanOnlineId /\ id \in 257 .. 259
    <2>1. SignedDouble(f.data, 1) \in Int
      BY <1>1, SMT DEF SignedDouble, Signed, Word, Byte
    <2>2. CanKind[id] \in Kinds \ {"online"} /\ DOMAIN CanKind = 257 .. 259
      BY <1>3 DEF CanKind, Kinds
    <2> DEFINE m == [kind |-> CanKind[id], value |-> SignedDouble(f.data, 1)]
    <2>3. m \in Measurements
      <3>1. m \in [kind : Kinds, value : Int] /\ m.kind # "online"
        BY <2>1, <2>2, Zenon
      <3> QED
        BY <3>1, Zenon DEF Measurements
    <2>4. decode_can_message(id, f.can_dlc, f.data) \in {<<>>, <<m>>}
      BY <1>3, <2>2 DEF decode_can_message
    <2> HIDE DEF m
    <2> QED
      BY <2>3, <2>4
  <1>4. CASE id # kCanOnlineId /\ id \notin 257 .. 259
    BY <1>4 DEF decode_can_message, CanKind
  <1> QED
    BY <1>2, <1>3, <1>4

\* The loop over the measurements of one call of read() has a result.
LEMMA ReceivedLoop ==
    ASSUME NEW ms, NEW k \in Nat
    PROVE  \E after : after = [i \in 0 .. k |-> IF i = 0 THEN sample_
                                               ELSE Receive(after[i - 1], ms[i])]
  <1> DEFINE Is(f, n) == f = [i \in 0 .. n |-> IF i = 0 THEN sample_ ELSE Receive(f[i - 1], ms[i])]
             T == {n \in Nat : \E f : Is(f, n)}
  <1>1. 0 \in T
    <2> DEFINE f == [i \in 0 .. 0 |-> sample_]
    <2>1. Is(f, 0)
      OBVIOUS
    <2> QED
      BY <2>1
  <1>2. ASSUME NEW n \in Nat, n \in T PROVE n + 1 \in T
    <2>1. PICK f : Is(f, n)
      BY <1>2
    <2> DEFINE g == [i \in 0 .. n + 1 |-> IF i = n + 1 THEN Receive(f[n], ms[n + 1]) ELSE f[i]]
    <2>2. ASSUME NEW i \in 0 .. n + 1
          PROVE  g[i] = IF i = 0 THEN sample_ ELSE Receive(g[i - 1], ms[i])
      <3>1. CASE i = n + 1
        BY <3>1
      <3>2. CASE i # n + 1 /\ i # 0
        <4>1. i \in 0 .. n /\ i - 1 \in 0 .. n /\ i - 1 \in 0 .. n + 1 /\ i - 1 # n + 1
          BY <3>2
        <4>2. f[i] = Receive(f[i - 1], ms[i])
          BY <2>1, <4>1, <3>2
        <4>3. g[i] = f[i] /\ g[i - 1] = f[i - 1]
          BY <4>1, <3>2
        <4> QED
          BY <4>2, <4>3, <3>2
      <3>3. CASE i = 0
        BY <2>1, <3>3
      <3> QED
        BY <3>1, <3>2, <3>3
    <2> HIDE DEF g
    <2>3. g = [i \in 0 .. n + 1 |-> g[i]]
      BY DEF g
    <2>4. Is(g, n + 1)
      BY <2>2, <2>3
    <2> QED
      BY <2>4
  <1> HIDE DEF T
  <1>3. k \in T
    BY <1>1, <1>2, Induction
  <1> QED
    BY <1>3 DEF T

\* The last measurement of a call decides whether the sensor is online.
LEMMA ReceivedSample ==
    ASSUME sample_ \in Machine!SampleType, NEW ms \in Seq(Measurements), ms # <<>>
    PROVE  /\ Received(ms) \in Machine!SampleType
           /\ Received(ms).online <=> ~SaysOffline(ms[Len(ms)])
  <1> DEFINE after[i \in 0 .. Len(ms)] ==
                 IF i = 0 THEN sample_ ELSE Receive(after[i - 1], ms[i])
  <1>1. Len(ms) \in Nat /\ Len(ms) # 0
    OBVIOUS
  <1>2. Received(ms) = after[Len(ms)]
    BY DEF Received
  <1>3. after = [i \in 0 .. Len(ms) |-> IF i = 0 THEN sample_ ELSE Receive(after[i - 1], ms[i])]
    <2>1. \E f : f = [i \in 0 .. Len(ms) |-> IF i = 0 THEN sample_ ELSE Receive(f[i - 1], ms[i])]
      BY <1>1, ReceivedLoop
    <2> QED
      BY <2>1
  <1> HIDE DEF after
  <1>4. ASSUME NEW i \in 1 .. Len(ms)
        PROVE  after[i] = Receive(after[i - 1], ms[i]) /\ ms[i] \in Measurements
    BY <1>1, <1>3
  <1> DEFINE T == {n \in Nat : n <= Len(ms) => after[n] \in Machine!SampleType}
  <1>5. 0 \in T
    <2>1. after[0] = sample_
      BY <1>1, <1>3
    <2> QED
      BY <2>1
  <1>6. ASSUME NEW n \in Nat, n \in T PROVE n + 1 \in T
    <2> SUFFICES ASSUME n + 1 <= Len(ms) PROVE after[n + 1] \in Machine!SampleType
      OBVIOUS
    <2>1. n + 1 \in 1 .. Len(ms) /\ (n + 1) - 1 = n /\ n <= Len(ms)
      BY <1>1
    <2>2. after[n] \in Machine!SampleType
      BY <1>6, <2>1
    <2>3. after[n + 1] = Receive(after[n], ms[n + 1]) /\ ms[n + 1] \in Measurements
      BY <1>4, <2>1
    <2> QED
      BY <2>2, <2>3, ReceiveOnline
  <1>7. after[Len(ms) - 1] \in Machine!SampleType
    <2> HIDE DEF T
    <2>1. Len(ms) - 1 \in T
      BY <1>1, <1>5, <1>6, Induction
    <2> QED
      BY <1>1, <2>1 DEF T
  <1>8. after[Len(ms)] = Receive(after[Len(ms) - 1], ms[Len(ms)]) /\ ms[Len(ms)] \in Measurements
    BY <1>1, <1>4
  <1> QED
    BY <1>2, <1>7, <1>8, ReceiveOnline

News(ms) == ms # <<>> /\ ~SaysOffline(ms[Len(ms)])

LEMMA OnlineMeansNews ==
    ASSUME sample_ \in Machine!SampleType, NEW ms \in Seq(Measurements)
    PROVE  SampleAfter(ms) \in Machine!SampleType /\ (SampleAfter(ms).online <=> News(ms))
  <1>1. CASE ms = <<>>
    BY <1>1 DEF SampleAfter, News, Machine!SampleType
  <1>2. CASE ms # <<>>
    BY <1>2, ReceivedSample DEF SampleAfter, News
  <1> QED
    BY <1>1, <1>2

---------------------------------------------------------------------------------
(* The adapters and the state machine.                                             *)

SourceTypes ==
    /\ adapter = "uart" => bus \in Seq(UartFrames)
    /\ adapter = "can" => bus \in Seq(CanFrames)
    /\ sample_ \in Machine!SampleType
    /\ unheard \in Nat /\ unheard <= Protection.offline_samples
    /\ offline_count_ \in Nat

\* The machine has counted no more samples than calls of read() went unheard.
CountIsUnheard == state_ \in Machine!Active => offline_count_ <= unheard

\* read() marks its sample online exactly when the call has brought news.
OnlineIsHeard == Protection.offline_samples > 0 => (sample_.online <=> unheard = 0)

SourceInv == SourceTypes /\ CountIsUnheard /\ OnlineIsHeard /\ OfflineMeansUnheard

LEMMA LimitType == Protection.offline_samples \in Nat
  BY ProtectionAssumption DEF Machine!ProtectionConfig

LEMMA DeliverInv ==
    ASSUME SourceInv, NEW s \in Machine!SampleType, NEW news \in BOOLEAN, s.online <=> news,
           Deliver(s, news)
    PROVE  /\ sample_' \in Machine!SampleType
           /\ unheard' \in Nat /\ unheard' <= Protection.offline_samples
           /\ offline_count_' \in Nat
           /\ CountIsUnheard' /\ OnlineIsHeard' /\ OfflineMeansUnheard'
  <1> DEFINE N == Protection.offline_samples
  <1>1. N \in Nat /\ unheard \in Nat /\ unheard <= N /\ offline_count_ \in Nat
    BY LimitType DEF SourceInv, SourceTypes
  <1>2. /\ news => unheard' = 0
        /\ ~news /\ unheard < N => unheard' = unheard + 1
        /\ ~news /\ ~(unheard < N) => unheard' = unheard
    BY DEF Deliver
  <1>3. sample_' \in Machine!SampleType /\ unheard' \in Nat /\ unheard' <= N
    BY <1>1, <1>2 DEF Deliver
  <1>4. OnlineIsHeard'
    <2>1. sample_' = s
      BY DEF Deliver
    <2> QED
      BY <1>1, <1>2, <2>1 DEF OnlineIsHeard
  <1> SUFFICES offline_count_' \in Nat /\ CountIsUnheard' /\ OfflineMeansUnheard'
    BY <1>3, <1>4
  <1>5. Machine!handle(Machine!SampleEvent(s))
    BY DEF Deliver
  <1>6. CASE Machine!OfflineTrips(s) /\ state_ \in Machine!Active
              /\ Machine!transition_to("fault_latched", "sensor_offline")
    <2>1. offline_count_' = 0 /\ state_' = "fault_latched"
      BY <1>6 DEF Machine!transition_to, Machine!reset_counters
    <2>2. ~news /\ offline_count_ + 1 >= N /\ offline_count_ <= unheard
      BY <1>6 DEF Machine!OfflineTrips, Machine!OfflineRun, SourceInv, CountIsUnheard
    <2>3. unheard' = N
      BY <1>1, <1>2, <2>2
    <2> QED
      BY <1>3, <2>1, <2>3 DEF CountIsUnheard, OfflineMeansUnheard
  <1>7. CASE \E next : \E reason \in {"critical_reading", "warning_persisted", "readings_recovered"} :
                Machine!transition_to(next, reason)
    <2>1. offline_count_' = 0 /\ transition'.reason # "sensor_offline"
      BY <1>7 DEF Machine!transition_to, Machine!reset_counters
    <2> QED
      BY <1>3, <2>1 DEF CountIsUnheard, OfflineMeansUnheard
  <1>8. CASE /\ state_ \in Machine!Active /\ ~Machine!OfflineTrips(s)
             /\ offline_count_' = Machine!OfflineRun(s) /\ Machine!unchanged
    <2>1. transition'.reason = "none" /\ state_' = state_
      BY <1>8 DEF Machine!unchanged
    <2>2. offline_count_ <= unheard
      BY <1>8 DEF SourceInv, CountIsUnheard
    <2>3. CASE news
      BY <1>1, <1>2, <1>3, <1>8, <2>1, <2>3 DEF Machine!OfflineRun, CountIsUnheard, OfflineMeansUnheard
    <2>4. CASE ~news
      <3>1. offline_count_' = offline_count_ + 1 /\ ~(offline_count_ + 1 >= N)
        BY <1>8, <2>4 DEF Machine!OfflineRun, Machine!OfflineTrips
      <3> QED
        BY <1>1, <1>2, <1>3, <2>1, <2>2, <2>4, <3>1 DEF CountIsUnheard, OfflineMeansUnheard
    <2> QED
      BY <2>3, <2>4
  <1>9. CASE state_ \notin Machine!Active /\ Machine!unchanged /\ UNCHANGED Machine!counters
    <2>1. transition'.reason = "none" /\ state_' = state_ /\ offline_count_' = offline_count_
      BY <1>9 DEF Machine!unchanged, Machine!counters
    <2> QED
      BY <1>1, <1>3, <1>9, <2>1 DEF CountIsUnheard, OfflineMeansUnheard, Machine!Active
  <1> QED
    BY <1>5, <1>6, <1>7, <1>8, <1>9
    DEF Machine!handle, Machine!handle_sample, Machine!SampleEvent, Machine!Active

LEMMA SourceInvInit == Init => SourceInv
  <1> SUFFICES ASSUME Init PROVE SourceInv
    OBVIOUS
  <1>1. sample_ \in Machine!SampleType /\ sample_.online = TRUE
    BY DEF Init, Machine!DefaultSample, Machine!SampleType
  <1>2. bus \in Seq(UartFrames) /\ bus \in Seq(CanFrames)
    BY DEF Init
  <1>3. unheard = 0 /\ offline_count_ = 0 /\ transition.reason # "sensor_offline"
    BY DEF Init
  <1> QED
    BY <1>1, <1>2, <1>3, LimitType
    DEF SourceInv, SourceTypes, CountIsUnheard, OnlineIsHeard, OfflineMeansUnheard

LEMMA FinishInv ==
    ASSUME SourceInv, NEW ms \in Seq(Measurements), Finish(ms),
           adapter = "uart" => bus' \in Seq(UartFrames),
           adapter = "can" => bus' \in Seq(CanFrames)
    PROVE  SourceInv'
  <1>1. SampleAfter(ms) \in Machine!SampleType /\ (SampleAfter(ms).online <=> News(ms))
    BY OnlineMeansNews DEF SourceInv, SourceTypes
  <1>2. Deliver(SampleAfter(ms), News(ms)) /\ News(ms) \in BOOLEAN
    BY DEF Finish, News, SaysOffline
  <1>3. adapter' = adapter
    BY <1>2 DEF Deliver
  <1> QED
    BY <1>1, <1>2, <1>3, DeliverInv DEF SourceInv, SourceTypes

LEMMA SourceInvNext == SourceInv /\ [Next]_vars => SourceInv'
  <1> SUFFICES ASSUME SourceInv, [Next]_vars PROVE SourceInv'
    OBVIOUS
  <1>1. CASE UartRead
    <2>1. bus \in Seq(UartFrames) /\ adapter = "uart"
      BY <1>1 DEF UartRead, SourceInv, SourceTypes
    <2>2. PICK n \in 0 .. Len(bus) :
             /\ bus' = SubSeq(bus, n + 1, Len(bus))
             /\ Finish([i \in 1 .. n |-> decode_uart_measurement(bus[i])])
      BY <1>1 DEF UartRead
    <2> DEFINE ms == [i \in 1 .. n |-> decode_uart_measurement(bus[i])]
    <2>3. ms \in Seq(Measurements)
      <3>1. n \in Nat /\ \A i \in 1 .. n : bus[i] \in UartFrames
        BY <2>1
      <3>2. \A i \in 1 .. n : decode_uart_measurement(bus[i]) \in Measurements
        BY <3>1, UartMeasurement
      <3> QED
        BY <3>1, <3>2
    <2>4. bus' \in Seq(UartFrames)
      BY <2>1, <2>2
    <2> HIDE DEF ms
    <2> QED
      BY <2>1, <2>2, <2>3, <2>4, FinishInv DEF ms
  <1>2. CASE CanRead
    <2>1. bus \in Seq(CanFrames) /\ adapter = "can" /\ bus # <<>>
      BY <1>2 DEF CanRead, SourceInv, SourceTypes
    <2> DEFINE frame == Head(bus)
               id == frame.can_id % 2 ^ 29
    <2>2. frame \in CanFrames
      BY <2>1
    <2>3. id \in Int
      BY <2>2, BusAssumption
    <2> DEFINE ms == decode_can_message(id, frame.can_dlc, frame.data)
    <2>4. Finish(ms) /\ bus' = Tail(bus)
      BY <1>2 DEF CanRead
    <2> HIDE DEF frame, id
    <2>5. ms \in {<<>>} \cup {<<m>> : m \in Measurements}
      BY <2>2, <2>3, CanMeasurement
    <2> HIDE DEF ms
    <2>6. ms \in Seq(Measurements)
      <3>1. <<>> \in Seq(Measurements) /\ \A m \in Measurements : <<m>> \in Seq(Measurements)
        OBVIOUS
      <3> QED
        BY <2>5, <3>1, Zenon
    <2> QED
      BY <2>1, <2>4, <2>6, FinishInv
  <1>3. CASE ReadNothing \/ ReadFails
    <2>1. Finish(<<>>) /\ bus' = bus
      BY <1>3 DEF ReadNothing, ReadFails
    <2>2. <<>> \in Seq(Measurements)
      OBVIOUS
    <2> QED
      BY <2>1, <2>2, FinishInv DEF SourceInv, SourceTypes
  <1>4. CASE I2cRead
    <2>1. PICK r \in Registers : Deliver(DecodeRegisters(r), r.status % 2 # 0)
      BY <1>4 DEF I2cRead
    <2>2. /\ r.temperature \in [1 .. 2 -> Byte] /\ r.vibration \in [1 .. 2 -> Byte]
          /\ r.current \in [1 .. 2 -> Byte]
      BY BusAssumption
    <2>3. ASSUME NEW b \in [1 .. 2 -> Byte]
          PROVE  Word(b, 1) \in Int /\ Signed(Word(b, 1)) \in Int
      BY SMT DEF Word, Signed, Byte
    <2>4. /\ DecodeRegisters(r) \in Machine!SampleType
          /\ DecodeRegisters(r).online = (r.status % 2 # 0)
      <3>1. /\ Signed(Word(r.temperature, 1)) * 10 \in Int
            /\ Word(r.vibration, 1) * 10 \in Int /\ Word(r.current, 1) * 10 \in Int
        BY <2>2, <2>3
      <3> QED
        BY <3>1, Zenon DEF DecodeRegisters, Machine!SampleType
    <2>5. bus' = bus /\ adapter' = adapter
      BY <1>4, <2>1 DEF I2cRead, Deliver
    <2> QED
      BY <2>1, <2>4, <2>5, DeliverInv DEF SourceInv, SourceTypes
  <1>5. CASE I2cReadFails
    <2> DEFINE s == [sample_ EXCEPT !.online = FALSE]
    <2>1. Deliver(s, FALSE) /\ bus' = bus /\ adapter' = adapter
      BY <1>5 DEF I2cReadFails, Deliver
    <2>2. s \in Machine!SampleType /\ s.online = FALSE
      BY DEF SourceInv, SourceTypes, Machine!SampleType
    <2> HIDE DEF s
    <2> QED
      BY <2>1, <2>2, DeliverInv DEF SourceInv, SourceTypes
  <1>6. CASE DeviceSends
    <2>1. (adapter = "uart" => bus' \in Seq(UartFrames)) /\ (adapter = "can" => bus' \in Seq(CanFrames))
      BY <1>6 DEF DeviceSends, SourceInv, SourceTypes
    <2> QED
      BY <1>6, <2>1 DEF DeviceSends, machineVars, SourceInv, SourceTypes, CountIsUnheard,
         OnlineIsHeard, OfflineMeansUnheard
  <1>7. CASE DeviceDies \/ UNCHANGED vars
    BY <1>7 DEF DeviceDies, vars, sourceVars, machineVars, SourceInv, SourceTypes, CountIsUnheard,
       OnlineIsHeard, OfflineMeansUnheard
  <1> QED
    BY <1>1, <1>2, <1>3, <1>4, <1>5, <1>6, <1>7 DEF Next, read

\* Whatever the adapter, the frames and the order of reads, frames and failures, the
\* machine latches "sensor offline" only after offline_samples calls of read() in a row
\* without news.
THEOREM OfflineMeansUnheardCorrect == Spec => []OfflineMeansUnheard
  <1>1. SourceInv => OfflineMeansUnheard
    BY DEF SourceInv
  <1> QED
    BY <1>1, SourceInvInit, SourceInvNext, PTL DEF Spec

\* The sample that read() returns is online exactly when this call brought a measurement
\* and its last one did not say that the sensor is offline, however many came with it.
THEOREM OnlineIsHeardCorrect == Spec => []OnlineIsHeard
  <1>1. SourceInv => OnlineIsHeard
    BY DEF SourceInv
  <1> QED
    BY <1>1, SourceInvInit, SourceInvNext, PTL DEF Spec
=================================================================================
