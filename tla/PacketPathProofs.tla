-------------------------- MODULE PacketPathProofs --------------------------
(***************************************************************************)
(* What one end writes arrives at the other, the writers stay inside their *)
(* buffers, and a message goes to the handlers whose filters match its     *)
(* topic, for every set of packets, buffer size and filter.                *)
(***************************************************************************)
EXTENDS PacketPath, SequenceProofs

-----------------------------------------------------------------------------
(* Bytes in a buffer *)

LEMMA ByteIsNat == \A b \in Byte : b \in Nat /\ b \in Int
BY DEF Byte

LEMMA Joined ==
    ASSUME NEW u \in Seq(Byte), NEW v \in Seq(Byte)
    PROVE  /\ u \o v \in Seq(Byte)
           /\ Len(u \o v) = Len(u) + Len(v)
           /\ \A i \in 1..Len(u) : (u \o v)[i] = u[i]
           /\ \A i \in 1..Len(v) : (u \o v)[Len(u) + i] = v[i]
<1>1. /\ u \o v \in Seq(Byte) /\ Len(u \o v) = Len(u) + Len(v)
      /\ \A i \in 1..(Len(u) + Len(v)) : (u \o v)[i] = IF i <= Len(u) THEN u[i] ELSE v[i - Len(u)]
  BY ConcatProperties
<1>2. Len(u) \in Nat /\ Len(v) \in Nat BY LenProperties
<1>3. \A i \in 1..Len(u) : i \in 1..(Len(u) + Len(v)) /\ i <= Len(u) BY <1>2
<1>4. \A i \in 1..Len(v) : /\ Len(u) + i \in 1..(Len(u) + Len(v)) /\ ~(Len(u) + i <= Len(u))
                           /\ (Len(u) + i) - Len(u) = i
  BY <1>2
<1> QED BY <1>1, <1>3, <1>4

\* the bytes s are in buf from place i on
At(buf, i, s) ==
    /\ buf \in Seq(Byte) /\ s \in Seq(Byte)
    /\ i \in Nat \ {0} /\ i + Len(s) - 1 <= Len(buf)
    /\ \A j \in 1..Len(s) : buf[i + j - 1] = s[j]

LEMMA AtParts ==
    ASSUME NEW buf, NEW i, NEW u \in Seq(Byte), NEW v \in Seq(Byte), At(buf, i, u \o v)
    PROVE  At(buf, i, u) /\ At(buf, i + Len(u), v)
<1>1. /\ buf \in Seq(Byte) /\ i \in Nat \ {0} /\ Len(buf) \in Nat
      /\ Len(u) \in Nat /\ Len(v) \in Nat
  BY LenProperties DEF At
<1>2. Len(u \o v) = Len(u) + Len(v) BY Joined
<1>3. i + (Len(u) + Len(v)) - 1 <= Len(buf) BY <1>2 DEF At
<1>4. i + Len(u) - 1 <= Len(buf) /\ (i + Len(u)) + Len(v) - 1 <= Len(buf) /\ i + Len(u) \in Nat \ {0}
  BY <1>1, <1>3
<1>5. ASSUME NEW j \in 1..Len(u) PROVE buf[i + j - 1] = u[j]
  <2>1. j \in 1..Len(u \o v) BY <1>1, <1>2
  <2>2. (u \o v)[j] = u[j] BY Joined
  <2> QED BY <2>1, <2>2 DEF At
<1>6. ASSUME NEW j \in 1..Len(v) PROVE buf[(i + Len(u)) + j - 1] = v[j]
  <2>1. Len(u) + j \in 1..Len(u \o v) /\ i + (Len(u) + j) - 1 = (i + Len(u)) + j - 1 BY <1>1, <1>2
  <2>2. (u \o v)[Len(u) + j] = v[j] BY Joined
  <2>3. buf[i + (Len(u) + j) - 1] = (u \o v)[Len(u) + j] BY <2>1 DEF At
  <2> QED BY <2>1, <2>2, <2>3
<1> QED BY <1>1, <1>4, <1>5, <1>6 DEF At

LEMMA AtRead ==
    ASSUME NEW buf, NEW i, NEW s, At(buf, i, s)
    PROVE  SubSeq(buf, i, i + Len(s) - 1) = s
<1> DEFINE t == SubSeq(buf, i, i + Len(s) - 1)
<1>1. /\ buf \in Seq(Byte) /\ s \in Seq(Byte) /\ i \in Nat \ {0} /\ i + Len(s) - 1 <= Len(buf)
      /\ Len(buf) \in Nat /\ Len(s) \in Nat
  BY LenProperties DEF At
<1>2. \A k \in i..(i + Len(s) - 1) : buf[k] \in Byte
  <2>1. \A k \in i..(i + Len(s) - 1) : k \in 1..Len(buf) BY <1>1
  <2> QED BY <1>1, <2>1, ElementOfSeq
<1>3. /\ t \in Seq(Byte)
      /\ Len(t) = IF i <= i + Len(s) - 1 THEN (i + Len(s) - 1) - i + 1 ELSE 0
      /\ \A j \in 1..((i + Len(s) - 1) - i + 1) : t[j] = buf[i + j - 1]
  <2>1. i \in Int /\ i + Len(s) - 1 \in Int BY <1>1
  <2> QED BY <1>2, <2>1, SubSeqProperties
<1> HIDE DEF t
<1>4. Len(t) = Len(s) /\ (i + Len(s) - 1) - i + 1 = Len(s) BY <1>1, <1>3
<1>5. \A j \in 1..Len(t) : t[j] = s[j] BY <1>3, <1>4 DEF At
<1>6. t = s BY <1>1, <1>3, <1>4, <1>5, SeqEqual
<1> QED BY <1>6 DEF t

LEMMA AtByte ==
    ASSUME NEW buf, NEW i, NEW s, At(buf, i, s), NEW j \in 1..Len(s)
    PROVE  buf[i + j - 1] = s[j]
BY DEF At

LEMMA OverlayFacts ==
    ASSUME NEW buf \in Seq(Byte), NEW bytes \in Seq(Byte)
    PROVE  /\ Overlay(buf, bytes) \in Seq(Byte)
           /\ Len(Overlay(buf, bytes)) = IF Len(buf) >= Len(bytes) THEN Len(buf) ELSE Len(bytes)
           /\ At(Overlay(buf, bytes), 1, bytes)
<1> DEFINE n == IF Len(buf) >= Len(bytes) THEN Len(buf) ELSE Len(bytes)
           e(i) == IF i <= Len(bytes) THEN bytes[i] ELSE buf[i]
           o == [i \in 1..n |-> e(i)]
<1>1. Len(buf) \in Nat /\ Len(bytes) \in Nat BY LenProperties
<1>2. Max({Len(buf), Len(bytes)}) = n BY <1>1, MaxOfTwo
<1>3. Overlay(buf, bytes) = o BY <1>2 DEF Overlay
<1>4. n \in Nat /\ n >= Len(bytes) BY <1>1
<1>5. ASSUME NEW i \in 1..n PROVE e(i) \in Byte
  <2>1. CASE i <= Len(bytes)
    <3>1. i \in 1..Len(bytes) BY <2>1
    <3> QED BY <2>1, <3>1, ElementOfSeq
  <2>2. CASE ~(i <= Len(bytes))
    <3>1. i \in 1..Len(buf) BY <1>1, <2>2
    <3> QED BY <2>2, <3>1, ElementOfSeq
  <2> QED BY <2>1, <2>2
<1> HIDE DEF n
<1>6. o \in Seq(Byte) /\ Len(o) = n BY <1>4, <1>5
<1>7. \A j \in 1..Len(bytes) : j \in 1..n /\ 1 + j - 1 = j /\ o[j] = bytes[j] BY <1>1, <1>4
<1> HIDE DEF o
<1>8. \A j \in 1..Len(bytes) : o[1 + j - 1] = bytes[j] BY <1>7
<1>9. At(o, 1, bytes)
  <2>1. 1 + Len(bytes) - 1 <= Len(o) /\ 1 \in Nat \ {0} BY <1>1, <1>4, <1>6
  <2> QED BY <1>6, <1>8, <2>1 DEF At
<1> QED BY <1>3, <1>6, <1>9 DEF n

-----------------------------------------------------------------------------
(* Integers and strings *)

LEMMA IntBytes ==
    ASSUME NEW n \in TwoBytes
    PROVE  /\ writeInt(n) \in Seq(Byte) /\ Len(writeInt(n)) = 2
           /\ 256 * writeInt(n)[1] + writeInt(n)[2] = n
<1>1. n \in Nat /\ n <= 65535 BY SMT DEF TwoBytes
<1>2. (n \div 256) % 256 \in 0..255 /\ n % 256 \in 0..255 BY <1>1, SMT
<1>3. 256 * ((n \div 256) % 256) + (n % 256) = n BY <1>1, SMT
<1>4. writeInt(n) \in Seq(Byte) /\ Len(writeInt(n)) = 2 BY <1>2, SMT DEF writeInt, Byte
<1>5. writeInt(n)[1] = (n \div 256) % 256 /\ writeInt(n)[2] = n % 256 BY SMT DEF writeInt
<1> QED BY <1>3, <1>4, <1>5, SMT

LEMMA IntAt ==
    ASSUME NEW n \in TwoBytes, NEW buf, NEW i, At(buf, i, writeInt(n))
    PROVE  readInt(buf, i) = n /\ i \in Nat \ {0} /\ i + 1 <= Len(buf)
<1>1. writeInt(n) \in Seq(Byte) /\ Len(writeInt(n)) = 2
      /\ 256 * writeInt(n)[1] + writeInt(n)[2] = n
  BY IntBytes
<1>2. i \in Nat \ {0} /\ i + 2 - 1 <= Len(buf) /\ Len(buf) \in Nat BY <1>1, LenProperties DEF At
<1>3. 1 \in 1..Len(writeInt(n)) /\ 2 \in 1..Len(writeInt(n)) BY <1>1
<1>4. buf[i + 1 - 1] = writeInt(n)[1] /\ buf[i + 2 - 1] = writeInt(n)[2] BY <1>3, AtByte
<1>5. i + 1 - 1 = i /\ i + 2 - 1 = i + 1 BY <1>2
<1>6. buf[i] = writeInt(n)[1] /\ buf[i + 1] = writeInt(n)[2] BY <1>4, <1>5
<1>7. readInt(buf, i) = n BY <1>1, <1>6 DEF readInt
<1>8. i + 1 <= Len(buf) BY <1>2
<1> QED BY <1>2, <1>7, <1>8

\* the characters of a string
Content(s) == IF lenOf(s) > 0 THEN s.data ELSE IF s.cstring # NULL THEN s.cstring ELSE <<>>

LEMMA TextFacts == \A t \in Text : t \in Seq(Byte) /\ Len(t) \in TwoBytes /\ Len(t) \in Nat /\ t # NULL
<1>1. \A t \in Text : t \in Seq(Byte) /\ Len(t) \in TwoBytes BY DEF Text
<1>2. NULL \notin Seq(Byte) BY CodecAssumption
<1> QED BY <1>1, <1>2, LenProperties

LEMMA EmptyText == <<>> \in Seq(Byte) /\ Len(<<>>) = 0 /\ 0 \in TwoBytes /\ <<>> # NULL
<1>1. <<>> \in Seq(Byte) /\ Len(<<>>) = 0 OBVIOUS
<1>2. 0 \in TwoBytes BY SMT DEF TwoBytes
<1> QED BY <1>1, <1>2, CodecAssumption

LEMMA StringKinds ==
    ASSUME NEW s \in String
    PROVE  \/ s.cstring \in Text /\ s.data = NULL
           \/ s.cstring = NULL /\ s.data = NULL
           \/ s.cstring = NULL /\ s.data \in Text
BY DEF String

LEMMA StringContent ==
    ASSUME NEW s \in String
    PROVE  /\ Content(s) \in Text
           /\ MQTTstrlen(s) = Len(Content(s))
           /\ writeMQTTString(s) = writeInt(Len(Content(s))) \o Content(s)
           /\ ~IsGiven(s) => Content(s) = <<>>
<1>1. <<>> \in Text BY EmptyText DEF Text
<1>0. writeInt(0) \o <<>> = writeInt(0) BY EmptyText, IntBytes, ConcatEmptySeq
<1>2. CASE s.cstring \in Text /\ s.data = NULL
  <2>1. lenOf(s) = 0 /\ ~(lenOf(s) > 0) /\ s.cstring # NULL BY <1>2, TextFacts DEF lenOf
  <2>2. Content(s) = s.cstring BY <2>1 DEF Content
  <2>3. writeMQTTString(s) = writeInt(Len(s.cstring)) \o s.cstring BY <2>1 DEF writeMQTTString
  <2> QED BY <1>2, <2>1, <2>2, <2>3 DEF MQTTstrlen, IsGiven
<1>3. CASE s.cstring = NULL /\ s.data = NULL
  <2>1. lenOf(s) = 0 BY <1>3 DEF lenOf
  <2>2. Content(s) = <<>> BY <1>3, <2>1 DEF Content
  <2>3. writeMQTTString(s) = writeInt(0) BY <1>3, <2>1 DEF writeMQTTString
  <2>4. MQTTstrlen(s) = 0 BY <1>3, <2>1 DEF MQTTstrlen
  <2> QED BY <1>0, <1>1, <2>2, <2>3, <2>4, EmptyText
<1>4. CASE s.cstring = NULL /\ s.data \in Text
  <2>1. s.data \in Seq(Byte) /\ s.data # NULL /\ Len(s.data) \in Nat BY <1>4, TextFacts
  <2>2. lenOf(s) = Len(s.data) BY <2>1 DEF lenOf
  <2>3. MQTTstrlen(s) = Len(s.data) /\ IsGiven(s) BY <1>4, <2>1, <2>2 DEF MQTTstrlen, IsGiven
  <2>4. CASE lenOf(s) > 0
    <3>1. Content(s) = s.data BY <2>4 DEF Content
    <3>2. writeMQTTString(s) = writeInt(lenOf(s)) \o s.data BY <2>4 DEF writeMQTTString
    <3> QED BY <1>4, <2>2, <2>3, <3>1, <3>2
  <2>5. CASE ~(lenOf(s) > 0)
    <3>1. Content(s) = <<>> BY <1>4, <2>5 DEF Content
    <3>2. writeMQTTString(s) = writeInt(0) BY <1>4, <2>5 DEF writeMQTTString
    <3>3. Len(s.data) = 0 BY <2>1, <2>2, <2>5
    <3> QED BY <1>0, <1>1, <2>3, <3>1, <3>2, <3>3, EmptyText
  <2> QED BY <2>4, <2>5
<1> QED BY <1>2, <1>3, <1>4, StringKinds

LEMMA StringBytesFacts ==
    ASSUME NEW s \in String
    PROVE  /\ writeMQTTString(s) \in Seq(Byte)
           /\ MQTTstrlen(s) \in Nat /\ MQTTstrlen(s) \in TwoBytes
           /\ Len(writeMQTTString(s)) = 2 + MQTTstrlen(s)
           /\ Content(s) \in Seq(Byte) /\ Len(Content(s)) = MQTTstrlen(s)
<1> DEFINE c == Content(s)
           w == writeInt(Len(c))
<1>1. c \in Text /\ MQTTstrlen(s) = Len(c) /\ writeMQTTString(s) = w \o c
  BY StringContent
<1>2. c \in Seq(Byte) /\ Len(c) \in TwoBytes /\ Len(c) \in Nat
  BY <1>1, TextFacts
<1>3. w \in Seq(Byte) /\ Len(w) = 2
  BY <1>2, IntBytes
<1> HIDE DEF w
<1>4. w \o c \in Seq(Byte) /\ Len(w \o c) = Len(w) + Len(c)
  BY <1>2, <1>3, Joined
<1> QED BY <1>1, <1>2, <1>3, <1>4

LEMMA StringAt ==
    ASSUME NEW s \in String, NEW buf, NEW i, At(buf, i, writeMQTTString(s))
    PROVE  /\ i \in Nat \ {0}
           /\ AfterString(buf, i) = i + 2 + MQTTstrlen(s)
           /\ readMQTTLenString(buf, i) = [cstring |-> NULL, data |-> Content(s)]
           /\ \A end \in Int : StringFits(buf, i, end) <=> i + 2 + MQTTstrlen(s) <= end
<1> DEFINE n == Len(Content(s))
<1>1. /\ Content(s) \in Text /\ MQTTstrlen(s) = n
      /\ writeMQTTString(s) = writeInt(n) \o Content(s)
  BY StringContent
<1>2. Content(s) \in Seq(Byte) /\ n \in TwoBytes /\ n \in Nat BY <1>1, TextFacts
<1> HIDE DEF n
<1>3. writeInt(n) \in Seq(Byte) /\ Len(writeInt(n)) = 2 BY <1>2, IntBytes
<1>4. At(buf, i, writeInt(n)) /\ At(buf, i + 2, Content(s)) BY <1>1, <1>2, <1>3, AtParts
<1>5. readInt(buf, i) = n /\ i \in Nat \ {0} BY <1>2, <1>4, IntAt
<1>6. AfterString(buf, i) = i + 2 + n BY <1>5 DEF AfterString
<1>7. SubSeq(buf, i + 2, (i + 2) + n - 1) = Content(s) BY <1>4, AtRead DEF n
<1>8. (i + 2) + n - 1 = AfterString(buf, i) - 1 BY <1>2, <1>5, <1>6
<1>9. readMQTTLenString(buf, i) = [cstring |-> NULL, data |-> Content(s)]
  BY <1>7, <1>8 DEF readMQTTLenString
<1>10. ASSUME NEW end \in Int PROVE StringFits(buf, i, end) <=> i + 2 + n <= end
  <2>1. StringFits(buf, i, end) <=> end - i > 1 /\ i + 2 + n <= end BY <1>5 DEF StringFits
  <2> QED BY <1>2, <1>5, <2>1
<1> QED BY <1>1, <1>5, <1>6, <1>9, <1>10

-----------------------------------------------------------------------------
(* The remaining length *)

LEMMA DigitsOf ==
    ASSUME NEW n \in Nat, n <= MaxLength
    PROVE  /\ Digits(n) \in 1..4
           /\ n < 128^Digits(n)
           /\ Digits(n) = 1 => n < 128
           /\ Digits(n) = 2 => n < 16384
           /\ Digits(n) = 3 => n < 2097152
           /\ n < 268435456
BY SMT DEF Digits, MaxLength

LEMMA Powers == 128^0 = 1 /\ 128^1 = 128 /\ 128^2 = 16384 /\ 128^3 = 2097152
BY SMT

\* the digits of a length, the lowest first
Digit(n, i) == (n \div 128^(i - 1)) % 128

LEMMA DigitType ==
    ASSUME NEW n \in Nat, NEW i \in 1..4
    PROVE  Digit(n, i) \in 0..127
<1>1. /\ (n \div 1) % 128 \in 0..127 /\ (n \div 128) % 128 \in 0..127
      /\ (n \div 16384) % 128 \in 0..127 /\ (n \div 2097152) % 128 \in 0..127
  BY SMT
<1>2. i = 1 \/ i = 2 \/ i = 3 \/ i = 4 BY SMT
<1> QED BY <1>1, <1>2, Powers, SMT DEF Digit

LEMMA EncodeFacts ==
    ASSUME NEW n \in Nat, n <= MaxLength
    PROVE  /\ MQTTPacket_encode(n) \in Seq(Byte)
           /\ Len(MQTTPacket_encode(n)) = Digits(n)
           /\ \A i \in 1..Digits(n) :
                 MQTTPacket_encode(n)[i] = Digit(n, i) + (IF i < Digits(n) THEN 128 ELSE 0)
<1>1. Digits(n) \in 1..4 BY DigitsOf
<1> DEFINE e(i) == Digit(n, i) + (IF i < Digits(n) THEN 128 ELSE 0)
<1>2. MQTTPacket_encode(n) = [i \in 1..Digits(n) |-> e(i)] BY DEF MQTTPacket_encode, Digit
<1>3. ASSUME NEW i \in 1..Digits(n) PROVE e(i) \in Byte
  <2>1. i \in 1..4 BY <1>1
  <2>2. Digit(n, i) \in 0..127 BY <2>1, DigitType
  <2>3. Digit(n, i) + 128 \in 0..255 /\ Digit(n, i) + 0 \in 0..255 BY <2>2
  <2> QED BY <2>3 DEF Byte
<1>4. PICK d \in 1..4 : d = Digits(n) BY <1>1
<1> HIDE DEF e
<1>5. [i \in 1..d |-> e(i)] \in Seq(Byte) /\ Len([i \in 1..d |-> e(i)]) = d BY <1>3, <1>4
<1>6. \A i \in 1..d : [j \in 1..d |-> e(j)][i] = e(i) OBVIOUS
<1> QED BY <1>2, <1>4, <1>5, <1>6 DEF e

LEMMA SumOfDigits ==
    ASSUME NEW n \in Nat, n <= MaxLength
    PROVE  /\ Digits(n) = 1 => n = Digit(n, 1) * 1
           /\ Digits(n) = 2 => n = Digit(n, 1) * 1 + Digit(n, 2) * 128
           /\ Digits(n) = 3 => n = Digit(n, 1) * 1 + Digit(n, 2) * 128 + Digit(n, 3) * 16384
           /\ Digits(n) = 4 => n = Digit(n, 1) * 1 + Digit(n, 2) * 128 + Digit(n, 3) * 16384
                                   + Digit(n, 4) * 2097152
<1>1. /\ n \div 128 \in Nat /\ n = 128 * (n \div 128) + (n % 128)
      /\ n \div 16384 \in Nat /\ n \div 128 = 128 * (n \div 16384) + ((n \div 128) % 128)
      /\ n \div 2097152 \in Nat
      /\ n \div 16384 = 128 * (n \div 2097152) + ((n \div 16384) % 128)
  BY SMT
<1>2. /\ Digit(n, 1) = n % 128 /\ Digit(n, 2) = (n \div 128) % 128
      /\ Digit(n, 3) = (n \div 16384) % 128 /\ Digit(n, 4) = (n \div 2097152) % 128
  BY Powers, SMT DEF Digit
<1>3. Digits(n) = 1 => n % 128 = n BY DigitsOf, SMT
<1>4. Digits(n) = 2 => (n \div 128) % 128 = n \div 128 BY DigitsOf, SMT
<1>5. Digits(n) = 3 => (n \div 16384) % 128 = n \div 16384 BY DigitsOf, SMT
<1>6. Digits(n) = 4 => (n \div 2097152) % 128 = n \div 2097152 BY DigitsOf, SMT
<1> QED BY <1>1, <1>2, <1>3, <1>4, <1>5, <1>6, SMT

\* the value of the digits up to the k-th that are read from place i on
Sums(f, buf, i) ==
    f = [k \in 0..4 |-> IF k = 0 THEN 0 ELSE f[k - 1] + (buf[i + k - 1] % 128) * 128^(k - 1)]

LEMMA SumsExist == ASSUME NEW buf, NEW i PROVE \E f : Sums(f, buf, i)
<1> DEFINE t(k) == (buf[i + k - 1] % 128) * 128^(k - 1)
           f == [k \in 0..4 |-> IF k = 0 THEN 0
                                ELSE IF k = 1 THEN 0 + t(1)
                                ELSE IF k = 2 THEN (0 + t(1)) + t(2)
                                ELSE IF k = 3 THEN ((0 + t(1)) + t(2)) + t(3)
                                ELSE (((0 + t(1)) + t(2)) + t(3)) + t(4)]
           g == [k \in 0..4 |-> IF k = 0 THEN 0 ELSE f[k - 1] + t(k)]
<1> HIDE DEF t
<1>1. ASSUME NEW k \in 0..4 PROVE f[k] = g[k]
  <2>1. k = 0 \/ k = 1 \/ k = 2 \/ k = 3 \/ k = 4 OBVIOUS
  <2> QED BY <2>1
<1>2. f = g BY <1>1
<1> HIDE DEF f
<1>3. f = [k \in 0..4 |-> IF k = 0 THEN 0 ELSE f[k - 1] + (buf[i + k - 1] % 128) * 128^(k - 1)]
  BY <1>2 DEF t
<1> QED BY <1>3 DEF Sums

LEMMA DecodeSums ==
    ASSUME NEW buf, NEW i
    PROVE  \E f : /\ Sums(f, buf, i)
                  /\ MQTTPacket_decodeBuf(buf, i)
                       = [len |-> IF LastDigit(buf, i) = {} THEN 5 ELSE Min(LastDigit(buf, i)),
                          value |-> f[IF LastDigit(buf, i) = {} THEN 4 ELSE Min(LastDigit(buf, i))]]
<1> DEFINE f == CHOOSE f : f = [k \in 0..4 |-> IF k = 0 THEN 0
                                 ELSE f[k - 1] + (buf[i + k - 1] % 128) * 128^(k - 1)]
           n == IF LastDigit(buf, i) = {} THEN 4 ELSE Min(LastDigit(buf, i))
<1>1. Sums(f, buf, i) BY SumsExist DEF Sums
<1>2. MQTTPacket_decodeBuf(buf, i) = [len |-> IF LastDigit(buf, i) = {} THEN 5 ELSE n, value |-> f[n]]
  BY DEF MQTTPacket_decodeBuf
<1> HIDE DEF f
<1>3. (IF LastDigit(buf, i) = {} THEN 5 ELSE n)
        = IF LastDigit(buf, i) = {} THEN 5 ELSE Min(LastDigit(buf, i))
  OBVIOUS
<1> QED BY <1>1, <1>2, <1>3

\* Whatever follows it in the buffer, a length is decoded to what was encoded.
LEMMA DecodeEncode ==
    ASSUME NEW n \in Nat, n <= MaxLength, NEW buf, NEW i, At(buf, i, MQTTPacket_encode(n))
    PROVE  MQTTPacket_decodeBuf(buf, i) = [len |-> Digits(n), value |-> n]
<1>1. PICK D \in 1..4 : D = Digits(n) BY DigitsOf
<1> DEFINE e == MQTTPacket_encode(n)
           d(k) == Digit(n, k)
<1>2. Len(e) = D /\ \A k \in 1..D : e[k] = d(k) + (IF k < D THEN 128 ELSE 0) BY <1>1, EncodeFacts
<1>3. \A k \in 1..4 : d(k) \in 0..127 BY DigitType
<1>4. \A k \in 1..D : buf[i + k - 1] = d(k) + (IF k < D THEN 128 ELSE 0) BY <1>2, AtByte
<1> HIDE DEF e, d
<1>5. \A k \in 1..D : k < D => buf[i + k - 1] >= 128 BY <1>3, <1>4
<1>6. buf[i + D - 1] < 128
  <2>1. D \in 1..D /\ ~(D < D) /\ D \in 1..4 OBVIOUS
  <2>2. buf[i + D - 1] = d(D) + 0 BY <1>4, <2>1
  <2> QED BY <1>3, <2>1, <2>2
<1>7. LastDigit(buf, i) = {D}
  <2>1. ASSUME NEW k \in 1..4, \A j \in 1..(k - 1) : buf[i + j - 1] >= 128, buf[i + k - 1] < 128
        PROVE  k = D
    <3>1. CASE k < D
      <4>1. k \in 1..D /\ k \in 1..4 BY <3>1
      <4>2. buf[i + k - 1] = d(k) + 128 BY <1>4, <3>1, <4>1
      <4> QED BY <1>3, <2>1, <4>1, <4>2
    <3>2. CASE k > D
      <4>1. D \in 1..(k - 1) /\ D \in 1..D /\ D \in 1..4 /\ ~(D < D) BY <3>2
      <4>2. buf[i + D - 1] >= 128 BY <2>1, <4>1
      <4>3. buf[i + D - 1] = d(D) + 0 BY <1>4, <4>1
      <4> QED BY <1>3, <4>1, <4>2, <4>3
    <3> QED BY <3>1, <3>2
  <2>2. \A j \in 1..(D - 1) : buf[i + j - 1] >= 128
    <3>1. \A j \in 1..(D - 1) : j \in 1..D /\ j < D OBVIOUS
    <3> QED BY <1>5, <3>1
  <2> QED BY <1>6, <2>1, <2>2 DEF LastDigit
<1>8. Min(LastDigit(buf, i)) = D /\ LastDigit(buf, i) # {}
  <2>1. Min({D, D}) = D BY MinOfTwo
  <2>2. {D, D} = {D} OBVIOUS
  <2> QED BY <1>7, <2>1, <2>2
<1>9. PICK f : /\ Sums(f, buf, i)
               /\ MQTTPacket_decodeBuf(buf, i) = [len |-> D, value |-> f[D]]
  BY <1>8, DecodeSums
<1>10. ASSUME NEW k \in 1..D
       PROVE  k \in 0..4 /\ k - 1 \in 0..4 /\ f[k] = f[k - 1] + d(k) * 128^(k - 1)
  <2>1. k \in 0..4 /\ k \in 1..4 /\ k # 0 /\ k - 1 \in 0..4 OBVIOUS
  <2>2. f[k] = f[k - 1] + (buf[i + k - 1] % 128) * 128^(k - 1) BY <1>9, <2>1 DEF Sums
  <2>3. buf[i + k - 1] % 128 = d(k)
    <3>1. d(k) \in 0..127 BY <1>3, <2>1
    <3>2. (d(k) + 128) % 128 = d(k) /\ (d(k) + 0) % 128 = d(k) BY <3>1
    <3> QED BY <1>4, <3>2
  <2> QED BY <2>1, <2>2, <2>3
<1>11. f[0] = 0 BY <1>9 DEF Sums
<1>12. D >= 1 => f[1] = d(1) * 1
  <2> HAVE D >= 1
  <2>1. 1 \in 1..D /\ 1 - 1 = 0 OBVIOUS
  <2>2. f[1] = f[0] + d(1) * 128^0 BY <1>10, <2>1
  <2> QED BY <1>3, <1>11, <2>2, Powers, SMT
<1>13. D >= 2 => f[2] = d(1) * 1 + d(2) * 128
  <2> HAVE D >= 2
  <2>1. 2 \in 1..D /\ 2 - 1 = 1 OBVIOUS
  <2>2. f[2] = f[1] + d(2) * 128^1 BY <1>10, <2>1
  <2> QED BY <1>3, <1>12, <2>2, Powers, SMT
<1>14. D >= 3 => f[3] = d(1) * 1 + d(2) * 128 + d(3) * 16384
  <2> HAVE D >= 3
  <2>1. 3 \in 1..D /\ 3 - 1 = 2 OBVIOUS
  <2>2. f[3] = f[2] + d(3) * 128^2 BY <1>10, <2>1
  <2> QED BY <1>3, <1>13, <2>2, Powers, SMT
<1>15. D >= 4 => f[4] = d(1) * 1 + d(2) * 128 + d(3) * 16384 + d(4) * 2097152
  <2> HAVE D >= 4
  <2>1. 4 \in 1..D /\ 4 - 1 = 3 OBVIOUS
  <2>2. f[4] = f[3] + d(4) * 128^3 BY <1>10, <2>1
  <2> QED BY <1>3, <1>14, <2>2, Powers, SMT
<1>16. f[D] = n
  <2>1. D = 1 \/ D = 2 \/ D = 3 \/ D = 4 OBVIOUS
  <2> QED BY <1>1, <1>12, <1>13, <1>14, <1>15, <2>1, SumOfDigits, SMT DEF d
<1> QED BY <1>1, <1>9, <1>16

-----------------------------------------------------------------------------
(* The header *)

LEMMA TypesDiffer ==
    /\ DOMAIN msgTypes = 1..14
    /\ \A i, j \in 1..14 : msgTypes[i] = msgTypes[j] => i = j
<1>1. DOMAIN msgTypes = 1..14 BY SMT DEF msgTypes
<1>2. ASSUME NEW i \in 1..14, NEW j \in 1..14, msgTypes[i] = msgTypes[j] PROVE i = j
  BY <1>2, SMT DEF msgTypes
<1> QED BY <1>1, <1>2

LEMMA TypeNumbers ==
    /\ msgTypes[1] = "CONNECT" /\ msgTypes[2] = "CONNACK" /\ msgTypes[3] = "PUBLISH"
    /\ msgTypes[4] = "PUBACK" /\ msgTypes[5] = "PUBREC" /\ msgTypes[6] = "PUBREL"
    /\ msgTypes[7] = "PUBCOMP" /\ msgTypes[8] = "SUBSCRIBE" /\ msgTypes[9] = "SUBACK"
    /\ msgTypes[10] = "UNSUBSCRIBE" /\ msgTypes[11] = "UNSUBACK" /\ msgTypes[12] = "PINGREQ"
    /\ msgTypes[13] = "PINGRESP" /\ msgTypes[14] = "DISCONNECT"
BY SMT DEF msgTypes

LEMMA HeaderBits ==
    ASSUME NEW n \in 1..14, NEW dup \in {0, 1}, NEW qos \in 0..3, NEW retain \in {0, 1},
           NEW h, h = 16 * n + 8 * dup + 2 * qos + retain
    PROVE  /\ h \in 0..255 /\ h \div 16 = n
           /\ (h \div 8) % 2 = dup /\ (h \div 2) % 4 = qos /\ h % 2 = retain
<1>1. h \in Nat /\ 8 * dup + 2 * qos + retain \in 0..15 OBVIOUS
<1>2. h \div 16 = n BY <1>1
<1>3. h \div 8 = 2 * n + dup BY <1>1
<1>4. h \div 2 = 8 * n + 4 * dup + qos BY <1>1
<1>5. h % 2 = retain BY <1>1
<1>6. (2 * n + dup) % 2 = dup OBVIOUS
<1>7. (8 * n + 4 * dup + qos) % 4 = qos OBVIOUS
<1> QED BY <1>1, <1>2, <1>3, <1>4, <1>5, <1>6, <1>7

LEMMA HeaderFacts ==
    ASSUME NEW n \in 1..14, NEW dup \in {0, 1}, NEW qos \in 0..3, NEW retain \in {0, 1},
           NEW h, h = Header(msgTypes[n], dup, qos, retain)
    PROVE  /\ h \in Byte /\ h \div 16 = n /\ typeOf(h) = msgTypes[n]
           /\ dupOf(h) = dup /\ qosOf(h) = qos /\ retainOf(h) = retain
<1>1. (CHOOSE i \in DOMAIN msgTypes : msgTypes[i] = msgTypes[n]) = n
  <2>1. \A i \in DOMAIN msgTypes : msgTypes[i] = msgTypes[n] <=> i = n BY TypesDiffer
  <2>2. n \in DOMAIN msgTypes BY TypesDiffer
  <2> QED BY <2>1, <2>2
<1>2. h = 16 * n + 8 * dup + 2 * qos + retain BY <1>1 DEF Header
<1>3. /\ h \in 0..255 /\ h \div 16 = n
      /\ (h \div 8) % 2 = dup /\ (h \div 2) % 4 = qos /\ h % 2 = retain
  BY <1>2, HeaderBits
<1> QED BY <1>3 DEF Byte, typeOf, dupOf, qosOf, retainOf

-----------------------------------------------------------------------------
(* A packet in a buffer *)

\* what MQTTPacket_len compares with is the length or one more
LEMMA LengthCompared ==
    ASSUME NEW n \in Nat
    PROVE  /\ MQTTPacket_len(n) >= 1 + Digits(n) + n
           /\ MQTTPacket_len(n) <= 1 + Digits(n) + n + 1
           /\ MQTTPacket_len(n) \in Nat
BY SMT DEF MQTTPacket_len, Digits

\* the bytes of a packet
Packet(header, body) == <<header>> \o MQTTPacket_encode(Len(body)) \o body

LEMMA PacketBytes ==
    ASSUME NEW header \in Byte, NEW body \in Seq(Byte), Len(body) <= MaxLength
    PROVE  /\ <<header>> \in Seq(Byte) /\ Len(<<header>>) = 1
           /\ MQTTPacket_encode(Len(body)) \in Seq(Byte)
           /\ Len(MQTTPacket_encode(Len(body))) = Digits(Len(body))
           /\ <<header>> \o MQTTPacket_encode(Len(body)) \in Seq(Byte)
           /\ Len(<<header>> \o MQTTPacket_encode(Len(body))) = 1 + Digits(Len(body))
           /\ Packet(header, body) \in Seq(Byte)
           /\ Len(Packet(header, body)) = 1 + Digits(Len(body)) + Len(body)
           /\ Digits(Len(body)) \in 1..4 /\ Len(body) \in Nat
<1>1. Len(body) \in Nat BY LenProperties
<1> DEFINE e == MQTTPacket_encode(Len(body))
           u == <<header>>
<1>2. e \in Seq(Byte) /\ Len(e) = Digits(Len(body)) /\ Digits(Len(body)) \in 1..4
  BY <1>1, EncodeFacts, DigitsOf
<1>3. u \in Seq(Byte) /\ Len(u) = 1 OBVIOUS
<1> HIDE DEF e, u
<1>4. u \o e \in Seq(Byte) /\ Len(u \o e) = Len(u) + Len(e) BY <1>2, <1>3, Joined
<1> DEFINE v == u \o e
<1>5. v \in Seq(Byte) /\ Len(v) = 1 + Digits(Len(body)) BY <1>2, <1>3, <1>4
<1> HIDE DEF v
<1>6. v \o body \in Seq(Byte) /\ Len(v \o body) = Len(v) + Len(body) BY <1>5, Joined
<1>7. v \o body = Packet(header, body) BY DEF v, e, u, Packet
<1> USE DEF u, e, v
<1> QED BY <1>1, <1>2, <1>3, <1>5, <1>6, <1>7

LEMMA SerializedFacts ==
    ASSUME NEW buf \in Seq(Byte), NEW fits \in BOOLEAN, NEW header \in Byte,
           NEW body \in Seq(Byte), Len(body) <= MaxLength,
           NEW s, s = Serialized(buf, fits, header, Len(body), body)
    PROVE  /\ s.buf \in Seq(Byte)
           /\ fits => /\ s.rc = Len(Packet(header, body)) /\ s.rc > 0
                      /\ At(s.buf, 1, Packet(header, body))
                      /\ Len(s.buf) = IF Len(buf) >= Len(Packet(header, body)) THEN Len(buf)
                                      ELSE Len(Packet(header, body))
           /\ ~fits => s.rc = -2 /\ s.buf = buf
           /\ s.rc \in Int
<1> DEFINE bytes == Packet(header, body)
<1>1. bytes \in Seq(Byte) /\ Len(bytes) \in Nat /\ Len(bytes) > 0 BY PacketBytes
<1>2. s = IF fits THEN [rc |-> Len(bytes), buf |-> Overlay(buf, bytes)]
          ELSE [rc |-> MQTTPACKET_BUFFER_TOO_SHORT, buf |-> buf]
  BY DEF Serialized, Packet
<1> HIDE DEF bytes
<1>3. CASE fits
  <2>1. s.rc = Len(bytes) /\ s.buf = Overlay(buf, bytes) BY <1>2, <1>3
  <2>2. /\ s.buf \in Seq(Byte) /\ At(s.buf, 1, bytes)
        /\ Len(s.buf) = IF Len(buf) >= Len(bytes) THEN Len(buf) ELSE Len(bytes)
    BY <1>1, <2>1, OverlayFacts
  <2>3. s.rc > 0 /\ s.rc \in Int BY <1>1, <2>1
  <2> QED BY <1>3, <2>1, <2>2, <2>3 DEF bytes
<1>4. CASE ~fits
  <2>1. s.rc = -2 /\ s.buf = buf BY <1>2, <1>4 DEF MQTTPACKET_BUFFER_TOO_SHORT
  <2> QED BY <1>4, <2>1
<1> QED BY <1>3, <1>4

\* where the parts of a packet are, in a buffer that starts with it
LEMMA PacketAt ==
    ASSUME NEW header \in Byte, NEW body \in Seq(Byte), Len(body) <= MaxLength,
           NEW buf, At(buf, 1, Packet(header, body))
    PROVE  /\ buf[1] = header
           /\ MQTTPacket_decodeBuf(buf, 2) = [len |-> Digits(Len(body)), value |-> Len(body)]
           /\ Start(buf) = 2 + Digits(Len(body)) /\ End(buf) = Start(buf) + Len(body)
           /\ At(buf, Start(buf), body)
           /\ At(buf, 1, <<header>> \o MQTTPacket_encode(Len(body)))
           /\ Start(buf) \in Nat \ {0} /\ End(buf) \in Nat
<1> DEFINE e == MQTTPacket_encode(Len(body))
           u == <<header>>
           v == u \o e
<1>1. /\ u \in Seq(Byte) /\ Len(u) = 1 /\ e \in Seq(Byte)
      /\ v \in Seq(Byte) /\ Len(v) = 1 + Digits(Len(body))
      /\ Digits(Len(body)) \in 1..4 /\ Len(body) \in Nat
  BY PacketBytes
<1>2. u[1] = header OBVIOUS
<1> HIDE DEF u, e
<1>3. Packet(header, body) = v \o body BY DEF Packet, u, e
<1> HIDE DEF v
<1>4. At(buf, 1, v) /\ At(buf, 1 + Len(v), body) BY <1>1, <1>3, AtParts
<1>5. At(buf, 1, u) /\ At(buf, 1 + Len(u), e) BY <1>1, <1>4, AtParts DEF v
<1>6. buf[1] = header
  <2>1. 1 \in 1..Len(u) /\ 1 + 1 - 1 = 1 BY <1>1
  <2>2. buf[1 + 1 - 1] = u[1] BY <1>5, <2>1, AtByte
  <2> QED BY <1>2, <2>1, <2>2
<1>7. At(buf, 2, e)
  <2>1. 1 + Len(u) = 2 BY <1>1
  <2> QED BY <1>5, <2>1
<1>8. MQTTPacket_decodeBuf(buf, 2) = [len |-> Digits(Len(body)), value |-> Len(body)]
  BY <1>1, <1>7, DecodeEncode DEF e
<1>9. Start(buf) = 2 + Digits(Len(body)) BY <1>8 DEF Start
<1>10. End(buf) = Start(buf) + Len(body) BY <1>8 DEF End
<1>11. 1 + Len(v) = Start(buf) BY <1>1, <1>9
<1>12. Start(buf) \in Nat \ {0} /\ End(buf) \in Nat BY <1>1, <1>9, <1>10
<1> QED BY <1>4, <1>6, <1>8, <1>9, <1>10, <1>11, <1>12 DEF v, u, e

LEMMA AtItself ==
    ASSUME NEW s \in Seq(Byte), s # <<>>
    PROVE  At(s, 1, s)
<1>1. Len(s) \in Nat \ {0} BY EmptySeq
<1>2. \A j \in 1..Len(s) : s[1 + j - 1] = s[j]
  <2>1. \A j \in 1..Len(s) : 1 + j - 1 = j OBVIOUS
  <2> QED BY <2>1
<1>3. 1 + Len(s) - 1 <= Len(s) BY <1>1
<1> QED BY <1>2, <1>3 DEF At

LEMMA ReadFacts ==
    ASSUME NEW buf \in Seq(Byte), Len(buf) >= 5,
           NEW header \in Byte, NEW body \in Seq(Byte), Len(body) <= MaxLength,
           NEW r, r = MQTTPacket_read(buf, Packet(header, body))
    PROVE  /\ r.buf \in Seq(Byte) /\ Len(r.buf) = Len(buf)
           /\ Len(Packet(header, body)) > Len(buf) => r.rc = -1
           /\ Len(Packet(header, body)) <= Len(buf) =>
                r.rc = header \div 16 /\ At(r.buf, 1, Packet(header, body))
<1> DEFINE p == Packet(header, body)
           start == <<header>> \o MQTTPacket_encode(Len(body))
<1>1. /\ p \in Seq(Byte) /\ Len(p) = 1 + Digits(Len(body)) + Len(body) /\ Len(body) \in Nat
      /\ Digits(Len(body)) \in 1..4
      /\ start \in Seq(Byte) /\ Len(start) = 1 + Digits(Len(body))
  BY PacketBytes
<1>0. p = start \o body BY DEF Packet
<1> HIDE DEF p, start
<1>2. At(p, 1, p)
  <2>1. Len(p) # 0 BY <1>1
  <2>2. p # <<>> BY <2>1, EmptyText
  <2> QED BY <1>1, <2>2, AtItself
<1>3. /\ p[1] = header
      /\ MQTTPacket_decodeBuf(p, 2) = [len |-> Digits(Len(body)), value |-> Len(body)]
      /\ Start(p) = 2 + Digits(Len(body)) /\ At(p, Start(p), body)
  BY <1>2, PacketAt DEF p
<1>4. SubSeq(p, Digits(Len(body)) + 2, Digits(Len(body)) + 1 + Len(body)) = body
  <2>1. SubSeq(p, Start(p), Start(p) + Len(body) - 1) = body BY <1>3, AtRead
  <2>2. /\ Digits(Len(body)) + 2 = Start(p)
        /\ Digits(Len(body)) + 1 + Len(body) = Start(p) + Len(body) - 1
    BY <1>1, <1>3
  <2> QED BY <2>1, <2>2
<1>5. r = IF Len(body) + Len(start) > Len(buf)
          THEN [rc |-> MQTTPACKET_READ_ERROR, buf |-> Overlay(buf, start)]
          ELSE [rc |-> header \div 16, buf |-> Overlay(buf, p)]
  <2> DEFINE d == MQTTPacket_decodeBuf(p, 2)
  <2>1. d.len = Digits(Len(body)) /\ d.value = Len(body) BY <1>3
  <2>2. r = IF d.value + Len(<<p[1]>> \o MQTTPacket_encode(d.value)) > Len(buf)
            THEN [rc |-> MQTTPACKET_READ_ERROR,
                  buf |-> Overlay(buf, <<p[1]>> \o MQTTPacket_encode(d.value))]
            ELSE [rc |-> p[1] \div 16,
                  buf |-> Overlay(buf, (<<p[1]>> \o MQTTPacket_encode(d.value))
                                         \o SubSeq(p, d.len + 2, d.len + 1 + d.value))]
    BY DEF MQTTPacket_read, p
  <2> HIDE DEF d
  <2>3. <<p[1]>> \o MQTTPacket_encode(d.value) = start BY <1>3, <2>1 DEF start
  <2>4. SubSeq(p, d.len + 2, d.len + 1 + d.value) = body BY <1>4, <2>1
  <2> QED BY <1>0, <1>3, <2>1, <2>2, <2>3, <2>4
<1>6. Len(body) + Len(start) = Len(p) BY <1>1
<1>7. Len(buf) \in Nat /\ Len(start) \in Nat /\ Len(p) \in Nat /\ Len(start) <= Len(buf)
  BY <1>1, LenProperties
<1>8. CASE Len(p) > Len(buf)
  <2>1. r.rc = -1 /\ r.buf = Overlay(buf, start) BY <1>5, <1>6, <1>8 DEF MQTTPACKET_READ_ERROR
  <2>2. r.buf \in Seq(Byte)
        /\ Len(r.buf) = IF Len(buf) >= Len(start) THEN Len(buf) ELSE Len(start)
    BY <1>1, <2>1, OverlayFacts
  <2>3. Len(r.buf) = Len(buf) /\ ~(Len(p) <= Len(buf)) BY <1>7, <1>8, <2>2
  <2> QED BY <2>1, <2>2, <2>3 DEF p
<1>9. CASE ~(Len(p) > Len(buf))
  <2>1. r.rc = header \div 16 /\ r.buf = Overlay(buf, p) BY <1>5, <1>6, <1>9
  <2>2. /\ r.buf \in Seq(Byte) /\ At(r.buf, 1, p)
        /\ Len(r.buf) = IF Len(buf) >= Len(p) THEN Len(buf) ELSE Len(p)
    BY <1>1, <2>1, OverlayFacts
  <2>3. Len(r.buf) = Len(buf) BY <1>7, <1>9, <2>2
  <2> QED BY <1>9, <2>1, <2>2, <2>3 DEF p
<1> QED BY <1>8, <1>9

-----------------------------------------------------------------------------
(* Pieces that follow one another *)

\* f counts the bytes before each piece of s and after the last
Counts(f, s) ==
    /\ f \in [0..Len(s) -> Nat]
    /\ \A k \in 1..Len(s) : f[k] = f[k - 1] + Len(s[k])

UpTo(s, k) == FlattenSeq([i \in 1..k |-> s[i]])

LEMMA UpToAll ==
    ASSUME NEW s \in Seq(Seq(Byte))
    PROVE  UpTo(s, Len(s)) = FlattenSeq(s)
<1>1. [i \in 1..Len(s) |-> s[i]] = s OBVIOUS
<1> QED BY <1>1 DEF UpTo

LEMMA UpToNone == ASSUME NEW s PROVE UpTo(s, 0) = <<>>
<1> DEFINE t == [i \in 1..0 |-> s[i]]
<1>1. t = <<>> OBVIOUS
<1>2. FlattenSeq(<<>>) = <<>> BY EmptyText DEF FlattenSeq
<1> QED BY <1>1, <1>2 DEF UpTo

LEMMA UpToNext ==
    ASSUME NEW s \in Seq(Seq(Byte)), NEW k \in Nat, k + 1 <= Len(s)
    PROVE  UpTo(s, k) \in Seq(Byte) /\ UpTo(s, k + 1) = UpTo(s, k) \o s[k + 1]
BY FlattenStep DEF UpTo

LEMMA PiecesLength ==
    ASSUME NEW s \in Seq(Seq(Byte)), NEW f, Counts(f, s)
    PROVE  \A k \in 0..Len(s) : UpTo(s, k) \in Seq(Byte) /\ Len(UpTo(s, k)) = f[k] - f[0]
<1> DEFINE S == {k \in Nat : k <= Len(s) =>
                   UpTo(s, k) \in Seq(Byte) /\ Len(UpTo(s, k)) = f[k] - f[0]}
<1>0. Len(s) \in Nat BY LenProperties
<1>1. 0 \in S
  <2>1. f[0] \in Nat BY <1>0 DEF Counts
  <2>2. f[0] - f[0] = 0 BY <2>1
  <2> QED BY <2>2, UpToNone, EmptyText
<1>2. ASSUME NEW k \in Nat, k \in S PROVE k + 1 \in S
  <2> SUFFICES ASSUME k + 1 <= Len(s)
               PROVE  UpTo(s, k + 1) \in Seq(Byte) /\ Len(UpTo(s, k + 1)) = f[k + 1] - f[0]
    OBVIOUS
  <2>1. k <= Len(s) /\ k + 1 \in 1..Len(s) /\ (k + 1) - 1 = k BY <1>0
  <2>2. UpTo(s, k) \in Seq(Byte) /\ Len(UpTo(s, k)) = f[k] - f[0] BY <1>2, <2>1
  <2>3. s[k + 1] \in Seq(Byte) BY <2>1, ElementOfSeq
  <2>4. UpTo(s, k + 1) = UpTo(s, k) \o s[k + 1] BY UpToNext
  <2>5. /\ UpTo(s, k) \o s[k + 1] \in Seq(Byte)
        /\ Len(UpTo(s, k) \o s[k + 1]) = Len(UpTo(s, k)) + Len(s[k + 1])
    BY <2>2, <2>3, Joined
  <2>6. f[k + 1] = f[k] + Len(s[k + 1]) BY <2>1 DEF Counts
  <2>7. f[0] \in Nat /\ f[k] \in Nat /\ Len(s[k + 1]) \in Nat
    <3>1. 0 \in 0..Len(s) /\ k \in 0..Len(s) BY <1>0, <2>1
    <3> QED BY <2>3, <3>1, LenProperties DEF Counts
  <2>8. Len(UpTo(s, k + 1)) = (f[k] - f[0]) + Len(s[k + 1]) BY <2>2, <2>4, <2>5
  <2>9. (f[k] - f[0]) + Len(s[k + 1]) = f[k + 1] - f[0] BY <2>6, <2>7
  <2> QED BY <2>4, <2>5, <2>8, <2>9
<1> HIDE DEF S
<1>3. Nat \subseteq S BY <1>1, <1>2, SetInduction
<1> QED BY <1>0, <1>3 DEF S

LEMMA PiecesAt ==
    ASSUME NEW s \in Seq(Seq(Byte)), NEW f, Counts(f, s),
           NEW buf, NEW i, At(buf, i, FlattenSeq(s))
    PROVE  \A k \in 1..Len(s) : At(buf, i + (f[k - 1] - f[0]), s[k])
<1> DEFINE S == {d \in Nat : d <= Len(s) => At(buf, i, UpTo(s, Len(s) - d))}
<1>0. Len(s) \in Nat BY LenProperties
<1>1. 0 \in S
  <2>1. Len(s) - 0 = Len(s) BY <1>0
  <2> QED BY <2>1, UpToAll
<1>2. ASSUME NEW d \in Nat, d \in S PROVE d + 1 \in S
  <2> SUFFICES ASSUME d + 1 <= Len(s) PROVE At(buf, i, UpTo(s, Len(s) - (d + 1))) OBVIOUS
  <2> DEFINE k == Len(s) - (d + 1)
  <2>1. k \in Nat /\ k + 1 <= Len(s) /\ Len(s) - d = k + 1 /\ d <= Len(s) /\ k + 1 \in 1..Len(s)
    BY <1>0
  <2> HIDE DEF k
  <2>2. At(buf, i, UpTo(s, k + 1)) BY <1>2, <2>1
  <2>3. UpTo(s, k) \in Seq(Byte) /\ UpTo(s, k + 1) = UpTo(s, k) \o s[k + 1] BY <2>1, UpToNext
  <2>4. s[k + 1] \in Seq(Byte) BY <2>1, ElementOfSeq
  <2>5. At(buf, i, UpTo(s, k)) BY <2>2, <2>3, <2>4, AtParts
  <2> QED BY <2>5 DEF k
<1> HIDE DEF S
<1>3. Nat \subseteq S BY <1>1, <1>2, SetInduction
<1>4. ASSUME NEW k \in 1..Len(s) PROVE At(buf, i + (f[k - 1] - f[0]), s[k])
  <2>1. k - 1 \in Nat /\ (k - 1) + 1 = k /\ k <= Len(s) /\ k - 1 \in 0..Len(s)
        /\ Len(s) - k \in Nat /\ Len(s) - (Len(s) - k) = k /\ Len(s) - k <= Len(s)
    BY <1>0
  <2>2. Len(s) - k \in S BY <1>3, <2>1
  <2>3. At(buf, i, UpTo(s, k)) BY <2>1, <2>2 DEF S
  <2>4. UpTo(s, k - 1) \in Seq(Byte) /\ UpTo(s, k) = UpTo(s, k - 1) \o s[k]
    <3>1. (k - 1) + 1 <= Len(s) BY <2>1
    <3>2. UpTo(s, (k - 1) + 1) = UpTo(s, k - 1) \o s[(k - 1) + 1] /\ UpTo(s, k - 1) \in Seq(Byte)
      BY <2>1, <3>1, UpToNext
    <3> QED BY <2>1, <3>2
  <2>5. s[k] \in Seq(Byte) BY ElementOfSeq
  <2>6. At(buf, i + Len(UpTo(s, k - 1)), s[k]) BY <2>3, <2>4, <2>5, AtParts
  <2>7. Len(UpTo(s, k - 1)) = f[k - 1] - f[0] BY <2>1, PiecesLength
  <2> QED BY <2>6, <2>7
<1> QED BY <1>4

\* what FiltersLength counts, when every filter takes `extra' bytes besides its string
LEMMA FilterCounts ==
    ASSUME NEW p, p.topicFilters \in Seq(String), NEW extra \in {0, 1},
           NEW s \in Seq(Seq(Byte)), Len(s) = Len(p.topicFilters),
           \A k \in 1..Len(s) : Len(s[k]) = 2 + MQTTstrlen(p.topicFilters[k]) + extra
    PROVE  \E f : Counts(f, s) /\ f[0] = 2 /\ FiltersLength(p, extra) = f[Len(s)]
<1> DEFINE n == Len(s)
           m(k) == MQTTstrlen(p.topicFilters[k])
           t == [k \in 1..n |-> Len(s[k])]
           g == CHOOSE u : u = [i \in 0..n |-> IF i = 0 THEN 2 ELSE u[i - 1] + 2 + m(i) + extra]
<1>0. n \in Nat BY LenProperties
<1>1. ASSUME NEW k \in 1..n PROVE m(k) \in Nat /\ t[k] = 2 + m(k) + extra
  <2>1. p.topicFilters[k] \in String BY ElementOfSeq
  <2> QED BY <2>1, StringBytesFacts
<1>2. t \in [1..n -> Nat]
  <2>1. \A k \in 1..n : Len(s[k]) \in Nat
    <3>1. \A k \in 1..n : s[k] \in Seq(Byte) BY ElementOfSeq
    <3> QED BY <3>1, LenProperties
  <2> QED BY <2>1
<1>3. FiltersLength(p, extra) = g[n] BY DEF FiltersLength
<1> HIDE DEF m, g
<1>4. \A k \in 1..n : t[k] = Len(s[k]) OBVIOUS
<1> HIDE DEF t, n
<1>5. PICK f \in [0..n -> Nat] : f[0] = 2 /\ \A k \in 1..n : f[k] = f[k - 1] + t[k]
  <2>1. 2 \in Nat OBVIOUS
  <2> QED BY <1>0, <1>2, <2>1, SumExists
<1>6. f = [i \in 0..n |-> IF i = 0 THEN 2 ELSE f[i - 1] + 2 + m(i) + extra]
  <2>1. ASSUME NEW i \in 0..n PROVE f[i] = IF i = 0 THEN 2 ELSE f[i - 1] + 2 + m(i) + extra
    <3>1. CASE i = 0 BY <1>5, <3>1
    <3>2. CASE i # 0
      <4>1. i \in 1..n /\ i - 1 \in 0..n BY <1>0, <3>2
      <4>2. f[i - 1] \in Nat /\ f[i] = f[i - 1] + t[i] BY <1>5, <4>1
      <4>3. m(i) \in Nat /\ t[i] = 2 + m(i) + extra BY <1>1, <4>1
      <4>4. f[i] = f[i - 1] + 2 + m(i) + extra BY <4>2, <4>3
      <4> QED BY <3>2, <4>4
    <3> QED BY <3>1, <3>2
  <2> QED BY <2>1
<1>7. g = [i \in 0..n |-> IF i = 0 THEN 2 ELSE g[i - 1] + 2 + m(i) + extra] BY <1>6 DEF g
<1>8. \A k \in 0..n : g[k] = f[k]
  <2> DEFINE S == {k \in Nat : k <= n => g[k] = f[k]}
  <2>1. 0 \in S
    <3>1. 0 \in 0..n BY <1>0
    <3> QED BY <1>5, <1>7, <3>1
  <2>2. ASSUME NEW k \in Nat, k \in S PROVE k + 1 \in S
    <3> SUFFICES ASSUME k + 1 <= n PROVE g[k + 1] = f[k + 1] OBVIOUS
    <3>1. k + 1 \in 0..n /\ k + 1 # 0 /\ (k + 1) - 1 = k /\ k <= n BY <1>0
    <3>2. g[k + 1] = g[k] + 2 + m(k + 1) + extra BY <1>7, <3>1
    <3>3. f[k + 1] = f[k] + 2 + m(k + 1) + extra BY <1>6, <3>1
    <3> QED BY <2>2, <3>1, <3>2, <3>3
  <2> HIDE DEF S
  <2>3. Nat \subseteq S BY <2>1, <2>2, SetInduction
  <2> QED BY <1>0, <2>3 DEF S
<1>9. FiltersLength(p, extra) = f[n]
  <2>1. n \in 0..n BY <1>0
  <2> QED BY <1>3, <1>8, <2>1
<1>10. Counts(f, s) BY <1>4, <1>5 DEF Counts, n
<1> QED BY <1>5, <1>9, <1>10 DEF n

-----------------------------------------------------------------------------
(* The packets and what is written for them *)

ConnectBody(p) ==
    LET name == IF p.MQTTVersion = 4 THEN Protocol.MQTT ELSE Protocol.MQIsdp
    IN writeInt(Len(name)) \o name
         \o <<IF p.MQTTVersion = 4 THEN 4 ELSE 3, MQTTConnectFlags(p)>>
         \o writeInt(p.keepAliveInterval) \o writeMQTTString(p.clientID)
         \o StringBytes(p.willFlag, p.will.topicName) \o StringBytes(p.willFlag, p.will.message)
         \o StringBytes(IsGiven(p.username), p.username)
         \o StringBytes(IsGiven(p.password), p.password)

PublishBody(p) ==
    writeMQTTString(p.topicName) \o (IF p.qos > 0 THEN writeInt(p.packetid) ELSE <<>>) \o p.payload

SubscribeFilters(p) ==
    [i \in DOMAIN p.topicFilters |-> writeMQTTString(p.topicFilters[i]) \o <<p.requestedQoSs[i]>>]
UnsubscribeFilters(p) == [i \in DOMAIN p.topicFilters |-> writeMQTTString(p.topicFilters[i])]

Body(p) ==
    CASE p.type = "CONNECT"     -> ConnectBody(p)
      [] p.type = "CONNACK"     -> <<p.sessionPresent, p.connack_rc>>
      [] p.type = "PUBLISH"     -> PublishBody(p)
      [] p.type = "SUBSCRIBE"   -> writeInt(p.packetid) \o FlattenSeq(SubscribeFilters(p))
      [] p.type = "UNSUBSCRIBE" -> writeInt(p.packetid) \o FlattenSeq(UnsubscribeFilters(p))
      [] p.type = "SUBACK"      -> writeInt(p.packetid) \o p.grantedQoSs
      [] p.type \in {"PINGREQ", "PINGRESP", "DISCONNECT"} -> <<>>
      [] OTHER -> writeInt(p.packetid)

HeaderOf(p) ==
    CASE p.type = "PUBLISH" -> Header(p.type, p.dup, p.qos, p.retained)
      [] p.type \in {"SUBSCRIBE", "UNSUBSCRIBE", "PUBREL"} -> Header(p.type, p.dup, 1, 0)
      [] p.type \in {"PUBACK", "PUBREC", "PUBCOMP"} -> Header(p.type, p.dup, 0, 0)
      [] OTHER -> Header(p.type, 0, 0, 0)

Wire(p) == Packet(HeaderOf(p), Body(p))

(***************************************************************************)
(* The serializer writes this, all of it or nothing; a client's only if it *)
(* fits; and any only refuses what would fill the buffer.                  *)
(***************************************************************************)
Serializes(p) ==
    /\ HeaderOf(p) \in Byte /\ HeaderOf(p) \div 16 \in 1..14 /\ typeOf(HeaderOf(p)) = p.type
    /\ Body(p) \in Seq(Byte) /\ Len(Body(p)) = BodyLength(p)
    /\ \A buf \in Seq(Byte) : \E fits \in BOOLEAN :
         /\ Serialize(buf, p) = Serialized(buf, fits, HeaderOf(p), Len(Body(p)), Body(p))
         /\ fits /\ p.type \in MaySend.client => WireLength(p) <= Len(buf)
         /\ ~fits => WireLength(p) >= Len(buf)

LEMMA Kinds ==
    ASSUME NEW p \in Packets
    PROVE  /\ \/ p \in ConnectPackets \/ p \in ConnackPackets \/ p \in PublishPackets
              \/ p \in AckPackets \/ p \in SubscribePackets \/ p \in SubackPackets
              \/ p \in UnsubscribePackets \/ p \in UnsubackPackets \/ p \in ZeroPackets
           /\ BodyLength(p) <= MaxLength
           /\ p.type = "SUBSCRIBE" => Len(p.requestedQoSs) = Len(p.topicFilters)
           /\ p # NULL
BY PacketAssumption

\* the sizes that the serializers with MQTTPacket_len and those of four bytes compare
LEMMA Compared ==
    ASSUME NEW p, NEW n \in Nat, BodyLength(p) = n, NEW buf \in Seq(Byte)
    PROVE  /\ WireLength(p) = 1 + Digits(n) + n /\ WireLength(p) \in Nat
           /\ MQTTPacket_len(n) <= Len(buf) => WireLength(p) <= Len(buf)
           /\ ~(MQTTPacket_len(n) <= Len(buf)) => WireLength(p) >= Len(buf)
           /\ n = 2 => WireLength(p) = 4
           /\ n = 0 => WireLength(p) = 2
<1>1. WireLength(p) = 1 + Digits(n) + n BY DEF WireLength
<1>2. Digits(n) \in Nat /\ (n = 2 => Digits(n) = 1) /\ (n = 0 => Digits(n) = 1) BY SMT DEF Digits
<1>3. /\ MQTTPacket_len(n) >= 1 + Digits(n) + n /\ MQTTPacket_len(n) <= 1 + Digits(n) + n + 1
      /\ MQTTPacket_len(n) \in Nat
  BY LengthCompared
<1>4. Len(buf) \in Nat BY LenProperties
<1> QED BY <1>1, <1>2, <1>3, <1>4

LEMMA PublishIsWritten ==
    ASSUME NEW p \in PublishPackets
    PROVE  Serializes(p)
<1>1. /\ p.type = "PUBLISH" /\ p.dup \in {0, 1} /\ p.qos \in 0..3 /\ p.retained \in {0, 1}
      /\ p.packetid \in TwoBytes /\ p.topicName \in String /\ p.payload \in Seq(Byte)
  BY DEF PublishPackets, Flag
<1>2. HeaderOf(p) = Header(msgTypes[3], p.dup, p.qos, p.retained)
  BY <1>1, TypeNumbers DEF HeaderOf
<1>3. HeaderOf(p) \in Byte /\ HeaderOf(p) \div 16 = 3 /\ typeOf(HeaderOf(p)) = msgTypes[3]
  <2>1. 3 \in 1..14 OBVIOUS
  <2> QED BY <1>1, <1>2, <2>1, HeaderFacts
<1> DEFINE t == writeMQTTString(p.topicName)
           i == IF p.qos > 0 THEN writeInt(p.packetid) ELSE <<>>
           k == IF p.qos > 0 THEN 2 ELSE 0
<1>4. t \in Seq(Byte) /\ Len(t) = 2 + MQTTstrlen(p.topicName) /\ MQTTstrlen(p.topicName) \in Nat
  BY <1>1, StringBytesFacts
<1>5. i \in Seq(Byte) /\ Len(i) = k BY <1>1, IntBytes, EmptyText
<1>6. Body(p) = t \o i \o p.payload BY <1>1 DEF Body, PublishBody
<1>7. BodyLength(p) = MQTTSerialize_publishLength(p) BY <1>1 DEF BodyLength
<1>8. MQTTSerialize_publishLength(p) = 2 + MQTTstrlen(p.topicName) + Len(p.payload) + k
  BY DEF MQTTSerialize_publishLength
<1>9. k \in Nat OBVIOUS
<1> HIDE DEF t, i, k
<1>10. t \o i \in Seq(Byte) /\ Len(t \o i) = Len(t) + Len(i) BY <1>4, <1>5, Joined
<1>11. /\ (t \o i) \o p.payload \in Seq(Byte)
       /\ Len((t \o i) \o p.payload) = Len(t \o i) + Len(p.payload)
  BY <1>1, <1>10, Joined
<1>12. Len(p.payload) \in Nat BY <1>1, LenProperties
<1>13. Body(p) \in Seq(Byte) /\ Len(Body(p)) = BodyLength(p) /\ BodyLength(p) \in Nat
  BY <1>4, <1>5, <1>6, <1>7, <1>8, <1>9, <1>10, <1>11, <1>12
<1>14. ASSUME NEW buf \in Seq(Byte)
       PROVE  \E fits \in BOOLEAN :
                /\ Serialize(buf, p) = Serialized(buf, fits, HeaderOf(p), Len(Body(p)), Body(p))
                /\ fits /\ p.type \in MaySend.client => WireLength(p) <= Len(buf)
                /\ ~fits => WireLength(p) >= Len(buf)
  <2> DEFINE n == BodyLength(p)
             fits == MQTTPacket_len(n) <= Len(buf)
  <2>1. Serialize(buf, p) = MQTTSerialize_publish(buf, p) BY <1>1 DEF Serialize
  <2>2. MQTTSerialize_publish(buf, p) = Serialized(buf, fits, HeaderOf(p), n, Body(p))
    BY <1>1, <1>6, <1>7, <1>2, TypeNumbers DEF MQTTSerialize_publish, t, i
  <2>3. fits \in BOOLEAN OBVIOUS
  <2>4. (fits => WireLength(p) <= Len(buf)) /\ (~fits => WireLength(p) >= Len(buf))
    BY <1>13, Compared
  <2> HIDE DEF fits
  <2> QED BY <1>13, <2>1, <2>2, <2>3, <2>4
<1> QED BY <1>1, <1>3, <1>13, <1>14, TypeNumbers DEF Serializes

LEMMA AckIsWritten ==
    ASSUME NEW p \in AckPackets
    PROVE  Serializes(p)
<1>1. /\ p.type \in {"PUBACK", "PUBREC", "PUBREL", "PUBCOMP"} /\ p.dup \in {0, 1}
      /\ p.packetid \in TwoBytes
  BY DEF AckPackets, Flag
<1> DEFINE q == IF p.type = "PUBREL" THEN 1 ELSE 0
<1>2. PICK m \in 1..14 : p.type = msgTypes[m]
  <2>1. 4 \in 1..14 /\ 5 \in 1..14 /\ 6 \in 1..14 /\ 7 \in 1..14 OBVIOUS
  <2> QED BY <1>1, <2>1, TypeNumbers
<1>3. HeaderOf(p) = Header(p.type, p.dup, q, 0) BY <1>1 DEF HeaderOf
<1>4. HeaderOf(p) \in Byte /\ HeaderOf(p) \div 16 = m /\ typeOf(HeaderOf(p)) = msgTypes[m]
  <2>1. q \in 0..3 /\ 0 \in {0, 1} OBVIOUS
  <2>2. HeaderOf(p) = Header(msgTypes[m], p.dup, q, 0) BY <1>2, <1>3
  <2> HIDE DEF q
  <2> QED BY <1>1, <2>1, <2>2, HeaderFacts
<1>5. Body(p) = writeInt(p.packetid) /\ BodyLength(p) = 2 BY <1>1 DEF Body, BodyLength
<1>6. Body(p) \in Seq(Byte) /\ Len(Body(p)) = 2 BY <1>1, <1>5, IntBytes
<1>7. ASSUME NEW buf \in Seq(Byte)
      PROVE  \E fits \in BOOLEAN :
                /\ Serialize(buf, p) = Serialized(buf, fits, HeaderOf(p), Len(Body(p)), Body(p))
                /\ fits /\ p.type \in MaySend.client => WireLength(p) <= Len(buf)
                /\ ~fits => WireLength(p) >= Len(buf)
  <2> DEFINE fits == Len(buf) >= 4
  <2>1. Serialize(buf, p) = MQTTSerialize_ack(buf, p) BY <1>1 DEF Serialize
  <2>2. MQTTSerialize_ack(buf, p) = Serialized(buf, fits, HeaderOf(p), 2, Body(p))
    BY <1>3, <1>5 DEF MQTTSerialize_ack
  <2>3. WireLength(p) = 4 BY <1>5, Compared
  <2>4. Len(buf) \in Nat BY LenProperties
  <2>5. fits \in BOOLEAN /\ (fits => WireLength(p) <= Len(buf)) /\ (~fits => WireLength(p) >= Len(buf))
    BY <2>3, <2>4
  <2> HIDE DEF fits
  <2> QED BY <1>6, <2>1, <2>2, <2>5
<1> QED BY <1>2, <1>4, <1>5, <1>6, <1>7 DEF Serializes

LEMMA ZeroIsWritten ==
    ASSUME NEW p \in ZeroPackets
    PROVE  Serializes(p)
<1>1. p.type \in {"PINGREQ", "PINGRESP", "DISCONNECT"} BY DEF ZeroPackets
<1>2. PICK m \in 1..14 : p.type = msgTypes[m]
  <2>1. 12 \in 1..14 /\ 13 \in 1..14 /\ 14 \in 1..14 OBVIOUS
  <2> QED BY <1>1, <2>1, TypeNumbers
<1>3. HeaderOf(p) = Header(p.type, 0, 0, 0) BY <1>1 DEF HeaderOf
<1>4. HeaderOf(p) \in Byte /\ HeaderOf(p) \div 16 = m /\ typeOf(HeaderOf(p)) = msgTypes[m]
  <2>1. 0 \in 0..3 /\ 0 \in {0, 1} OBVIOUS
  <2>2. HeaderOf(p) = Header(msgTypes[m], 0, 0, 0) BY <1>2, <1>3
  <2> QED BY <2>1, <2>2, HeaderFacts
<1>5. Body(p) = <<>> /\ BodyLength(p) = 0 BY <1>1 DEF Body, BodyLength
<1>6. Body(p) \in Seq(Byte) /\ Len(Body(p)) = 0 BY <1>5, EmptyText
<1>7. ASSUME NEW buf \in Seq(Byte)
      PROVE  \E fits \in BOOLEAN :
                /\ Serialize(buf, p) = Serialized(buf, fits, HeaderOf(p), Len(Body(p)), Body(p))
                /\ fits /\ p.type \in MaySend.client => WireLength(p) <= Len(buf)
                /\ ~fits => WireLength(p) >= Len(buf)
  <2> DEFINE fits == Len(buf) >= 2
  <2>1. Serialize(buf, p) = MQTTSerialize_zero(buf, p) BY <1>1 DEF Serialize
  <2>2. MQTTSerialize_zero(buf, p) = Serialized(buf, fits, HeaderOf(p), 0, Body(p))
    BY <1>3, <1>5 DEF MQTTSerialize_zero
  <2>3. WireLength(p) = 2 BY <1>5, Compared
  <2>4. Len(buf) \in Nat BY LenProperties
  <2>5. fits \in BOOLEAN /\ (fits => WireLength(p) <= Len(buf)) /\ (~fits => WireLength(p) >= Len(buf))
    BY <2>3, <2>4
  <2> HIDE DEF fits
  <2> QED BY <1>6, <2>1, <2>2, <2>5
<1> QED BY <1>2, <1>4, <1>5, <1>6, <1>7 DEF Serializes

\* The header of CONNECT and of the server's own packets is the type alone.
LEMMA PlainHeader ==
    ASSUME NEW p, NEW m \in 1..14, p.type = msgTypes[m],
           p.type \in {"CONNECT", "CONNACK", "SUBACK", "UNSUBACK"}
    PROVE  /\ HeaderOf(p) = Header(p.type, 0, 0, 0) /\ HeaderOf(p) \in Byte
           /\ HeaderOf(p) \div 16 = m /\ typeOf(HeaderOf(p)) = p.type
<1>1. HeaderOf(p) = Header(p.type, 0, 0, 0) BY DEF HeaderOf
<1>2. 0 \in 0..3 /\ 0 \in {0, 1} OBVIOUS
<1>3. HeaderOf(p) = Header(msgTypes[m], 0, 0, 0) BY <1>1
<1> QED BY <1>1, <1>2, <1>3, HeaderFacts

LEMMA ServerTypes == \A t \in {"CONNACK", "SUBACK", "UNSUBACK"} : t \notin MaySend.client
BY DEF MaySend

LEMMA ConnackIsWritten ==
    ASSUME NEW p \in ConnackPackets
    PROVE  Serializes(p)
<1>1. p.type = "CONNACK" /\ p.sessionPresent \in {0, 1} /\ p.connack_rc \in Byte
  BY DEF ConnackPackets, Flag
<1>2. /\ HeaderOf(p) = Header(p.type, 0, 0, 0) /\ HeaderOf(p) \in Byte
      /\ HeaderOf(p) \div 16 = 2 /\ typeOf(HeaderOf(p)) = p.type
  <2>1. 2 \in 1..14 OBVIOUS
  <2> QED BY <1>1, <2>1, TypeNumbers, PlainHeader
<1>3. Body(p) = <<p.sessionPresent, p.connack_rc>> /\ BodyLength(p) = 2
  BY <1>1 DEF Body, BodyLength
<1>4. Body(p) \in Seq(Byte) /\ Len(Body(p)) = 2
  <2>1. p.sessionPresent \in Byte BY <1>1 DEF Byte
  <2> QED BY <1>1, <1>3, <2>1
<1>5. ASSUME NEW buf \in Seq(Byte)
      PROVE  \E fits \in BOOLEAN :
                /\ Serialize(buf, p) = Serialized(buf, fits, HeaderOf(p), Len(Body(p)), Body(p))
                /\ fits /\ p.type \in MaySend.client => WireLength(p) <= Len(buf)
                /\ ~fits => WireLength(p) >= Len(buf)
  <2> DEFINE fits == Len(buf) >= 2
  <2>1. Serialize(buf, p) = MQTTSerialize_connack(buf, p) BY <1>1 DEF Serialize
  <2>2. MQTTSerialize_connack(buf, p) = Serialized(buf, fits, HeaderOf(p), 2, Body(p))
    BY <1>1, <1>2, <1>3 DEF MQTTSerialize_connack
  <2>3. WireLength(p) = 4 BY <1>3, Compared
  <2>4. Len(buf) \in Nat BY LenProperties
  <2>5. fits \in BOOLEAN /\ (~fits => WireLength(p) >= Len(buf)) BY <2>3, <2>4
  <2>6. p.type \notin MaySend.client BY <1>1, ServerTypes
  <2> HIDE DEF fits
  <2> QED BY <1>4, <2>1, <2>2, <2>5, <2>6
<1> QED BY <1>2, <1>3, <1>4, <1>5 DEF Serializes

LEMMA UnsubackIsWritten ==
    ASSUME NEW p \in UnsubackPackets
    PROVE  Serializes(p)
<1>1. p.type = "UNSUBACK" /\ p.packetid \in TwoBytes BY DEF UnsubackPackets
<1>2. /\ HeaderOf(p) = Header(p.type, 0, 0, 0) /\ HeaderOf(p) \in Byte
      /\ HeaderOf(p) \div 16 = 11 /\ typeOf(HeaderOf(p)) = p.type
  <2>1. 11 \in 1..14 OBVIOUS
  <2> QED BY <1>1, <2>1, TypeNumbers, PlainHeader
<1>3. Body(p) = writeInt(p.packetid) /\ BodyLength(p) = 2 BY <1>1 DEF Body, BodyLength
<1>4. Body(p) \in Seq(Byte) /\ Len(Body(p)) = 2 BY <1>1, <1>3, IntBytes
<1>5. ASSUME NEW buf \in Seq(Byte)
      PROVE  \E fits \in BOOLEAN :
                /\ Serialize(buf, p) = Serialized(buf, fits, HeaderOf(p), Len(Body(p)), Body(p))
                /\ fits /\ p.type \in MaySend.client => WireLength(p) <= Len(buf)
                /\ ~fits => WireLength(p) >= Len(buf)
  <2> DEFINE fits == Len(buf) >= 2
  <2>1. Serialize(buf, p) = MQTTSerialize_unsuback(buf, p) BY <1>1 DEF Serialize
  <2>2. MQTTSerialize_unsuback(buf, p) = Serialized(buf, fits, HeaderOf(p), 2, Body(p))
    BY <1>1, <1>2, <1>3 DEF MQTTSerialize_unsuback
  <2>3. WireLength(p) = 4 BY <1>3, Compared
  <2>4. Len(buf) \in Nat BY LenProperties
  <2>5. fits \in BOOLEAN /\ (~fits => WireLength(p) >= Len(buf)) BY <2>3, <2>4
  <2>6. p.type \notin MaySend.client BY <1>1, ServerTypes
  <2> HIDE DEF fits
  <2> QED BY <1>4, <2>1, <2>2, <2>5, <2>6
<1> QED BY <1>2, <1>3, <1>4, <1>5 DEF Serializes

LEMMA SubackIsWritten ==
    ASSUME NEW p \in SubackPackets
    PROVE  Serializes(p)
<1>1. p.type = "SUBACK" /\ p.packetid \in TwoBytes /\ p.grantedQoSs \in Seq(Byte)
  BY DEF SubackPackets
<1>2. /\ HeaderOf(p) = Header(p.type, 0, 0, 0) /\ HeaderOf(p) \in Byte
      /\ HeaderOf(p) \div 16 = 9 /\ typeOf(HeaderOf(p)) = p.type
  <2>1. 9 \in 1..14 OBVIOUS
  <2> QED BY <1>1, <2>1, TypeNumbers, PlainHeader
<1> DEFINE n == Len(p.grantedQoSs)
<1>3. Body(p) = writeInt(p.packetid) \o p.grantedQoSs /\ BodyLength(p) = 2 + n
  BY <1>1 DEF Body, BodyLength
<1>4. n \in Nat BY <1>1, LenProperties
<1>5. writeInt(p.packetid) \in Seq(Byte) /\ Len(writeInt(p.packetid)) = 2 BY <1>1, IntBytes
<1>6. Body(p) \in Seq(Byte) /\ Len(Body(p)) = 2 + n
  <2>1. /\ writeInt(p.packetid) \o p.grantedQoSs \in Seq(Byte)
        /\ Len(writeInt(p.packetid) \o p.grantedQoSs) = Len(writeInt(p.packetid)) + n
    BY <1>1, <1>5, Joined
  <2> QED BY <1>3, <1>5, <2>1
<1>7. ASSUME NEW buf \in Seq(Byte)
      PROVE  \E fits \in BOOLEAN :
                /\ Serialize(buf, p) = Serialized(buf, fits, HeaderOf(p), Len(Body(p)), Body(p))
                /\ fits /\ p.type \in MaySend.client => WireLength(p) <= Len(buf)
                /\ ~fits => WireLength(p) >= Len(buf)
  <2> DEFINE fits == Len(buf) >= 2 + n
  <2>1. Serialize(buf, p) = MQTTSerialize_suback(buf, p) BY <1>1 DEF Serialize
  <2>2. MQTTSerialize_suback(buf, p) = Serialized(buf, fits, HeaderOf(p), 2 + n, Body(p))
    BY <1>1, <1>2, <1>3 DEF MQTTSerialize_suback
  <2>3. WireLength(p) = 1 + Digits(2 + n) + (2 + n) BY <1>3 DEF WireLength
  <2>4. Digits(2 + n) \in 1..4 BY <1>4, SMT DEF Digits
  <2>5. Len(buf) \in Nat BY LenProperties
  <2>6. fits \in BOOLEAN /\ (~fits => WireLength(p) >= Len(buf)) BY <1>4, <2>3, <2>4, <2>5
  <2>7. p.type \notin MaySend.client BY <1>1, ServerTypes
  <2> HIDE DEF fits
  <2> QED BY <1>6, <2>1, <2>2, <2>6, <2>7
<1> QED BY <1>2, <1>3, <1>6, <1>7 DEF Serializes

LEMMA SubscribePieces ==
    ASSUME NEW p \in SubscribePackets, Len(p.requestedQoSs) = Len(p.topicFilters)
    PROVE  /\ SubscribeFilters(p) \in Seq(Seq(Byte))
           /\ Len(SubscribeFilters(p)) = Len(p.topicFilters)
           /\ \A k \in 1..Len(p.topicFilters) :
                /\ p.topicFilters[k] \in String /\ p.requestedQoSs[k] \in 0..127
                /\ SubscribeFilters(p)[k]
                     = writeMQTTString(p.topicFilters[k]) \o <<p.requestedQoSs[k]>>
                /\ <<p.requestedQoSs[k]>> \in Seq(Byte)
                /\ Len(SubscribeFilters(p)[k]) = 2 + MQTTstrlen(p.topicFilters[k]) + 1
<1> DEFINE n == Len(p.topicFilters)
           e(k) == writeMQTTString(p.topicFilters[k]) \o <<p.requestedQoSs[k]>>
<1>1. p.topicFilters \in Seq(String) /\ p.requestedQoSs \in Seq(0..127) BY DEF SubscribePackets
<1>2. n \in Nat /\ DOMAIN p.topicFilters = 1..n BY <1>1, LenProperties
<1>3. ASSUME NEW k \in 1..n
      PROVE  /\ p.topicFilters[k] \in String /\ p.requestedQoSs[k] \in 0..127
             /\ <<p.requestedQoSs[k]>> \in Seq(Byte)
             /\ e(k) \in Seq(Byte) /\ Len(e(k)) = 2 + MQTTstrlen(p.topicFilters[k]) + 1
  <2> DEFINE w == writeMQTTString(p.topicFilters[k])
             q == <<p.requestedQoSs[k]>>
  <2>1. p.topicFilters[k] \in String /\ p.requestedQoSs[k] \in 0..127 BY <1>1, ElementOfSeq
  <2>2. w \in Seq(Byte) /\ Len(w) = 2 + MQTTstrlen(p.topicFilters[k]) BY <2>1, StringBytesFacts
  <2>3. p.requestedQoSs[k] \in Byte BY <2>1 DEF Byte
  <2>4. q \in Seq(Byte) /\ Len(q) = 1 BY <2>3
  <2> HIDE DEF w, q
  <2>5. w \o q \in Seq(Byte) /\ Len(w \o q) = Len(w) + Len(q) BY <2>2, <2>4, Joined
  <2> USE DEF w, q
  <2> QED BY <2>1, <2>2, <2>4, <2>5
<1>4. SubscribeFilters(p) = [k \in 1..n |-> e(k)] BY <1>2 DEF SubscribeFilters
<1> HIDE DEF e, n
<1>5. [k \in 1..n |-> e(k)] \in Seq(Seq(Byte)) /\ Len([k \in 1..n |-> e(k)]) = n BY <1>2, <1>3
<1>6. \A k \in 1..n : SubscribeFilters(p)[k] = e(k) BY <1>4
<1> QED BY <1>3, <1>4, <1>5, <1>6 DEF e, n

LEMMA UnsubscribePieces ==
    ASSUME NEW p \in UnsubscribePackets
    PROVE  /\ UnsubscribeFilters(p) \in Seq(Seq(Byte))
           /\ Len(UnsubscribeFilters(p)) = Len(p.topicFilters)
           /\ \A k \in 1..Len(p.topicFilters) :
                /\ p.topicFilters[k] \in String
                /\ UnsubscribeFilters(p)[k] = writeMQTTString(p.topicFilters[k])
                /\ Len(UnsubscribeFilters(p)[k]) = 2 + MQTTstrlen(p.topicFilters[k]) + 0
<1> DEFINE n == Len(p.topicFilters)
           e(k) == writeMQTTString(p.topicFilters[k])
<1>1. p.topicFilters \in Seq(String) BY DEF UnsubscribePackets
<1>2. n \in Nat /\ DOMAIN p.topicFilters = 1..n BY <1>1, LenProperties
<1>3. ASSUME NEW k \in 1..n
      PROVE  /\ p.topicFilters[k] \in String
             /\ e(k) \in Seq(Byte) /\ Len(e(k)) = 2 + MQTTstrlen(p.topicFilters[k]) + 0
  <2>1. p.topicFilters[k] \in String BY <1>1, ElementOfSeq
  <2>2. /\ e(k) \in Seq(Byte) /\ Len(e(k)) = 2 + MQTTstrlen(p.topicFilters[k])
        /\ MQTTstrlen(p.topicFilters[k]) \in Nat
    BY <2>1, StringBytesFacts
  <2> QED BY <2>1, <2>2
<1>4. UnsubscribeFilters(p) = [k \in 1..n |-> e(k)] BY <1>2 DEF UnsubscribeFilters
<1> HIDE DEF e, n
<1>5. [k \in 1..n |-> e(k)] \in Seq(Seq(Byte)) /\ Len([k \in 1..n |-> e(k)]) = n BY <1>2, <1>3
<1>6. \A k \in 1..n : UnsubscribeFilters(p)[k] = e(k) BY <1>4
<1> QED BY <1>3, <1>4, <1>5, <1>6 DEF e, n

\* a packet id and pieces after it, as long as FiltersLength says
LEMMA FiltersAreWritten ==
    ASSUME NEW p, p.packetid \in TwoBytes, p.topicFilters \in Seq(String), NEW extra \in {0, 1},
           NEW s \in Seq(Seq(Byte)), Len(s) = Len(p.topicFilters),
           \A k \in 1..Len(s) : Len(s[k]) = 2 + MQTTstrlen(p.topicFilters[k]) + extra
    PROVE  /\ writeInt(p.packetid) \o FlattenSeq(s) \in Seq(Byte)
           /\ Len(writeInt(p.packetid) \o FlattenSeq(s)) = FiltersLength(p, extra)
           /\ FiltersLength(p, extra) \in Nat
           /\ FlattenSeq(s) \in Seq(Byte)
<1>1. PICK f : Counts(f, s) /\ f[0] = 2 /\ FiltersLength(p, extra) = f[Len(s)] BY FilterCounts
<1>2. Len(s) \in Nat /\ Len(s) \in 0..Len(s) BY LenProperties
<1>3. UpTo(s, Len(s)) \in Seq(Byte) /\ Len(UpTo(s, Len(s))) = f[Len(s)] - f[0]
  BY <1>1, <1>2, PiecesLength
<1>4. FlattenSeq(s) \in Seq(Byte) /\ Len(FlattenSeq(s)) = f[Len(s)] - 2 BY <1>1, <1>3, UpToAll
<1>5. writeInt(p.packetid) \in Seq(Byte) /\ Len(writeInt(p.packetid)) = 2 BY IntBytes
<1>6. /\ writeInt(p.packetid) \o FlattenSeq(s) \in Seq(Byte)
      /\ Len(writeInt(p.packetid) \o FlattenSeq(s))
           = Len(writeInt(p.packetid)) + Len(FlattenSeq(s))
  BY <1>4, <1>5, Joined
<1>7. f[Len(s)] \in Nat BY <1>1, <1>2 DEF Counts
<1>8. 2 + (f[Len(s)] - 2) = f[Len(s)] BY <1>7
<1> QED BY <1>1, <1>4, <1>5, <1>6, <1>7, <1>8

LEMMA FiltersHeader ==
    ASSUME NEW p, p.type \in {"SUBSCRIBE", "UNSUBSCRIBE"}, p.dup \in {0, 1}
    PROVE  /\ HeaderOf(p) = Header(p.type, p.dup, 1, 0) /\ HeaderOf(p) \in Byte
           /\ HeaderOf(p) \div 16 \in 1..14 /\ typeOf(HeaderOf(p)) = p.type
           /\ dupOf(HeaderOf(p)) = p.dup
<1>1. PICK m \in 1..14 : p.type = msgTypes[m]
  <2>1. 8 \in 1..14 /\ 10 \in 1..14 OBVIOUS
  <2> QED BY <2>1, TypeNumbers
<1>2. HeaderOf(p) = Header(p.type, p.dup, 1, 0) BY DEF HeaderOf
<1>3. 1 \in 0..3 /\ 0 \in {0, 1} OBVIOUS
<1>4. HeaderOf(p) = Header(msgTypes[m], p.dup, 1, 0) BY <1>1, <1>2
<1> QED BY <1>1, <1>2, <1>3, <1>4, HeaderFacts

LEMMA SubscribeIsWritten ==
    ASSUME NEW p \in SubscribePackets, Len(p.requestedQoSs) = Len(p.topicFilters)
    PROVE  Serializes(p)
<1>1. /\ p.type = "SUBSCRIBE" /\ p.dup \in {0, 1} /\ p.packetid \in TwoBytes
      /\ p.topicFilters \in Seq(String)
  BY DEF SubscribePackets, Flag
<1> DEFINE s == SubscribeFilters(p)
<1>2. /\ HeaderOf(p) = Header(p.type, p.dup, 1, 0) /\ HeaderOf(p) \in Byte
      /\ HeaderOf(p) \div 16 \in 1..14 /\ typeOf(HeaderOf(p)) = p.type
  BY <1>1, FiltersHeader
<1>3. /\ s \in Seq(Seq(Byte)) /\ Len(s) = Len(p.topicFilters)
      /\ \A k \in 1..Len(s) : Len(s[k]) = 2 + MQTTstrlen(p.topicFilters[k]) + 1
  BY SubscribePieces
<1>4. Body(p) = writeInt(p.packetid) \o FlattenSeq(s) /\ BodyLength(p) = FiltersLength(p, 1)
  BY <1>1 DEF Body, BodyLength, MQTTSerialize_subscribeLength
<1> HIDE DEF s
<1>5. Body(p) \in Seq(Byte) /\ Len(Body(p)) = BodyLength(p) /\ BodyLength(p) \in Nat
  BY <1>1, <1>3, <1>4, FiltersAreWritten
<1>6. ASSUME NEW buf \in Seq(Byte)
      PROVE  \E fits \in BOOLEAN :
                /\ Serialize(buf, p) = Serialized(buf, fits, HeaderOf(p), Len(Body(p)), Body(p))
                /\ fits /\ p.type \in MaySend.client => WireLength(p) <= Len(buf)
                /\ ~fits => WireLength(p) >= Len(buf)
  <2> DEFINE n == BodyLength(p)
             fits == MQTTPacket_len(n) <= Len(buf)
  <2>1. Serialize(buf, p) = MQTTSerialize_subscribe(buf, p) BY <1>1 DEF Serialize
  <2>2. MQTTSerialize_subscribe(buf, p) = Serialized(buf, fits, HeaderOf(p), n, Body(p))
    BY <1>1, <1>2, <1>4
    DEF MQTTSerialize_subscribe, MQTTSerialize_subscribeLength, s, SubscribeFilters
  <2>3. fits \in BOOLEAN OBVIOUS
  <2>4. (fits => WireLength(p) <= Len(buf)) /\ (~fits => WireLength(p) >= Len(buf))
    BY <1>5, Compared
  <2> HIDE DEF fits
  <2> QED BY <1>5, <2>1, <2>2, <2>3, <2>4
<1> QED BY <1>2, <1>5, <1>6 DEF Serializes

LEMMA UnsubscribeIsWritten ==
    ASSUME NEW p \in UnsubscribePackets
    PROVE  Serializes(p)
<1>1. /\ p.type = "UNSUBSCRIBE" /\ p.dup \in {0, 1} /\ p.packetid \in TwoBytes
      /\ p.topicFilters \in Seq(String)
  BY DEF UnsubscribePackets, Flag
<1> DEFINE s == UnsubscribeFilters(p)
<1>2. /\ HeaderOf(p) = Header(p.type, p.dup, 1, 0) /\ HeaderOf(p) \in Byte
      /\ HeaderOf(p) \div 16 \in 1..14 /\ typeOf(HeaderOf(p)) = p.type
  BY <1>1, FiltersHeader
<1>3. /\ s \in Seq(Seq(Byte)) /\ Len(s) = Len(p.topicFilters)
      /\ \A k \in 1..Len(s) : Len(s[k]) = 2 + MQTTstrlen(p.topicFilters[k]) + 0
  BY UnsubscribePieces
<1>4. Body(p) = writeInt(p.packetid) \o FlattenSeq(s) /\ BodyLength(p) = FiltersLength(p, 0)
  BY <1>1 DEF Body, BodyLength, MQTTSerialize_unsubscribeLength
<1> HIDE DEF s
<1>5. Body(p) \in Seq(Byte) /\ Len(Body(p)) = BodyLength(p) /\ BodyLength(p) \in Nat
  BY <1>1, <1>3, <1>4, FiltersAreWritten
<1>6. ASSUME NEW buf \in Seq(Byte)
      PROVE  \E fits \in BOOLEAN :
                /\ Serialize(buf, p) = Serialized(buf, fits, HeaderOf(p), Len(Body(p)), Body(p))
                /\ fits /\ p.type \in MaySend.client => WireLength(p) <= Len(buf)
                /\ ~fits => WireLength(p) >= Len(buf)
  <2> DEFINE n == BodyLength(p)
             fits == MQTTPacket_len(n) <= Len(buf)
  <2>1. Serialize(buf, p) = MQTTSerialize_unsubscribe(buf, p) BY <1>1 DEF Serialize
  <2>2. MQTTSerialize_unsubscribe(buf, p) = Serialized(buf, fits, HeaderOf(p), n, Body(p))
    BY <1>1, <1>2, <1>4
    DEF MQTTSerialize_unsubscribe, MQTTSerialize_unsubscribeLength, s, UnsubscribeFilters
  <2>3. fits \in BOOLEAN OBVIOUS
  <2>4. (fits => WireLength(p) <= Len(buf)) /\ (~fits => WireLength(p) >= Len(buf))
    BY <1>5, Compared
  <2> HIDE DEF fits
  <2> QED BY <1>5, <2>1, <2>2, <2>3, <2>4
<1> QED BY <1>2, <1>5, <1>6 DEF Serializes

-----------------------------------------------------------------------------
(* CONNECT *)

\* the bits of the connect flags, from the arguments
LEMMA ConnectBits ==
    ASSUME NEW c \in {0, 1}, NEW w \in {0, 1}, NEW q \in 0..3, NEW r \in {0, 1},
           NEW s \in {0, 1}, NEW u \in {0, 1},
           NEW h, h = 2 * c + w * (4 + 8 * q + 32 * r) + s * 64 + u * 128
    PROVE  /\ h \in 0..255
           /\ (h \div 2) % 2 = c /\ (h \div 4) % 2 = w /\ (h \div 64) % 2 = s /\ (h \div 128) % 2 = u
           /\ w = 1 => ((h \div 8) % 2) + 2 * ((h \div 16) % 2) = q /\ (h \div 32) % 2 = r
<1>1. PICK q0 \in {0, 1}, q1 \in {0, 1} : q = q0 + 2 * q1
  <2>1. q = 0 + 2 * 0 \/ q = 1 + 2 * 0 \/ q = 0 + 2 * 1 \/ q = 1 + 2 * 1 OBVIOUS
  <2> QED BY <2>1
<1>2. PICK x0 \in {0, 1}, x1 \in {0, 1}, x2 \in {0, 1} :
        /\ h = 2 * c + 4 * w + 8 * x0 + 16 * x1 + 32 * x2 + 64 * s + 128 * u
        /\ w = 1 => x0 = q0 /\ x1 = q1 /\ x2 = r
  <2>1. CASE w = 0
    <3>1. h = 2 * c + 4 * w + 8 * 0 + 16 * 0 + 32 * 0 + 64 * s + 128 * u BY <2>1
    <3> QED BY <2>1, <3>1
  <2>2. CASE w = 1
    <3>1. h = 2 * c + 4 * w + 8 * q0 + 16 * q1 + 32 * r + 64 * s + 128 * u BY <2>2, <1>1
    <3> QED BY <2>2, <3>1
  <2> QED BY <2>1, <2>2
<1>3. h \in 0..255 BY <1>2
<1>4. h \div 2 = c + 2 * w + 4 * x0 + 8 * x1 + 16 * x2 + 32 * s + 64 * u BY <1>2
<1>5. h \div 4 = w + 2 * x0 + 4 * x1 + 8 * x2 + 16 * s + 32 * u BY <1>2
<1>6. h \div 8 = x0 + 2 * x1 + 4 * x2 + 8 * s + 16 * u BY <1>2
<1>7. h \div 16 = x1 + 2 * x2 + 4 * s + 8 * u BY <1>2
<1>8. h \div 32 = x2 + 2 * s + 4 * u BY <1>2
<1>9. h \div 64 = s + 2 * u BY <1>2
<1>10. h \div 128 = u BY <1>2
<1>11. (h \div 2) % 2 = c BY <1>4
<1>12. (h \div 4) % 2 = w BY <1>5
<1>13. (h \div 8) % 2 = x0 BY <1>6
<1>14. (h \div 16) % 2 = x1 BY <1>7
<1>15. (h \div 32) % 2 = x2 BY <1>8
<1>16. (h \div 64) % 2 = s BY <1>9
<1>17. (h \div 128) % 2 = u BY <1>10
<1>18. w = 1 => ((h \div 8) % 2) + 2 * ((h \div 16) % 2) = q /\ (h \div 32) % 2 = r
  <2> SUFFICES ASSUME w = 1 PROVE x0 + 2 * x1 = q /\ x2 = r BY <1>13, <1>14, <1>15
  <2> QED BY <1>1, <1>2
<1> QED BY <1>3, <1>11, <1>12, <1>16, <1>17, <1>18

LEMMA ConnectFlags ==
    ASSUME NEW p \in ConnectPackets
    PROVE  /\ MQTTConnectFlags(p) \in Byte
           /\ (MQTTConnectFlags(p) \div 2) % 2 = p.cleansession
           /\ (MQTTConnectFlags(p) \div 4) % 2 = 1 <=> p.willFlag
           /\ (MQTTConnectFlags(p) \div 64) % 2 = 1 <=> IsGiven(p.password)
           /\ (MQTTConnectFlags(p) \div 128) % 2 = 1 <=> IsGiven(p.username)
           /\ p.willFlag =>
                /\ ((MQTTConnectFlags(p) \div 8) % 2) + 2 * ((MQTTConnectFlags(p) \div 16) % 2)
                     = p.will.qos
                /\ (MQTTConnectFlags(p) \div 32) % 2 = p.will.retained
<1>1. /\ p.cleansession \in {0, 1} /\ p.willFlag \in BOOLEAN /\ p.will.qos \in 0..3
      /\ p.will.retained \in {0, 1}
  BY DEF ConnectPackets, Flag
<1>2. PICK w \in {0, 1} : (w = 1 <=> p.willFlag)
        /\ Bit(p.willFlag, 4 + 8 * p.will.qos + 32 * p.will.retained)
             = w * (4 + 8 * p.will.qos + 32 * p.will.retained)
  <2>1. CASE p.willFlag
    <3>1. Bit(p.willFlag, 4 + 8 * p.will.qos + 32 * p.will.retained)
             = 1 * (4 + 8 * p.will.qos + 32 * p.will.retained)
      BY <1>1, <2>1 DEF Bit
    <3> QED BY <2>1, <3>1
  <2>2. CASE ~p.willFlag
    <3>1. Bit(p.willFlag, 4 + 8 * p.will.qos + 32 * p.will.retained)
             = 0 * (4 + 8 * p.will.qos + 32 * p.will.retained)
      BY <1>1, <2>2 DEF Bit
    <3> QED BY <2>2, <3>1
  <2> QED BY <2>1, <2>2
<1>3. PICK s \in {0, 1} : (s = 1 <=> IsGiven(p.password)) /\ Bit(IsGiven(p.password), 64) = s * 64
  <2>1. CASE IsGiven(p.password)
    <3>1. Bit(IsGiven(p.password), 64) = 1 * 64 BY <2>1 DEF Bit
    <3> QED BY <2>1, <3>1
  <2>2. CASE ~IsGiven(p.password)
    <3>1. Bit(IsGiven(p.password), 64) = 0 * 64 BY <2>2 DEF Bit
    <3> QED BY <2>2, <3>1
  <2> QED BY <2>1, <2>2
<1>4. PICK u \in {0, 1} : (u = 1 <=> IsGiven(p.username)) /\ Bit(IsGiven(p.username), 128) = u * 128
  <2>1. CASE IsGiven(p.username)
    <3>1. Bit(IsGiven(p.username), 128) = 1 * 128 BY <2>1 DEF Bit
    <3> QED BY <2>1, <3>1
  <2>2. CASE ~IsGiven(p.username)
    <3>1. Bit(IsGiven(p.username), 128) = 0 * 128 BY <2>2 DEF Bit
    <3> QED BY <2>2, <3>1
  <2> QED BY <2>1, <2>2
<1> DEFINE h == MQTTConnectFlags(p)
<1>5. h = 2 * p.cleansession + w * (4 + 8 * p.will.qos + 32 * p.will.retained) + s * 64 + u * 128
  BY <1>2, <1>3, <1>4 DEF MQTTConnectFlags
<1> HIDE DEF h
<1>6. /\ h \in 0..255
      /\ (h \div 2) % 2 = p.cleansession /\ (h \div 4) % 2 = w /\ (h \div 64) % 2 = s
      /\ (h \div 128) % 2 = u
      /\ w = 1 => /\ ((h \div 8) % 2) + 2 * ((h \div 16) % 2) = p.will.qos
                  /\ (h \div 32) % 2 = p.will.retained
  <2>1. PICK c \in {0, 1}, q \in 0..3, r \in {0, 1} :
          p.cleansession = c /\ p.will.qos = q /\ p.will.retained = r
    BY <1>1
  <2>2. h = 2 * c + w * (4 + 8 * q + 32 * r) + s * 64 + u * 128 BY <1>5, <2>1
  <2>3. /\ h \in 0..255
        /\ (h \div 2) % 2 = c /\ (h \div 4) % 2 = w /\ (h \div 64) % 2 = s
        /\ (h \div 128) % 2 = u
        /\ w = 1 => ((h \div 8) % 2) + 2 * ((h \div 16) % 2) = q /\ (h \div 32) % 2 = r
    BY <2>2, ConnectBits
  <2> QED BY <2>1, <2>3
<1>7. /\ h \in Byte /\ (h \div 2) % 2 = p.cleansession
      /\ (h \div 4) % 2 = 1 <=> p.willFlag
      /\ (h \div 64) % 2 = 1 <=> IsGiven(p.password)
      /\ (h \div 128) % 2 = 1 <=> IsGiven(p.username)
      /\ p.willFlag => /\ ((h \div 8) % 2) + 2 * ((h \div 16) % 2) = p.will.qos
                       /\ (h \div 32) % 2 = p.will.retained
  BY <1>2, <1>3, <1>4, <1>6 DEF Byte
<1> QED BY <1>7 DEF h

ProtocolName(p) == IF p.MQTTVersion = 4 THEN Protocol.MQTT ELSE Protocol.MQIsdp
ProtocolLevel(p) == IF p.MQTTVersion = 4 THEN 4 ELSE 3

\* the strings of CONNECT in their order, and which of them there are
ConnectStrings(p) == <<p.clientID, p.will.topicName, p.will.message, p.username, p.password>>
ConnectGiven(p) == <<TRUE, p.willFlag, p.willFlag, IsGiven(p.username), IsGiven(p.password)>>

ConnectFixed(p) ==
    writeInt(Len(ProtocolName(p))) \o ProtocolName(p) \o <<ProtocolLevel(p), MQTTConnectFlags(p)>>
        \o writeInt(p.keepAliveInterval)
ConnectPiece(p, k) == StringBytes(ConnectGiven(p)[k], ConnectStrings(p)[k])

LEMMA ConnectPieces ==
    ASSUME NEW p \in ConnectPackets
    PROVE  /\ \A k \in 1..5 :
                /\ ConnectGiven(p)[k] \in BOOLEAN /\ ConnectStrings(p)[k] \in String
                /\ ConnectPiece(p, k) \in Seq(Byte)
                /\ Len(ConnectPiece(p, k)) = StringLength(ConnectGiven(p)[k], ConnectStrings(p)[k])
                /\ StringLength(ConnectGiven(p)[k], ConnectStrings(p)[k]) \in Nat
           /\ ConnectBody(p) = ConnectFixed(p) \o ConnectPiece(p, 1) \o ConnectPiece(p, 2)
                \o ConnectPiece(p, 3) \o ConnectPiece(p, 4) \o ConnectPiece(p, 5)
<1>1. /\ p.clientID \in String /\ p.will.topicName \in String /\ p.will.message \in String
      /\ p.username \in String /\ p.password \in String /\ p.willFlag \in BOOLEAN
  BY DEF ConnectPackets
<1>2. IsGiven(p.username) \in BOOLEAN /\ IsGiven(p.password) \in BOOLEAN BY Zenon DEF IsGiven
<1>3. /\ ConnectStrings(p)[1] = p.clientID /\ ConnectStrings(p)[2] = p.will.topicName
      /\ ConnectStrings(p)[3] = p.will.message /\ ConnectStrings(p)[4] = p.username
      /\ ConnectStrings(p)[5] = p.password
  BY SMT DEF ConnectStrings
<1>4. /\ ConnectGiven(p)[1] = TRUE /\ ConnectGiven(p)[2] = p.willFlag
      /\ ConnectGiven(p)[3] = p.willFlag /\ ConnectGiven(p)[4] = IsGiven(p.username)
      /\ ConnectGiven(p)[5] = IsGiven(p.password)
  BY SMT DEF ConnectGiven
<1>5. ASSUME NEW k \in 1..5
      PROVE  ConnectGiven(p)[k] \in BOOLEAN /\ ConnectStrings(p)[k] \in String
  <2>1. k = 1 \/ k = 2 \/ k = 3 \/ k = 4 \/ k = 5 OBVIOUS
  <2>2. TRUE \in BOOLEAN OBVIOUS
  <2>3. ConnectStrings(p)[k] \in String BY <1>1, <1>3, <2>1
  <2>4. ConnectGiven(p)[k] \in BOOLEAN BY <1>1, <1>2, <1>4, <2>1, <2>2, Zenon
  <2> QED BY <2>3, <2>4
<1>6. ASSUME NEW k \in 1..5
      PROVE  /\ ConnectPiece(p, k) \in Seq(Byte)
             /\ Len(ConnectPiece(p, k)) = StringLength(ConnectGiven(p)[k], ConnectStrings(p)[k])
             /\ StringLength(ConnectGiven(p)[k], ConnectStrings(p)[k]) \in Nat
  <2> DEFINE s == ConnectStrings(p)[k]
             g == ConnectGiven(p)[k]
  <2>1. s \in String /\ g \in BOOLEAN BY <1>5
  <2>2. ConnectPiece(p, k) = StringBytes(g, s) BY DEF ConnectPiece
  <2> HIDE DEF s, g
  <2>3. /\ writeMQTTString(s) \in Seq(Byte) /\ Len(writeMQTTString(s)) = 2 + MQTTstrlen(s)
        /\ MQTTstrlen(s) \in Nat
    BY <2>1, StringBytesFacts
  <2>4. /\ StringBytes(g, s) \in Seq(Byte) /\ Len(StringBytes(g, s)) = StringLength(g, s)
        /\ StringLength(g, s) \in Nat
    <3>1. CASE g BY <2>3, <3>1 DEF StringBytes, StringLength
    <3>2. CASE ~g BY <3>2, EmptyText DEF StringBytes, StringLength
    <3> QED BY <3>1, <3>2
  <2> QED BY <2>2, <2>4 DEF s, g
<1>7. writeMQTTString(p.clientID) = ConnectPiece(p, 1) BY <1>3, <1>4 DEF ConnectPiece, StringBytes
<1>8. /\ StringBytes(p.willFlag, p.will.topicName) = ConnectPiece(p, 2)
      /\ StringBytes(p.willFlag, p.will.message) = ConnectPiece(p, 3)
      /\ StringBytes(IsGiven(p.username), p.username) = ConnectPiece(p, 4)
      /\ StringBytes(IsGiven(p.password), p.password) = ConnectPiece(p, 5)
  BY <1>3, <1>4 DEF ConnectPiece
<1>9. ConnectBody(p) = ConnectFixed(p) \o ConnectPiece(p, 1) \o ConnectPiece(p, 2)
                \o ConnectPiece(p, 3) \o ConnectPiece(p, 4) \o ConnectPiece(p, 5)
  BY <1>7, <1>8 DEF ConnectBody, ConnectFixed, ProtocolName, ProtocolLevel
<1> QED BY <1>5, <1>6, <1>9

LEMMA ConnectStart ==
    ASSUME NEW p \in ConnectPackets
    PROVE  /\ ProtocolName(p) \in Seq(Byte) /\ Len(ProtocolName(p)) \in TwoBytes
           /\ Len(ProtocolName(p)) = IF p.MQTTVersion = 4 THEN 4 ELSE 6
           /\ <<ProtocolLevel(p), MQTTConnectFlags(p)>> \in Seq(Byte)
           /\ ConnectFixed(p) \in Seq(Byte)
           /\ Len(ConnectFixed(p)) = 2 + Len(ProtocolName(p)) + 4
<1>1. /\ p.MQTTVersion \in {3, 4} /\ p.keepAliveInterval \in TwoBytes BY DEF ConnectPackets
<1>2. /\ Protocol.MQTT \in Seq(Byte) /\ Len(Protocol.MQTT) = 4
      /\ Protocol.MQIsdp \in Seq(Byte) /\ Len(Protocol.MQIsdp) = 6
  BY SMT DEF Protocol, Byte
<1>3. ProtocolName(p) \in Seq(Byte) /\ Len(ProtocolName(p)) = IF p.MQTTVersion = 4 THEN 4 ELSE 6
  BY <1>2 DEF ProtocolName
<1>4. 4 \in TwoBytes /\ 6 \in TwoBytes BY SMT DEF TwoBytes
<1>5. Len(ProtocolName(p)) \in TwoBytes /\ Len(ProtocolName(p)) \in Nat BY <1>3, <1>4
<1> DEFINE a == writeInt(Len(ProtocolName(p)))
           b == <<ProtocolLevel(p), MQTTConnectFlags(p)>>
           c == writeInt(p.keepAliveInterval)
<1>6. a \in Seq(Byte) /\ Len(a) = 2 BY <1>5, IntBytes
<1>7. c \in Seq(Byte) /\ Len(c) = 2 BY <1>1, IntBytes
<1>8. b \in Seq(Byte) /\ Len(b) = 2
  <2>1. ProtocolLevel(p) \in Byte BY SMT DEF ProtocolLevel, Byte
  <2>2. MQTTConnectFlags(p) \in Byte BY ConnectFlags
  <2> QED BY <2>1, <2>2
<1>9. ConnectFixed(p) = ((a \o ProtocolName(p)) \o b) \o c BY DEF ConnectFixed
<1> HIDE DEF a, b, c
<1>10. a \o ProtocolName(p) \in Seq(Byte) /\ Len(a \o ProtocolName(p)) = 2 + Len(ProtocolName(p))
  <2>1. /\ a \o ProtocolName(p) \in Seq(Byte)
        /\ Len(a \o ProtocolName(p)) = Len(a) + Len(ProtocolName(p))
    BY <1>3, <1>6, Joined
  <2> QED BY <1>6, <2>1
<1> DEFINE ab == a \o ProtocolName(p)
<1> HIDE DEF ab
<1>11. ab \in Seq(Byte) /\ Len(ab) = 2 + Len(ProtocolName(p)) BY <1>10 DEF ab
<1>12. ab \o b \in Seq(Byte) /\ Len(ab \o b) = (2 + Len(ProtocolName(p))) + 2
  <2>1. ab \o b \in Seq(Byte) /\ Len(ab \o b) = Len(ab) + Len(b) BY <1>8, <1>11, Joined
  <2> QED BY <1>8, <1>11, <2>1
<1>13. (ab \o b) \o c \in Seq(Byte) /\ Len((ab \o b) \o c) = Len(ab \o b) + Len(c)
  BY <1>7, <1>12, Joined
<1>14. Len(ConnectFixed(p)) = 2 + Len(ProtocolName(p)) + 4 BY <1>5, <1>7, <1>9, <1>12, <1>13 DEF ab
<1> QED BY <1>3, <1>5, <1>8, <1>9, <1>13, <1>14 DEF ab, b

LEMMA ConnectIsWritten ==
    ASSUME NEW p \in ConnectPackets
    PROVE  Serializes(p)
<1>1. p.type = "CONNECT" /\ p.MQTTVersion \in {3, 4} BY DEF ConnectPackets
<1>2. /\ HeaderOf(p) = Header(p.type, 0, 0, 0) /\ HeaderOf(p) \in Byte
      /\ HeaderOf(p) \div 16 = 1 /\ typeOf(HeaderOf(p)) = p.type
  <2>1. 1 \in 1..14 OBVIOUS
  <2> QED BY <1>1, <2>1, TypeNumbers, PlainHeader
<1> DEFINE l(k) == StringLength(ConnectGiven(p)[k], ConnectStrings(p)[k])
           b(k) == ConnectPiece(p, k)
           z == ConnectFixed(p)
<1>3. \A k \in 1..5 : b(k) \in Seq(Byte) /\ Len(b(k)) = l(k) /\ l(k) \in Nat BY ConnectPieces
<1>4. Body(p) = z \o b(1) \o b(2) \o b(3) \o b(4) \o b(5)
  <2>1. Body(p) = ConnectBody(p) BY <1>1 DEF Body
  <2> QED BY <2>1, ConnectPieces
<1>5. z \in Seq(Byte) /\ Len(z) = IF p.MQTTVersion = 4 THEN 10 ELSE 12
  <2>1. /\ z \in Seq(Byte) /\ Len(z) = 2 + Len(ProtocolName(p)) + 4
        /\ Len(ProtocolName(p)) = IF p.MQTTVersion = 4 THEN 4 ELSE 6
    BY ConnectStart
  <2> HIDE DEF z
  <2> QED BY <2>1
<1>6. BodyLength(p) = Len(z) + l(1) + l(2) + l(3) + l(4) + l(5)
  <2>1. BodyLength(p) = MQTTSerialize_connectLength(p) BY <1>1 DEF BodyLength
  <2>2. (CASE p.MQTTVersion = 3 -> 12 [] p.MQTTVersion = 4 -> 10 [] OTHER -> 0) = Len(z)
    BY <1>1, <1>5
  <2>3. /\ l(1) = StringLength(TRUE, p.clientID) /\ l(2) = StringLength(p.willFlag, p.will.topicName)
        /\ l(3) = StringLength(p.willFlag, p.will.message)
        /\ l(4) = StringLength(IsGiven(p.username), p.username)
        /\ l(5) = StringLength(IsGiven(p.password), p.password)
    BY SMT DEF ConnectGiven, ConnectStrings
  <2> HIDE DEF l, z
  <2> QED BY <2>1, <2>2, <2>3 DEF MQTTSerialize_connectLength
<1> HIDE DEF l, b, z
<1>7. /\ b(1) \in Seq(Byte) /\ b(2) \in Seq(Byte) /\ b(3) \in Seq(Byte) /\ b(4) \in Seq(Byte)
      /\ b(5) \in Seq(Byte)
      /\ Len(b(1)) = l(1) /\ Len(b(2)) = l(2) /\ Len(b(3)) = l(3) /\ Len(b(4)) = l(4)
      /\ Len(b(5)) = l(5)
  BY <1>3
<1>8. \A k \in 1..5 : l(k) \in Nat BY <1>3
<1>9. Len(z) \in Nat BY <1>5, LenProperties
<1>10. z \o b(1) \in Seq(Byte) /\ Len(z \o b(1)) = Len(z) + l(1)
  <2>1. z \o b(1) \in Seq(Byte) /\ Len(z \o b(1)) = Len(z) + Len(b(1)) BY <1>5, <1>7, Joined
  <2> QED BY <1>7, <2>1
<1>11. PICK z1 : z1 = z \o b(1) OBVIOUS
<1>12. z1 \o b(2) \in Seq(Byte) /\ Len(z1 \o b(2)) = Len(z1) + l(2)
  <2>1. z1 \o b(2) \in Seq(Byte) /\ Len(z1 \o b(2)) = Len(z1) + Len(b(2)) BY <1>7, <1>10, <1>11, Joined
  <2> QED BY <1>7, <2>1
<1>13. PICK z2 : z2 = z1 \o b(2) OBVIOUS
<1>14. z2 \o b(3) \in Seq(Byte) /\ Len(z2 \o b(3)) = Len(z2) + l(3)
  <2>1. z2 \o b(3) \in Seq(Byte) /\ Len(z2 \o b(3)) = Len(z2) + Len(b(3)) BY <1>7, <1>12, <1>13, Joined
  <2> QED BY <1>7, <2>1
<1>15. PICK z3 : z3 = z2 \o b(3) OBVIOUS
<1>16. z3 \o b(4) \in Seq(Byte) /\ Len(z3 \o b(4)) = Len(z3) + l(4)
  <2>1. z3 \o b(4) \in Seq(Byte) /\ Len(z3 \o b(4)) = Len(z3) + Len(b(4)) BY <1>7, <1>14, <1>15, Joined
  <2> QED BY <1>7, <2>1
<1>17. PICK z4 : z4 = z3 \o b(4) OBVIOUS
<1>21. z4 \o b(5) \in Seq(Byte) /\ Len(z4 \o b(5)) = Len(z4) + l(5)
  <2>1. z4 \o b(5) \in Seq(Byte) /\ Len(z4 \o b(5)) = Len(z4) + Len(b(5)) BY <1>7, <1>16, <1>17, Joined
  <2> QED BY <1>7, <2>1
<1>22. Body(p) = z4 \o b(5) BY <1>4, <1>11, <1>13, <1>15, <1>17
<1>18. Body(p) \in Seq(Byte) /\ Len(Body(p)) = BodyLength(p)
  <2>1. Len(Body(p)) = Len(z) + l(1) + l(2) + l(3) + l(4) + l(5)
    BY <1>10, <1>11, <1>12, <1>13, <1>14, <1>15, <1>16, <1>17, <1>21, <1>22
  <2> QED BY <1>6, <1>21, <1>22, <2>1
<1>19. BodyLength(p) \in Nat BY <1>18, LenProperties
<1>20. ASSUME NEW buf \in Seq(Byte)
       PROVE  \E fits \in BOOLEAN :
                /\ Serialize(buf, p) = Serialized(buf, fits, HeaderOf(p), Len(Body(p)), Body(p))
                /\ fits /\ p.type \in MaySend.client => WireLength(p) <= Len(buf)
                /\ ~fits => WireLength(p) >= Len(buf)
  <2> DEFINE n == BodyLength(p)
             fits == MQTTPacket_len(n) <= Len(buf)
  <2>1. Serialize(buf, p) = MQTTSerialize_connect(buf, p) BY <1>1 DEF Serialize
  <2>2. Body(p) = ConnectBody(p) /\ n = MQTTSerialize_connectLength(p)
    BY <1>1 DEF Body, BodyLength
  <2>3. MQTTSerialize_connect(buf, p) = Serialized(buf, fits, HeaderOf(p), n, Body(p))
    BY <1>1, <1>2, <2>2 DEF MQTTSerialize_connect, ConnectBody
  <2>4. fits \in BOOLEAN OBVIOUS
  <2>5. (fits => WireLength(p) <= Len(buf)) /\ (~fits => WireLength(p) >= Len(buf))
    BY <1>19, Compared
  <2> HIDE DEF fits
  <2> QED BY <1>18, <2>1, <2>3, <2>4, <2>5
<1> QED BY <1>2, <1>18, <1>20 DEF Serializes

\* The serializer of a packet writes what Wire says.
LEMMA EveryPacketIsWritten == ASSUME NEW p \in Packets PROVE Serializes(p)
<1>1. /\ \/ p \in ConnectPackets \/ p \in ConnackPackets \/ p \in PublishPackets
         \/ p \in AckPackets \/ p \in SubscribePackets \/ p \in SubackPackets
         \/ p \in UnsubscribePackets \/ p \in UnsubackPackets \/ p \in ZeroPackets
      /\ p.type = "SUBSCRIBE" => Len(p.requestedQoSs) = Len(p.topicFilters)
  BY Kinds
<1>2. CASE p \in ConnectPackets BY <1>2, ConnectIsWritten
<1>3. CASE p \in ConnackPackets BY <1>3, ConnackIsWritten
<1>4. CASE p \in PublishPackets BY <1>4, PublishIsWritten
<1>5. CASE p \in AckPackets BY <1>5, AckIsWritten
<1>6. CASE p \in SubscribePackets
  <2>1. p.type = "SUBSCRIBE" BY <1>6 DEF SubscribePackets
  <2> QED BY <1>1, <1>6, <2>1, SubscribeIsWritten
<1>7. CASE p \in SubackPackets BY <1>7, SubackIsWritten
<1>8. CASE p \in UnsubscribePackets BY <1>8, UnsubscribeIsWritten
<1>9. CASE p \in UnsubackPackets BY <1>9, UnsubackIsWritten
<1>10. CASE p \in ZeroPackets BY <1>10, ZeroIsWritten
<1> QED BY <1>1, <1>2, <1>3, <1>4, <1>5, <1>6, <1>7, <1>8, <1>9, <1>10

-----------------------------------------------------------------------------
(* The invariant *)

PathInv ==
    /\ sender \in DOMAIN MaySend
    /\ packet \in Packets \cup {NULL}
    /\ packet # NULL => packet.type \in MaySend[sender]
    /\ step \in {"serialized", "read", "handled"}
    /\ rc \in Int
    /\ called \subseteq messageHandlers
    /\ count \in 0..MaxPackets
    /\ sendbuf \in Seq(Byte) /\ readbuf \in Seq(Byte)
    /\ \E lengths \in BufferLengths :
          Len(readbuf) = lengths[2] /\ (sender = "client" => Len(sendbuf) = lengths[1])
    /\ step = "serialized" =>
          /\ packet # NULL
          /\ rc > 0 => rc = Len(Wire(packet)) /\ At(sendbuf, 1, Wire(packet))
          /\ rc < 0 => WireLength(packet) >= Len(sendbuf)
    /\ step = "read" =>
          /\ packet # NULL
          /\ rc > 0 => At(readbuf, 1, Wire(packet))
          /\ rc < 0 => WireLength(packet) > Len(readbuf)

LEMMA WireFacts ==
    ASSUME NEW p \in Packets
    PROVE  /\ HeaderOf(p) \in Byte /\ HeaderOf(p) \div 16 \in 1..14 /\ typeOf(HeaderOf(p)) = p.type
           /\ Body(p) \in Seq(Byte) /\ Len(Body(p)) = BodyLength(p) /\ Len(Body(p)) <= MaxLength
           /\ Wire(p) \in Seq(Byte) /\ Len(Wire(p)) = WireLength(p) /\ WireLength(p) \in Nat
<1>1. Serializes(p) /\ BodyLength(p) <= MaxLength BY Kinds, EveryPacketIsWritten
<1>2. /\ HeaderOf(p) \in Byte /\ HeaderOf(p) \div 16 \in 1..14 /\ typeOf(HeaderOf(p)) = p.type
      /\ Body(p) \in Seq(Byte) /\ Len(Body(p)) = BodyLength(p)
  BY <1>1 DEF Serializes
<1>3. Len(Body(p)) <= MaxLength BY <1>1, <1>2
<1>4. /\ Packet(HeaderOf(p), Body(p)) \in Seq(Byte)
      /\ Len(Packet(HeaderOf(p), Body(p))) = 1 + Digits(Len(Body(p))) + Len(Body(p))
  BY <1>2, <1>3, PacketBytes
<1>5. Wire(p) \in Seq(Byte) /\ Len(Wire(p)) = WireLength(p) BY <1>2, <1>4 DEF Wire, WireLength
<1>6. WireLength(p) \in Nat BY <1>5, LenProperties
<1> QED BY <1>2, <1>3, <1>5, <1>6

\* The reader tells the packet's type and its length by what was sent.
LEMMA WireAt ==
    ASSUME NEW p \in Packets, NEW buf, At(buf, 1, Wire(p))
    PROVE  /\ buf[1] = HeaderOf(p) /\ typeOf(buf[1]) = p.type
           /\ MQTTPacket_decodeBuf(buf, 2) = [len |-> Digits(Len(Body(p))), value |-> Len(Body(p))]
           /\ Start(buf) \in Nat \ {0} /\ End(buf) = Start(buf) + Len(Body(p)) /\ End(buf) \in Nat
           /\ At(buf, Start(buf), Body(p))
<1>1. /\ HeaderOf(p) \in Byte /\ typeOf(HeaderOf(p)) = p.type
      /\ Body(p) \in Seq(Byte) /\ Len(Body(p)) <= MaxLength
  BY WireFacts
<1>2. At(buf, 1, Packet(HeaderOf(p), Body(p))) BY DEF Wire
<1> QED BY <1>1, <1>2, PacketAt

LEMMA SerializedWire ==
    ASSUME NEW p \in Packets, NEW buf \in Seq(Byte)
    PROVE  /\ Serialize(buf, p).rc \in Int /\ Serialize(buf, p).buf \in Seq(Byte)
           /\ Serialize(buf, p).rc > 0 => /\ Serialize(buf, p).rc = Len(Wire(p))
                                          /\ At(Serialize(buf, p).buf, 1, Wire(p))
           /\ Serialize(buf, p).rc < 0 => WireLength(p) >= Len(Serialize(buf, p).buf)
           /\ p.type \in MaySend.client => Len(Serialize(buf, p).buf) = Len(buf)
<1>1. /\ HeaderOf(p) \in Byte /\ Body(p) \in Seq(Byte) /\ Len(Body(p)) <= MaxLength
      /\ Len(Wire(p)) = WireLength(p) /\ WireLength(p) \in Nat
  BY WireFacts
<1>2. PICK fits \in BOOLEAN :
         /\ Serialize(buf, p) = Serialized(buf, fits, HeaderOf(p), Len(Body(p)), Body(p))
         /\ fits /\ p.type \in MaySend.client => WireLength(p) <= Len(buf)
         /\ ~fits => WireLength(p) >= Len(buf)
  BY EveryPacketIsWritten DEF Serializes
<1>3. PICK s : s = Serialize(buf, p) OBVIOUS
<1>4. /\ s.buf \in Seq(Byte)
      /\ fits => /\ s.rc = Len(Wire(p)) /\ s.rc > 0
                 /\ At(s.buf, 1, Wire(p))
                 /\ Len(s.buf) = IF Len(buf) >= Len(Wire(p)) THEN Len(buf) ELSE Len(Wire(p))
      /\ ~fits => s.rc = -2 /\ s.buf = buf
      /\ s.rc \in Int
  BY <1>1, <1>2, <1>3, SerializedFacts DEF Wire
<1>5. CASE fits
  <2>1. p.type \in MaySend.client => Len(s.buf) = Len(buf)
    <3>1. Len(buf) \in Nat BY LenProperties
    <3> QED BY <1>1, <1>2, <1>4, <1>5, <3>1
  <2>2. ~(s.rc < 0) BY <1>4, <1>5
  <2> QED BY <1>3, <1>4, <1>5, <2>1, <2>2
<1>6. CASE ~fits
  <2>1. ~(s.rc > 0) BY <1>4, <1>6
  <2> QED BY <1>2, <1>3, <1>4, <1>6, <2>1
<1> QED BY <1>5, <1>6

LEMMA HandledRc ==
    ASSUME NEW p \in Packets, NEW buf, At(buf, 1, Wire(p))
    PROVE  /\ p.type \in MaySend.server => ToClient(buf, MaxCount).rc \in Int
           /\ p.type \in MaySend.client => ToServer(buf, End(buf) - 1, MaxCount).rc \in Int
<1>1. typeOf(buf[1]) = p.type /\ MQTTPacket_decodeBuf(buf, 2).len \in Int
  <2>1. /\ typeOf(buf[1]) = p.type
        /\ MQTTPacket_decodeBuf(buf, 2) = [len |-> Digits(Len(Body(p))), value |-> Len(Body(p))]
    BY WireAt
  <2>2. Digits(Len(Body(p))) \in 1..4 BY WireFacts, PacketBytes
  <2> QED BY <2>1, <2>2
<1>2. TooShort(buf).rc \in Int BY <1>1 DEF TooShort
<1>3. MQTTDeserialize_connack(buf).rc \in Int BY <1>2 DEF MQTTDeserialize_connack
<1>4. MQTTDeserialize_ack(buf).rc \in Int BY <1>2 DEF MQTTDeserialize_ack
<1>5. MQTTDeserialize_unsuback(buf).rc \in Int BY <1>2 DEF MQTTDeserialize_unsuback
<1>6. MQTTDeserialize_publish(buf).rc \in Int BY <1>2 DEF MQTTDeserialize_publish
<1>7. MQTTDeserialize_suback(buf, MaxCount).rc \in Int BY <1>2 DEF MQTTDeserialize_suback
<1>8. MQTTDeserialize_subscribe(buf, MaxCount).rc \in Int
  BY DEF MQTTDeserialize_subscribe, MQTTPACKET_READ_ERROR
<1>9. MQTTDeserialize_unsubscribe(buf).rc \in Int BY <1>2 DEF MQTTDeserialize_unsubscribe
<1>10. MQTTDeserialize_connect(buf, End(buf) - 1).rc \in Int BY DEF MQTTDeserialize_connect
<1>11. [rc |-> 1, type |-> p.type].rc \in Int OBVIOUS
<1>12. ASSUME p.type \in MaySend.server PROVE ToClient(buf, MaxCount).rc \in Int
  <2>1. p.type \in {"CONNACK", "PUBLISH", "PUBACK", "PUBREC", "PUBREL", "PUBCOMP", "SUBACK",
                    "UNSUBACK", "PINGRESP"}
    BY <1>12 DEF MaySend
  <2>2. CASE p.type = "CONNACK" BY <1>1, <1>3, <2>2 DEF ToClient
  <2>3. CASE p.type = "PUBLISH" BY <1>1, <1>6, <2>3 DEF ToClient
  <2>4. CASE p.type = "SUBACK" BY <1>1, <1>7, <2>4 DEF ToClient
  <2>5. CASE p.type = "UNSUBACK" BY <1>1, <1>5, <2>5 DEF ToClient
  <2>6. CASE p.type \in {"PUBACK", "PUBREC", "PUBREL", "PUBCOMP"} BY <1>1, <1>4, <2>6 DEF ToClient
  <2>7. CASE p.type = "PINGRESP" BY <1>1, <1>11, <2>7 DEF ToClient
  <2> QED BY <2>1, <2>2, <2>3, <2>4, <2>5, <2>6, <2>7
<1>13. ASSUME p.type \in MaySend.client PROVE ToServer(buf, End(buf) - 1, MaxCount).rc \in Int
  <2>1. p.type \in {"CONNECT", "PUBLISH", "PUBACK", "PUBREC", "PUBREL", "PUBCOMP", "SUBSCRIBE",
                    "UNSUBSCRIBE", "PINGREQ", "DISCONNECT"}
    BY <1>13 DEF MaySend
  <2>2. CASE p.type = "CONNECT" BY <1>1, <1>10, <2>2 DEF ToServer
  <2>3. CASE p.type = "PUBLISH" BY <1>1, <1>6, <2>3 DEF ToServer
  <2>4. CASE p.type = "SUBSCRIBE" BY <1>1, <1>8, <2>4 DEF ToServer
  <2>5. CASE p.type = "UNSUBSCRIBE" BY <1>1, <1>9, <2>5 DEF ToServer
  <2>6. CASE p.type \in {"PUBACK", "PUBREC", "PUBREL", "PUBCOMP"} BY <1>1, <1>4, <2>6 DEF ToServer
  <2>7. CASE p.type \in {"PINGREQ", "DISCONNECT"} BY <1>1, <1>11, <2>7 DEF ToServer
  <2> QED BY <2>1, <2>2, <2>3, <2>4, <2>5, <2>6, <2>7
<1> QED BY <1>12, <1>13

LEMMA PathInit == Init => PathInv
<1> SUFFICES ASSUME Init PROVE PathInv OBVIOUS
<1> USE DEF Init
<1>1. PICK lengths \in BufferLengths : sendbuf = Zeros(lengths[1]) /\ readbuf = Zeros(lengths[2])
  OBVIOUS
<1>2. lengths[1] \in Nat /\ lengths[2] \in Nat BY PathAssumption
<1>3. \A n \in Nat : Zeros(n) \in Seq(Byte) /\ Len(Zeros(n)) = n
  <2> TAKE n \in Nat
  <2>1. 0 \in Byte BY DEF Byte
  <2>2. Zeros(n) = [i \in 1..n |-> 0] BY DEF Zeros
  <2> QED BY <2>1, <2>2
<1>4. /\ sendbuf \in Seq(Byte) /\ readbuf \in Seq(Byte)
      /\ Len(sendbuf) = lengths[1] /\ Len(readbuf) = lengths[2]
  BY <1>1, <1>2, <1>3
<1>5. count \in 0..MaxPackets BY PathAssumption
<1>6. \E l \in BufferLengths : Len(readbuf) = l[2] /\ (sender = "client" => Len(sendbuf) = l[1])
  BY <1>4
<1>7. packet = NULL /\ called = {} /\ step = "handled" /\ rc \in Int /\ sender \in DOMAIN MaySend
  OBVIOUS
<1>8. packet \in Packets \cup {NULL} /\ called \subseteq messageHandlers BY <1>7
<1> HIDE DEF Init
<1> QED BY <1>4, <1>5, <1>6, <1>7, <1>8 DEF PathInv

LEMMA PathSending ==
    ASSUME PathInv, NEW p \in Packets, Sending(p)
    PROVE  PathInv'
<1>1. /\ sender' = sender /\ readbuf' = readbuf /\ packet' = p /\ step' = "serialized"
      /\ called' = {} /\ count' = count + 1 /\ count < MaxPackets /\ p.type \in MaySend[sender]
      /\ rc' = Serialize(sendbuf, p).rc /\ sendbuf' = Serialize(sendbuf, p).buf
  BY DEF Sending
<1>2. sendbuf \in Seq(Byte) /\ readbuf \in Seq(Byte) /\ sender \in DOMAIN MaySend BY DEF PathInv
<1>3. p # NULL BY Kinds
<1>4. /\ rc' \in Int /\ sendbuf' \in Seq(Byte)
      /\ rc' > 0 => rc' = Len(Wire(p)) /\ At(sendbuf', 1, Wire(p))
      /\ rc' < 0 => WireLength(p) >= Len(sendbuf')
      /\ p.type \in MaySend.client => Len(sendbuf') = Len(sendbuf)
  BY <1>1, <1>2, SerializedWire
<1>5. count' \in 0..MaxPackets
  <2>1. count \in 0..MaxPackets /\ MaxPackets \in Nat BY PathAssumption DEF PathInv
  <2> QED BY <1>1, <2>1
<1>6. PICK lengths \in BufferLengths :
        Len(readbuf) = lengths[2] /\ (sender = "client" => Len(sendbuf) = lengths[1])
  BY DEF PathInv
<1>7. Len(readbuf') = lengths[2] /\ (sender' = "client" => Len(sendbuf') = lengths[1])
  <2>1. sender = "client" => MaySend[sender] = MaySend.client OBVIOUS
  <2> QED BY <1>1, <1>4, <1>6, <2>1
<1> QED BY <1>1, <1>2, <1>3, <1>4, <1>5, <1>7 DEF PathInv

LEMMA PathReading == ASSUME PathInv, Reading PROVE PathInv'
<1>1. /\ step = "serialized" /\ rc > 0 /\ step' = "read" /\ sender' = sender
      /\ sendbuf' = sendbuf /\ packet' = packet /\ called' = called /\ count' = count
      /\ rc' = MQTTPacket_read(readbuf, SubSeq(sendbuf, 1, rc)).rc
      /\ readbuf' = MQTTPacket_read(readbuf, SubSeq(sendbuf, 1, rc)).buf
  BY DEF Reading
<1>2. /\ sendbuf \in Seq(Byte) /\ readbuf \in Seq(Byte) /\ packet \in Packets /\ packet # NULL
      /\ rc = Len(Wire(packet)) /\ At(sendbuf, 1, Wire(packet))
  BY <1>1 DEF PathInv
<1>3. PICK lengths \in BufferLengths :
        Len(readbuf) = lengths[2] /\ (sender = "client" => Len(sendbuf) = lengths[1])
  BY DEF PathInv
<1>4. Len(readbuf) >= 5
  <2>1. lengths[2] \in Nat \ 0..4 BY PathAssumption
  <2> QED BY <1>3, <2>1
<1>5. SubSeq(sendbuf, 1, rc) = Wire(packet)
  <2>1. SubSeq(sendbuf, 1, 1 + Len(Wire(packet)) - 1) = Wire(packet) BY <1>2, AtRead
  <2>2. 1 + Len(Wire(packet)) - 1 = rc
    <3>1. rc \in Int BY DEF PathInv
    <3> QED BY <1>2, <3>1
  <2> QED BY <2>1, <2>2
<1>6. /\ HeaderOf(packet) \in Byte /\ HeaderOf(packet) \div 16 \in 1..14
      /\ Body(packet) \in Seq(Byte) /\ Len(Body(packet)) <= MaxLength
      /\ Len(Wire(packet)) = WireLength(packet) /\ WireLength(packet) \in Nat
  BY <1>2, WireFacts
<1>7. PICK r : r = MQTTPacket_read(readbuf, Packet(HeaderOf(packet), Body(packet))) OBVIOUS
<1>8. /\ r.buf \in Seq(Byte) /\ Len(r.buf) = Len(readbuf)
      /\ Len(Wire(packet)) > Len(readbuf) => r.rc = -1
      /\ Len(Wire(packet)) <= Len(readbuf) =>
           r.rc = HeaderOf(packet) \div 16 /\ At(r.buf, 1, Wire(packet))
  BY <1>2, <1>4, <1>6, <1>7, ReadFacts DEF Wire
<1>9. rc' = r.rc /\ readbuf' = r.buf BY <1>1, <1>5, <1>7 DEF Wire
<1>10. /\ readbuf' \in Seq(Byte) /\ Len(readbuf') = Len(readbuf) /\ rc' \in Int
       /\ rc' > 0 => At(readbuf', 1, Wire(packet))
       /\ rc' < 0 => WireLength(packet) > Len(readbuf')
  <2>1. Len(readbuf) \in Nat BY <1>2, LenProperties
  <2>2. CASE WireLength(packet) > Len(readbuf)
    <3>1. r.rc = -1 BY <1>6, <1>8, <2>2
    <3>2. ~(r.rc > 0) /\ r.rc \in Int BY <3>1
    <3> QED BY <1>8, <1>9, <2>2, <3>2
  <2>3. CASE ~(WireLength(packet) > Len(readbuf))
    <3>1. WireLength(packet) <= Len(readbuf) BY <1>6, <2>1, <2>3
    <3>2. r.rc = HeaderOf(packet) \div 16 /\ At(r.buf, 1, Wire(packet)) BY <1>6, <1>8, <3>1
    <3>3. ~(r.rc < 0) /\ r.rc \in Int BY <1>6, <3>2
    <3> QED BY <1>8, <1>9, <3>2, <3>3
  <2> QED BY <2>2, <2>3
<1>11. Len(readbuf') = lengths[2] /\ (sender' = "client" => Len(sendbuf') = lengths[1])
  BY <1>1, <1>3, <1>10
<1>12. /\ sender \in DOMAIN MaySend /\ packet.type \in MaySend[sender]
       /\ called \subseteq messageHandlers /\ count \in 0..MaxPackets
  BY <1>2 DEF PathInv
<1> QED BY <1>1, <1>2, <1>10, <1>11, <1>12 DEF PathInv

LEMMA PathHandling == ASSUME PathInv, Handling PROVE PathInv'
<1>1. /\ step = "read" /\ rc > 0 /\ step' = "handled" /\ sender' = sender /\ sendbuf' = sendbuf
      /\ readbuf' = readbuf /\ packet' = packet /\ count' = count
      /\ got' = IF sender = "server" THEN ToClient(readbuf, MaxCount)
                ELSE ToServer(readbuf, End(readbuf) - 1, MaxCount)
      /\ rc' = got'.rc
      /\ called' = IF typeOf(readbuf[1]) = "PUBLISH" /\ got'.rc = 1
                   THEN HandlersCalled(messageHandlers, got'.topicName) ELSE {}
  BY DEF Handling
<1>2. /\ packet \in Packets /\ packet # NULL /\ packet.type \in MaySend[sender]
      /\ At(readbuf, 1, Wire(packet)) /\ sender \in DOMAIN MaySend
  BY <1>1 DEF PathInv
<1>3. DOMAIN MaySend = {"client", "server"} BY DEF MaySend
<1>4. rc' \in Int
  <2>1. CASE sender = "server"
    <3>1. ToClient(readbuf, MaxCount).rc \in Int BY <1>2, <2>1, HandledRc
    <3> QED BY <1>1, <2>1, <3>1
  <2>2. CASE sender = "client"
    <3>1. ToServer(readbuf, End(readbuf) - 1, MaxCount).rc \in Int BY <1>2, <2>2, HandledRc
    <3> QED BY <1>1, <2>2, <3>1
  <2> QED BY <1>2, <1>3, <2>1, <2>2
<1>5. called' \subseteq messageHandlers BY <1>1 DEF HandlersCalled
<1>6. /\ sendbuf \in Seq(Byte) /\ readbuf \in Seq(Byte) /\ count \in 0..MaxPackets
      /\ \E lengths \in BufferLengths :
           Len(readbuf) = lengths[2] /\ (sender = "client" => Len(sendbuf) = lengths[1])
  BY DEF PathInv
<1> QED BY <1>1, <1>2, <1>4, <1>5, <1>6 DEF PathInv

LEMMA PathInvariant == Spec => []PathInv
<1>1. ASSUME PathInv, [Next]_vars PROVE PathInv'
  <2>1. CASE \E p \in Packets : Sending(p) BY <1>1, <2>1, PathSending
  <2>2. CASE Reading BY <1>1, <2>2, PathReading
  <2>3. CASE Handling BY <1>1, <2>3, PathHandling
  <2>4. CASE UNCHANGED vars BY <1>1, <2>4 DEF PathInv, vars
  <2> QED BY <1>1, <2>1, <2>2, <2>3, <2>4 DEF Next
<1> QED BY <1>1, PathInit, PTL DEF Spec

\* Type correctness: the buffers hold bytes, and only handlers that are there are called.
THEOREM PathTypes == Spec => []TypeOK
<1>1. ASSUME PathInv PROVE TypeOK
  <2>1. /\ sender \in DOMAIN MaySend /\ packet \in Packets \cup {NULL}
        /\ step \in {"serialized", "read", "handled"} /\ rc \in Int
        /\ called \subseteq messageHandlers /\ count \in 0..MaxPackets
        /\ sendbuf \in Seq(Byte) /\ readbuf \in Seq(Byte)
    BY <1>1 DEF PathInv
  <2>2. ASSUME NEW s \in Seq(Byte) PROVE Range(s) \subseteq 0..255
    <3>1. \A i \in DOMAIN s : s[i] \in Byte OBVIOUS
    <3> QED BY <3>1 DEF Range, Byte
  <2>3. Range(sendbuf) \cup Range(readbuf) \subseteq 0..255 BY <2>1, <2>2
  <2> QED BY <2>1, <2>3 DEF TypeOK
<1> QED BY <1>1, PathInvariant, PTL

(***************************************************************************)
(* A client's serializers write no packet past the end of its buffer, and  *)
(* MQTTPacket_read none past the end of the reader's.                      *)
(***************************************************************************)
THEOREM NothingPastTheBuffer == Spec => []FitsBuffer
<1>1. ASSUME PathInv PROVE FitsBuffer BY <1>1 DEF PathInv, FitsBuffer
<1> QED BY <1>1, PathInvariant, PTL

(***************************************************************************)
(* A serializer refuses a packet only when it would fill the buffer or     *)
(* more, and MQTTPacket_read only when it is longer than the buffer.       *)
(***************************************************************************)
THEOREM RefusalNeedsAFullBuffer == Spec => []RefusedOnlyIfFull
<1>1. ASSUME PathInv PROVE RefusedOnlyIfFull BY <1>1 DEF PathInv, RefusedOnlyIfFull
<1> QED BY <1>1, PathInvariant, PTL

-----------------------------------------------------------------------------
(* What the deserializers make of a packet that was written so *)

LEMMA ArrivedString ==
    ASSUME NEW s \in String, NEW buf, NEW i, At(buf, i, writeMQTTString(s))
    PROVE  readMQTTLenString(buf, i) = Arrived(s)
BY StringAt DEF Arrived, Content

LEMMA ConnackArrives ==
    ASSUME NEW p \in Packets, p \in ConnackPackets, NEW buf, At(buf, 1, Wire(p))
    PROVE  MQTTDeserialize_connack(buf) = ArrivedPacket(p)
<1>1. /\ p.type = "CONNACK" /\ p.sessionPresent \in {0, 1}
      /\ p = [type |-> p.type, sessionPresent |-> p.sessionPresent, connack_rc |-> p.connack_rc]
  BY DEF ConnackPackets, Flag
<1>2. Body(p) = <<p.sessionPresent, p.connack_rc>> BY <1>1 DEF Body
<1>3. /\ typeOf(buf[1]) = "CONNACK" /\ Start(buf) \in Nat \ {0} /\ End(buf) = Start(buf) + 2
      /\ At(buf, Start(buf), <<p.sessionPresent, p.connack_rc>>)
  BY <1>1, <1>2, WireAt
<1>4. buf[Start(buf)] = p.sessionPresent /\ buf[Start(buf) + 1] = p.connack_rc
  <2>1. /\ buf[Start(buf) + 1 - 1] = <<p.sessionPresent, p.connack_rc>>[1]
        /\ buf[Start(buf) + 2 - 1] = <<p.sessionPresent, p.connack_rc>>[2]
    BY <1>3 DEF At
  <2>2. Start(buf) + 1 - 1 = Start(buf) /\ Start(buf) + 2 - 1 = Start(buf) + 1 BY <1>3
  <2> QED BY <2>1, <2>2
<1>5. ~(End(buf) - Start(buf) < 2) BY <1>3
<1>6. p.sessionPresent % 2 = p.sessionPresent BY <1>1
<1>7. MQTTDeserialize_connack(buf) = [rc |-> 1, type |-> "CONNACK",
                                      sessionPresent |-> p.sessionPresent, connack_rc |-> p.connack_rc]
  BY <1>3, <1>4, <1>5, <1>6 DEF MQTTDeserialize_connack
<1>8. ArrivedPacket(p) = [field \in {"rc"} \cup DOMAIN p |-> IF field = "rc" THEN 1 ELSE p[field]]
  BY <1>1 DEF ArrivedPacket
<1> QED BY <1>1, <1>7, <1>8

LEMMA AckArrives ==
    ASSUME NEW p \in Packets, p \in AckPackets, NEW buf, At(buf, 1, Wire(p))
    PROVE  MQTTDeserialize_ack(buf) = ArrivedPacket(p)
<1>1. /\ p.type \in {"PUBACK", "PUBREC", "PUBREL", "PUBCOMP"} /\ p.dup \in {0, 1}
      /\ p.packetid \in TwoBytes /\ p = [type |-> p.type, dup |-> p.dup, packetid |-> p.packetid]
  BY DEF AckPackets, Flag
<1>2. Body(p) = writeInt(p.packetid) BY <1>1 DEF Body
<1>3. /\ typeOf(buf[1]) = p.type /\ buf[1] = HeaderOf(p)
      /\ Start(buf) \in Nat \ {0} /\ End(buf) = Start(buf) + 2
      /\ At(buf, Start(buf), writeInt(p.packetid))
  <2>1. Len(writeInt(p.packetid)) = 2 BY <1>1, IntBytes
  <2> QED BY <1>1, <1>2, <2>1, WireAt
<1>4. readInt(buf, Start(buf)) = p.packetid BY <1>1, <1>3, IntAt
<1>5. dupOf(buf[1]) = p.dup
  <2> DEFINE q == IF p.type = "PUBREL" THEN 1 ELSE 0
  <2>1. PICK m \in 1..14 : p.type = msgTypes[m]
    <3>1. 4 \in 1..14 /\ 5 \in 1..14 /\ 6 \in 1..14 /\ 7 \in 1..14 OBVIOUS
    <3> QED BY <1>1, <3>1, TypeNumbers
  <2>2. HeaderOf(p) = Header(msgTypes[m], p.dup, q, 0) BY <1>1, <2>1 DEF HeaderOf
  <2>3. q \in 0..3 /\ 0 \in {0, 1} OBVIOUS
  <2> HIDE DEF q
  <2> QED BY <1>1, <1>3, <2>2, <2>3, HeaderFacts
<1>6. ~(End(buf) - Start(buf) < 2) BY <1>3
<1>7. MQTTDeserialize_ack(buf) = [rc |-> 1, type |-> p.type, dup |-> p.dup, packetid |-> p.packetid]
  BY <1>3, <1>4, <1>5, <1>6 DEF MQTTDeserialize_ack
<1>8. ArrivedPacket(p) = [field \in {"rc"} \cup DOMAIN p |-> IF field = "rc" THEN 1 ELSE p[field]]
  BY <1>1 DEF ArrivedPacket
<1> QED BY <1>1, <1>7, <1>8

LEMMA UnsubackArrives ==
    ASSUME NEW p \in Packets, p \in UnsubackPackets, NEW buf, At(buf, 1, Wire(p))
    PROVE  MQTTDeserialize_unsuback(buf) = ArrivedPacket(p)
<1>1. /\ p.type = "UNSUBACK" /\ p.packetid \in TwoBytes
      /\ p = [type |-> p.type, packetid |-> p.packetid]
  BY DEF UnsubackPackets
<1>2. Body(p) = writeInt(p.packetid) BY <1>1 DEF Body
<1>3. /\ Start(buf) \in Nat \ {0} /\ End(buf) = Start(buf) + 2
      /\ At(buf, Start(buf), writeInt(p.packetid))
  <2>1. Len(writeInt(p.packetid)) = 2 BY <1>1, IntBytes
  <2> QED BY <1>1, <1>2, <2>1, WireAt
<1>4. readInt(buf, Start(buf)) = p.packetid BY <1>1, <1>3, IntAt
<1>5. ~(End(buf) - Start(buf) < 2) BY <1>3
<1>6. MQTTDeserialize_unsuback(buf) = [rc |-> 1, type |-> "UNSUBACK", packetid |-> p.packetid]
  BY <1>4, <1>5 DEF MQTTDeserialize_unsuback
<1>7. ArrivedPacket(p) = [field \in {"rc"} \cup DOMAIN p |-> IF field = "rc" THEN 1 ELSE p[field]]
  BY <1>1 DEF ArrivedPacket
<1> QED BY <1>1, <1>6, <1>7

LEMMA ZeroArrives ==
    ASSUME NEW p \in ZeroPackets
    PROVE  [rc |-> 1, type |-> p.type] = ArrivedPacket(p)
<1>1. p.type \in {"PINGREQ", "PINGRESP", "DISCONNECT"} /\ p = [type |-> p.type] BY DEF ZeroPackets
<1>2. ArrivedPacket(p) = [field \in {"rc"} \cup DOMAIN p |-> IF field = "rc" THEN 1 ELSE p[field]]
  BY <1>1 DEF ArrivedPacket
<1> QED BY <1>1, <1>2

\* The codes come out as they went in where char is unsigned; where it is signed, those below 128.
PlainCodes(p) == CharIsSigned => \A i \in 1..Len(p.grantedQoSs) : p.grantedQoSs[i] < 128

LEMMA SubackArrives ==
    ASSUME NEW p \in Packets, p \in SubackPackets, NEW buf, At(buf, 1, Wire(p)),
           PlainCodes(p)
    PROVE  /\ Len(p.grantedQoSs) <= MaxCount + 1 =>
                MQTTDeserialize_suback(buf, MaxCount) = ArrivedPacket(p)
           /\ Len(p.grantedQoSs) > MaxCount + 1 => MQTTDeserialize_suback(buf, MaxCount).rc = -1
<1>1. /\ p.type = "SUBACK" /\ p.packetid \in TwoBytes /\ p.grantedQoSs \in Seq(Byte)
      /\ p = [type |-> p.type, packetid |-> p.packetid, grantedQoSs |-> p.grantedQoSs]
  BY DEF SubackPackets
<1> DEFINE c == p.grantedQoSs
           w == writeInt(p.packetid)
           codes == SubSeq(buf, Start(buf) + 2, End(buf) - 1)
<1>2. Body(p) = w \o c BY <1>1 DEF Body
<1>3. w \in Seq(Byte) /\ Len(w) = 2 BY <1>1, IntBytes
<1>4. Len(w \o c) = 2 + Len(c) /\ Len(c) \in Nat
  <2>1. Len(w \o c) = Len(w) + Len(c) BY <1>1, <1>3, Joined
  <2> QED BY <1>1, <1>3, <2>1, LenProperties
<1>5. /\ typeOf(buf[1]) = "SUBACK" /\ Start(buf) \in Nat \ {0}
      /\ End(buf) = Start(buf) + Len(w \o c) /\ At(buf, Start(buf), w \o c)
  BY <1>1, <1>2, WireAt
<1>6. At(buf, Start(buf), w) /\ At(buf, Start(buf) + 2, c)
  <2>1. At(buf, Start(buf), w) /\ At(buf, Start(buf) + Len(w), c)
    BY <1>1, <1>3, <1>5, AtParts
  <2> QED BY <1>3, <2>1
<1>7. readInt(buf, Start(buf)) = p.packetid BY <1>1, <1>6, IntAt
<1>8. codes = c
  <2>1. SubSeq(buf, Start(buf) + 2, (Start(buf) + 2) + Len(c) - 1) = c BY <1>6, AtRead
  <2>2. (Start(buf) + 2) + Len(c) - 1 = End(buf) - 1 BY <1>4, <1>5
  <2> QED BY <2>1, <2>2
<1>9. [i \in DOMAIN codes |-> readChar(codes[i])] = c
  <2>1. ASSUME NEW i \in 1..Len(c) PROVE readChar(c[i]) = c[i]
    <3>1. c[i] \in 0..255 BY <1>1, ElementOfSeq DEF Byte
    <3>2. c[i] < 128 => ~(c[i] >= 128)
      <4>1. PICK x \in 0..255 : x = c[i] BY <3>1
      <4>2. x < 128 => ~(x >= 128) OBVIOUS
      <4> QED BY <4>1, <4>2
    <3>3. CharIsSigned => c[i] < 128 BY Zenon DEF PlainCodes
    <3> QED BY <3>2, <3>3, Zenon DEF readChar
  <2>2. DOMAIN c = 1..Len(c) /\ c = [i \in 1..Len(c) |-> c[i]] BY <1>1
  <2> QED BY <1>8, <2>1, <2>2
<1>10. ~(End(buf) - Start(buf) < 2) BY <1>4, <1>5
<1>11. MQTTDeserialize_suback(buf, MaxCount)
         = IF Len(c) > MaxCount + 1 THEN [rc |-> -1]
           ELSE [rc |-> 1, type |-> "SUBACK", packetid |-> p.packetid, grantedQoSs |-> c]
  BY <1>5, <1>7, <1>8, <1>9, <1>10 DEF MQTTDeserialize_suback
<1>12. ArrivedPacket(p) = [field \in {"rc"} \cup DOMAIN p |-> IF field = "rc" THEN 1 ELSE p[field]]
  BY <1>1 DEF ArrivedPacket
<1>13. ArrivedPacket(p) = [rc |-> 1, type |-> "SUBACK", packetid |-> p.packetid, grantedQoSs |-> c]
  BY <1>1, <1>12
<1>14. MaxCount \in Nat BY PathAssumption
<1>15. ASSUME Len(c) <= MaxCount + 1 PROVE MQTTDeserialize_suback(buf, MaxCount) = ArrivedPacket(p)
  <2>1. ~(Len(c) > MaxCount + 1) BY <1>4, <1>14, <1>15
  <2> QED BY <1>11, <1>13, <2>1
<1>16. ASSUME Len(c) > MaxCount + 1 PROVE MQTTDeserialize_suback(buf, MaxCount).rc = -1
  BY <1>11, <1>16
<1> QED BY <1>15, <1>16

LEMMA PublishArrives ==
    ASSUME NEW p \in Packets, p \in PublishPackets, NEW buf, At(buf, 1, Wire(p))
    PROVE  MQTTDeserialize_publish(buf) = ArrivedPacket(p)
<1>1. /\ p.type = "PUBLISH" /\ p.dup \in {0, 1} /\ p.qos \in 0..3 /\ p.retained \in {0, 1}
      /\ p.packetid \in TwoBytes /\ p.topicName \in String /\ p.payload \in Seq(Byte)
  BY DEF PublishPackets, Flag
<1> DEFINE t == writeMQTTString(p.topicName)
           i == IF p.qos > 0 THEN writeInt(p.packetid) ELSE <<>>
           k == IF p.qos > 0 THEN 2 ELSE 0
           S == Start(buf)
           rest == S + 2 + MQTTstrlen(p.topicName) + k
<1>2. t \in Seq(Byte) /\ Len(t) = 2 + MQTTstrlen(p.topicName) /\ MQTTstrlen(p.topicName) \in Nat
  BY <1>1, StringBytesFacts
<1>3. i \in Seq(Byte) /\ Len(i) = k /\ k \in Nat BY <1>1, IntBytes, EmptyText
<1>4. Body(p) = (t \o i) \o p.payload BY <1>1 DEF Body, PublishBody
<1>5. /\ typeOf(buf[1]) = "PUBLISH" /\ buf[1] = HeaderOf(p)
      /\ S \in Nat \ {0} /\ End(buf) = S + Len(Body(p)) /\ At(buf, S, Body(p))
  BY <1>1, WireAt
<1>6. t \o i \in Seq(Byte) /\ Len(t \o i) = Len(t) + Len(i) BY <1>2, <1>3, Joined
<1>7. Len((t \o i) \o p.payload) = Len(t \o i) + Len(p.payload) BY <1>1, <1>6, Joined
<1>8. At(buf, S, t \o i) /\ At(buf, S + Len(t \o i), p.payload)
  <2>1. PICK u : u = t \o i OBVIOUS
  <2>2. At(buf, S, u \o p.payload) BY <1>4, <1>5, <2>1
  <2>3. u \in Seq(Byte) BY <1>6, <2>1
  <2> HIDE DEF t, i, k, S
  <2>4. At(buf, S, u) /\ At(buf, S + Len(u), p.payload) BY <1>1, <2>2, <2>3, AtParts
  <2> QED BY <2>1, <2>4
<1>9. At(buf, S, t) /\ At(buf, S + Len(t), i) BY <1>2, <1>3, <1>8, AtParts
<1>10. Len(p.payload) \in Nat BY <1>1, LenProperties
<1>11. /\ readMQTTLenString(buf, S) = Arrived(p.topicName)
       /\ AfterString(buf, S) = S + 2 + MQTTstrlen(p.topicName)
       /\ \A end \in Int : StringFits(buf, S, end) <=> S + 2 + MQTTstrlen(p.topicName) <= end
  BY <1>1, <1>9, StringAt, ArrivedString
<1>12. End(buf) = rest + Len(p.payload) /\ rest \in Int /\ S + Len(t \o i) = rest
  <2>1. Len(Body(p)) = (2 + MQTTstrlen(p.topicName)) + k + Len(p.payload)
    BY <1>2, <1>3, <1>4, <1>6, <1>7
  <2>2. PICK m \in Nat, n \in Nat, j \in Nat, c \in Nat :
          MQTTstrlen(p.topicName) = m /\ k = n /\ Len(p.payload) = j /\ S = c
    BY <1>2, <1>3, <1>5, <1>10
  <2>3. Len(t \o i) = (2 + m) + n BY <1>2, <1>3, <1>6, <2>2
  <2>4. rest = c + 2 + m + n BY <2>2
  <2> HIDE DEF t, i, k, S, rest
  <2> QED BY <1>5, <2>1, <2>2, <2>3, <2>4
<1>13. StringFits(buf, S, End(buf))
  <2>1. S + 2 + MQTTstrlen(p.topicName) <= End(buf) /\ End(buf) \in Int
    <3> HIDE DEF t, i, k, S
    <3> QED BY <1>2, <1>3, <1>5, <1>10, <1>12
  <2> QED BY <1>11, <2>1
<1>14. SubSeq(buf, rest, End(buf) - 1) = p.payload
  <2>1. At(buf, rest, p.payload) BY <1>8, <1>12
  <2>2. SubSeq(buf, rest, rest + Len(p.payload) - 1) = p.payload BY <2>1, AtRead
  <2> QED BY <1>12, <2>2
<1>15. p.qos > 0 => readInt(buf, rest - 2) = p.packetid
  <2> SUFFICES ASSUME p.qos > 0 PROVE readInt(buf, rest - 2) = p.packetid OBVIOUS
  <2>1. i = writeInt(p.packetid) /\ k = 2 OBVIOUS
  <2>2. rest - 2 = S + Len(t)
    <3>1. k = 2 OBVIOUS
    <3> HIDE DEF t, i, k, S
    <3> QED BY <1>2, <1>5, <3>1
  <2>3. At(buf, S + Len(t), writeInt(p.packetid)) BY <1>9, <2>1
  <2>4. readInt(buf, S + Len(t)) = p.packetid BY <1>1, <2>3, IntAt
  <2> QED BY <2>2, <2>4
<1>16. dupOf(buf[1]) = p.dup /\ qosOf(buf[1]) = p.qos /\ retainOf(buf[1]) = p.retained
  <2>1. HeaderOf(p) = Header(msgTypes[3], p.dup, p.qos, p.retained)
    BY <1>1, TypeNumbers DEF HeaderOf
  <2>2. 3 \in 1..14 OBVIOUS
  <2> QED BY <1>1, <1>5, <2>1, <2>2, HeaderFacts
<1>17. AfterString(buf, S) + (IF qosOf(buf[1]) > 0 THEN 2 ELSE 0) = rest BY <1>11, <1>16
<1>18. MQTTDeserialize_publish(buf)
         = [rc |-> 1, type |-> "PUBLISH", dup |-> p.dup, qos |-> p.qos, retained |-> p.retained,
            topicName |-> Arrived(p.topicName),
            packetid |-> IF p.qos > 0 THEN p.packetid ELSE NULL, payload |-> p.payload]
  <2>1. PICK r : r = rest OBVIOUS
  <2>2. (IF p.qos > 0 THEN readInt(buf, r - 2) ELSE NULL) = IF p.qos > 0 THEN p.packetid ELSE NULL
    BY <1>15, <2>1
  <2>3. SubSeq(buf, r, End(buf) - 1) = p.payload BY <1>14, <2>1
  <2>4. AfterString(buf, S) + (IF p.qos > 0 THEN 2 ELSE 0) = r BY <1>16, <1>17, <2>1
  <2> HIDE DEF rest
  <2> QED BY <1>5, <1>11, <1>13, <1>16, <2>2, <2>3, <2>4 DEF MQTTDeserialize_publish
<1>19. ArrivedPacket(p)
         = [rc |-> 1, type |-> "PUBLISH", dup |-> p.dup, qos |-> p.qos, retained |-> p.retained,
            topicName |-> Arrived(p.topicName), payload |-> p.payload,
            packetid |-> IF p.qos > 0 THEN p.packetid ELSE NULL]
  BY <1>1 DEF ArrivedPacket
<1> QED BY <1>18, <1>19

-----------------------------------------------------------------------------
(* The loop over the filters *)

\* Counts grow by at least two bytes for each filter.
LEMMA CountsGrow ==
    ASSUME NEW s, NEW f, Counts(f, s), Len(s) \in Nat, \A k \in 1..Len(s) : Len(s[k]) >= 2 /\ Len(s[k]) \in Nat
    PROVE  \A k \in 0..Len(s) : f[k] + 2 * (Len(s) - k) <= f[Len(s)]
<1> DEFINE n == Len(s)
           S == {d \in Nat : d <= n => f[n - d] + 2 * d <= f[n]}
<1>1. f \in [0..n -> Nat] /\ \A k \in 1..n : f[k] = f[k - 1] + Len(s[k]) BY DEF Counts
<1>2. 0 \in S
  <2>1. n - 0 = n /\ n \in 0..n OBVIOUS
  <2>2. f[n] \in Nat BY <1>1, <2>1
  <2> QED BY <2>1, <2>2
<1>3. ASSUME NEW d \in Nat, d \in S PROVE d + 1 \in S
  <2> SUFFICES ASSUME d + 1 <= n PROVE f[n - (d + 1)] + 2 * (d + 1) <= f[n] OBVIOUS
  <2>1. f[n - d] + 2 * d <= f[n] BY <1>3
  <2>2. PICK k \in 1..n : k = n - d
    <3>1. n \in Nat OBVIOUS
    <3>2. n - d \in 1..n BY <3>1
    <3> QED BY <3>2
  <2>3. k - 1 = n - (d + 1) /\ k - 1 \in 0..n /\ k \in 0..n BY <2>2
  <2>4. f[k] = f[k - 1] + Len(s[k]) /\ Len(s[k]) >= 2 /\ Len(s[k]) \in Nat BY <1>1, <2>2
  <2>5. PICK x \in Nat, y \in Nat, z \in Nat, m \in Nat : x = f[k] /\ y = f[k - 1] /\ z = Len(s[k]) /\ m = f[n]
    <3>1. n \in 0..n OBVIOUS
    <3>2. f[k] \in Nat /\ f[k - 1] \in Nat /\ f[n] \in Nat BY <1>1, <2>3, <3>1
    <3> QED BY <2>4, <3>2
  <2>6. y + 2 * (d + 1) <= m
    <3>1. x = y + z /\ z >= 2 /\ x + 2 * d <= m BY <2>1, <2>2, <2>4, <2>5
    <3> QED BY <3>1
  <2> QED BY <2>3, <2>5, <2>6
<1> HIDE DEF S
<1>4. Nat \subseteq S BY <1>2, <1>3, SetInduction
<1>5. ASSUME NEW k \in 0..n PROVE f[k] + 2 * (n - k) <= f[n]
  <2>1. n - k \in Nat /\ n - k <= n /\ n - (n - k) = k OBVIOUS
  <2>2. n - k \in S BY <1>4, <2>1
  <2> QED BY <2>1, <2>2 DEF S
<1> QED BY <1>5

\* pieces, each a string with `extra' bytes after it
Entries(s, strings, extra) ==
    /\ s \in Seq(Seq(Byte)) /\ strings \in Seq(String) /\ Len(s) = Len(strings)
    /\ \A k \in 1..Len(s) :
          /\ Len(s[k]) = 2 + MQTTstrlen(strings[k]) + extra
          /\ \E x \in Seq(Byte) : s[k] = writeMQTTString(strings[k]) \o x

\* they follow the packet id in the packet in buf, and end with it
EntriesIn(s, strings, extra, f, buf) ==
    /\ Entries(s, strings, extra) /\ extra \in {0, 1}
    /\ Counts(f, s) /\ f[0] = 2
    /\ Start(buf) \in Nat \ {0} /\ End(buf) = Start(buf) + f[Len(s)]
    /\ At(buf, Start(buf) + 2, FlattenSeq(s))

LEMMA EntryAt ==
    ASSUME NEW s, NEW strings, NEW extra, NEW f, NEW buf, EntriesIn(s, strings, extra, f, buf),
           NEW k \in 1..Len(s), NEW i, i = Start(buf) + f[k - 1]
    PROVE  /\ At(buf, i, s[k]) /\ i \in Nat \ {0} /\ i < End(buf) /\ StringFits(buf, i, End(buf))
           /\ AfterString(buf, i) + extra = Start(buf) + f[k]
           /\ AfterString(buf, i) = i + 2 + MQTTstrlen(strings[k])
           /\ Start(buf) + f[k] <= End(buf) /\ f[k - 1] \in Nat
           /\ readMQTTLenString(buf, i) = Arrived(strings[k])
           /\ MQTTstrlen(strings[k]) \in Nat
<1> DEFINE n == Len(s)
<1>0. /\ Entries(s, strings, extra) /\ extra \in {0, 1} /\ Counts(f, s) /\ f[0] = 2
      /\ Start(buf) \in Nat \ {0} /\ End(buf) = Start(buf) + f[n]
      /\ At(buf, Start(buf) + 2, FlattenSeq(s))
  BY DEF EntriesIn
<1>1. s \in Seq(Seq(Byte)) /\ strings \in Seq(String) /\ n = Len(strings) /\ n \in Nat
  BY <1>0, LenProperties DEF Entries
<1>2. \A j \in 1..n : strings[j] \in String BY <1>1, ElementOfSeq
<1>3. \A j \in 1..n : MQTTstrlen(strings[j]) \in Nat BY <1>2, StringBytesFacts
<1>4. \A j \in 1..n : Len(s[j]) = 2 + MQTTstrlen(strings[j]) + extra BY <1>0 DEF Entries
<1>5. \A j \in 1..n : Len(s[j]) >= 2 /\ Len(s[j]) \in Nat
  <2> TAKE j \in 1..n
  <2>1. PICK m \in Nat : m = MQTTstrlen(strings[j]) BY <1>3
  <2>2. Len(s[j]) = 2 + m + extra BY <1>4, <2>1
  <2> QED BY <1>0, <2>2
<1>6. f \in [0..n -> Nat] /\ \A j \in 1..n : f[j] = f[j - 1] + Len(s[j]) BY <1>0 DEF Counts
<1>7. \A j \in 0..n : f[j] + 2 * (n - j) <= f[n] BY <1>0, <1>1, <1>5, CountsGrow
<1>8. PICK x \in Seq(Byte) : s[k] = writeMQTTString(strings[k]) \o x BY <1>0 DEF Entries
<1>9. k \in 0..n /\ k - 1 \in 0..n /\ n \in 0..n BY <1>1
<1>10. PICK a \in Nat, b \in Nat, c \in Nat, m \in Nat, S \in Nat \ {0} :
         f[k - 1] = a /\ f[k] = b /\ f[n] = c /\ MQTTstrlen(strings[k]) = m /\ Start(buf) = S
  BY <1>0, <1>3, <1>6, <1>9
<1>11. b = a + (2 + m + extra) /\ b <= c /\ a < c
  <2>1. b = a + (2 + m + extra) BY <1>4, <1>6, <1>10
  <2>2. b + 2 * (n - k) <= c BY <1>7, <1>9, <1>10
  <2>3. n - k \in Nat BY <1>1
  <2>4. PICK d \in Nat : d = n - k BY <2>3
  <2> HIDE DEF n
  <2>5. b <= c BY <2>2, <2>4
  <2> QED BY <1>0, <2>1, <2>5
<1>12. At(buf, i, s[k])
  <2>1. At(buf, (Start(buf) + 2) + (f[k - 1] - f[0]), s[k]) BY <1>0, <1>1, PiecesAt
  <2>2. (Start(buf) + 2) + (f[k - 1] - f[0]) = i BY <1>0, <1>10
  <2> QED BY <2>1, <2>2
<1>13. At(buf, i, writeMQTTString(strings[k]))
  <2>1. writeMQTTString(strings[k]) \in Seq(Byte) BY <1>2, StringBytesFacts
  <2>2. At(buf, i, writeMQTTString(strings[k]) \o x) BY <1>8, <1>12
  <2> QED BY <2>1, <2>2, AtParts
<1>14. /\ i \in Nat \ {0} /\ AfterString(buf, i) = i + 2 + m
       /\ \A end \in Int : StringFits(buf, i, end) <=> i + 2 + m <= end
       /\ readMQTTLenString(buf, i) = Arrived(strings[k])
  BY <1>2, <1>10, <1>13, StringAt, ArrivedString
<1>15. i = S + a /\ End(buf) = S + c /\ End(buf) \in Int BY <1>0, <1>10
<1>16. i < End(buf) /\ i + 2 + m <= End(buf) /\ i + 2 + m + extra = S + b /\ S + b <= End(buf)
  BY <1>0, <1>10, <1>11, <1>15
<1>17. StringFits(buf, i, End(buf)) BY <1>14, <1>15, <1>16
<1> QED BY <1>10, <1>12, <1>14, <1>16, <1>17

LEMMA FiltersFound ==
    ASSUME NEW s, NEW strings, NEW extra, NEW f, NEW buf, EntriesIn(s, strings, extra, f, buf),
           NEW maxcount \in Nat
    PROVE  Filters(buf, extra, maxcount)
             = IF Len(s) <= maxcount
               THEN [ok |-> TRUE, at |-> [k \in 1..Len(s) |-> Start(buf) + f[k - 1]]]
               ELSE [ok |-> FALSE]
<1> DEFINE n == Len(s)
           S == Start(buf)
           E == End(buf)
           next(i) == IF i # 0 /\ i < E /\ StringFits(buf, i, E) /\ AfterString(buf, i) + extra <= E
                      THEN AfterString(buf, i) + extra ELSE 0
           places == CHOOSE g : g = [k \in 0..maxcount |->
                                       IF k = 0 THEN S + 2 ELSE next(g[k - 1])]
           h == [k \in 0..maxcount |-> IF k <= n THEN S + f[k] ELSE 0]
           last == {k \in 0..maxcount : places[k] >= E}
<1>1. s \in Seq(Seq(Byte)) /\ n \in Nat /\ f \in [0..n -> Nat]
  BY LenProperties DEF EntriesIn, Entries, Counts
<1>2. Filters(buf, extra, maxcount)
        = IF last = {} THEN [ok |-> FALSE]
          ELSE [ok |-> TRUE, at |-> [k \in 1..Min(last) |-> places[k - 1]]]
  BY DEF Filters
<1>3. \A k \in 1..n : LET i == S + f[k - 1]
                      IN /\ i \in Nat \ {0} /\ i < E /\ StringFits(buf, i, E)
                         /\ AfterString(buf, i) + extra = S + f[k] /\ S + f[k] <= E
  BY EntryAt
<1>0. S \in Nat \ {0} /\ E = S + f[n] /\ f[0] = 2 BY DEF EntriesIn
<1> HIDE DEF S, E
<1>4. S \in Nat \ {0} /\ E = S + f[n] /\ f[n] \in Nat /\ E \in Nat
  <2>1. n \in 0..n BY <1>1
  <2>2. f[n] \in Nat BY <1>1, <2>1
  <2> QED BY <1>0, <2>2
<1>5. \A k \in 1..n : next(S + f[k - 1]) = S + f[k]
  <2> TAKE k \in 1..n
  <2>1. PICK i : i = S + f[k - 1] OBVIOUS
  <2>2. /\ i \in Nat \ {0} /\ i < E /\ StringFits(buf, i, E)
        /\ AfterString(buf, i) + extra = S + f[k] /\ S + f[k] <= E
    BY <1>3, <2>1
  <2>3. next(i) = S + f[k] BY <2>2
  <2> QED BY <2>1, <2>3
<1>6. next(E) = 0 /\ next(0) = 0
  <2>1. ~(E < E) BY <1>4
  <2> QED BY <2>1
<1> HIDE DEF next
<1>7. h = [k \in 0..maxcount |-> IF k = 0 THEN S + 2 ELSE next(h[k - 1])]
  <2>1. ASSUME NEW k \in 0..maxcount
        PROVE  (IF k <= n THEN S + f[k] ELSE 0) = IF k = 0 THEN S + 2 ELSE next(h[k - 1])
    <3>1. CASE k = 0
      <4>1. 0 <= n BY <1>1
      <4> QED BY <1>0, <3>1, <4>1
    <3>2. CASE k # 0
      <4>1. k - 1 \in 0..maxcount /\ k \in Nat /\ k >= 1 BY <3>2
      <4>2. h[k - 1] = IF k - 1 <= n THEN S + f[k - 1] ELSE 0 BY <4>1
      <4>3. CASE k <= n
        <5>1. k \in 1..n /\ k - 1 <= n BY <1>1, <4>1, <4>3
        <5>2. h[k - 1] = S + f[k - 1] BY <4>2, <5>1
        <5>3. next(h[k - 1]) = S + f[k] BY <1>5, <5>1, <5>2
        <5> QED BY <3>2, <4>3, <5>3
      <4>4. CASE k = n + 1
        <5>1. k - 1 = n /\ k - 1 <= n /\ ~(k <= n) BY <1>1, <4>4
        <5>2. h[k - 1] = E BY <1>4, <4>2, <5>1
        <5> QED BY <1>6, <3>2, <5>1, <5>2
      <4>5. CASE k > n + 1
        <5>1. ~(k - 1 <= n) /\ ~(k <= n) BY <1>1, <4>1, <4>5
        <5> QED BY <1>6, <3>2, <4>2, <5>1
      <4>6. k <= n \/ k = n + 1 \/ k > n + 1 BY <1>1, <4>1
      <4> QED BY <4>3, <4>4, <4>5, <4>6, Zenon
    <3> QED BY <3>1, <3>2
  <2> HIDE DEF h
  <2>2. h = [k \in 0..maxcount |-> IF k <= n THEN S + f[k] ELSE 0] BY DEF h
  <2> QED BY <2>1, <2>2
<1> HIDE DEF h
<1>8. places = [k \in 0..maxcount |-> IF k = 0 THEN S + 2 ELSE next(places[k - 1])]
  BY <1>7
<1> HIDE DEF places
<1>9. \A k \in 0..maxcount : places[k] = h[k]
  <2> DEFINE T == {k \in Nat : k <= maxcount => places[k] = h[k]}
  <2>1. 0 \in T
    <3>1. 0 \in 0..maxcount OBVIOUS
    <3> QED BY <1>7, <1>8, <3>1
  <2>2. ASSUME NEW k \in Nat, k \in T PROVE k + 1 \in T
    <3> SUFFICES ASSUME k + 1 <= maxcount PROVE places[k + 1] = h[k + 1] OBVIOUS
    <3>1. k + 1 \in 0..maxcount /\ k + 1 # 0 /\ (k + 1) - 1 = k /\ k <= maxcount OBVIOUS
    <3>2. places[k] = h[k] BY <2>2, <3>1
    <3>3. places[k + 1] = next(places[k]) BY <1>8, <3>1
    <3>4. h[k + 1] = next(h[k]) BY <1>7, <3>1
    <3> QED BY <3>2, <3>3, <3>4
  <2> HIDE DEF T
  <2>3. Nat \subseteq T BY <2>1, <2>2, SetInduction
  <2> QED BY <2>3 DEF T
<1>10. \A k \in 0..maxcount : places[k] = IF k <= n THEN S + f[k] ELSE 0 BY <1>9 DEF h
<1>11. \A k \in 0..maxcount : places[k] >= E <=> k = n
  <2> TAKE k \in 0..maxcount
  <2>1. CASE k < n
    <3>1. k + 1 \in 1..n /\ (k + 1) - 1 = k /\ k <= n BY <1>1, <2>1
    <3>2. S + f[k] < E /\ S + f[k] \in Nat BY <1>3, <3>1
    <3>3. places[k] = S + f[k] BY <1>10, <3>1
    <3>4. ~(places[k] >= E) BY <1>4, <3>2, <3>3
    <3> QED BY <2>1, <3>4
  <2>2. CASE k = n
    <3>1. k <= n BY <1>1, <2>2
    <3>2. places[k] = E BY <1>4, <1>10, <2>2, <3>1
    <3> QED BY <1>4, <2>2, <3>2
  <2>3. CASE k > n
    <3>1. ~(k <= n) /\ k # n BY <1>1, <2>3
    <3>2. places[k] = 0 BY <1>10, <3>1
    <3>3. ~(0 >= E) BY <1>4
    <3> QED BY <3>1, <3>2, <3>3
  <2> QED BY <1>1, <2>1, <2>2, <2>3
<1>12. last = IF n <= maxcount THEN {n} ELSE {}
  <2>1. last = {k \in 0..maxcount : k = n} BY <1>11
  <2>2. n <= maxcount <=> n \in 0..maxcount BY <1>1
  <2> QED BY <2>1, <2>2
<1> HIDE DEF last
<1>13. CASE n <= maxcount
  <2>1. last = {n} /\ last # {} BY <1>12, <1>13
  <2>2. Min(last) = n
    <3>1. \A y \in {n} : y = n OBVIOUS
    <3>2. Min(last) = CHOOSE x \in {n} : \A y \in {n} : x <= y BY <2>1 DEF Min
    <3>3. \A y \in {n} : n <= y BY <1>1
    <3> QED BY <3>2, <3>3
  <2>3. \A k \in 1..n : places[k - 1] = S + f[k - 1]
    <3> TAKE k \in 1..n
    <3>1. k - 1 \in 0..maxcount /\ k - 1 <= n BY <1>1, <1>13
    <3> QED BY <1>10, <3>1
  <2>4. [k \in 1..n |-> places[k - 1]] = [k \in 1..n |-> S + f[k - 1]] BY <2>3
  <2> QED BY <1>2, <1>13, <2>1, <2>2, <2>4 DEF S
<1>14. CASE ~(n <= maxcount)
  <2>1. last = {} BY <1>12, <1>14
  <2> QED BY <1>2, <1>14, <2>1
<1> QED BY <1>13, <1>14

FiltersWritten(p, s, extra) ==
    /\ Entries(s, p.topicFilters, extra) /\ extra \in {0, 1}
    /\ Body(p) = writeInt(p.packetid) \o FlattenSeq(s)
    /\ BodyLength(p) = FiltersLength(p, extra)

\* SUBSCRIBE and UNSUBSCRIBE: the entries are found where they were written.
LEMMA EntriesFound ==
    ASSUME NEW p \in Packets, NEW buf, At(buf, 1, Wire(p)), p.packetid \in TwoBytes,
           NEW extra, NEW s, FiltersWritten(p, s, extra), NEW maxcount \in Nat
    PROVE  /\ readInt(buf, Start(buf)) = p.packetid
           /\ Len(s) > maxcount => Filters(buf, extra, maxcount) = [ok |-> FALSE]
           /\ Len(s) <= maxcount =>
                \E at : /\ Filters(buf, extra, maxcount) = [ok |-> TRUE, at |-> at]
                        /\ DOMAIN at = 1..Len(s)
                        /\ \A k \in 1..Len(s) :
                             /\ readMQTTLenString(buf, at[k]) = Arrived(p.topicFilters[k])
                             /\ At(buf, at[k], s[k])
                             /\ AfterString(buf, at[k]) = at[k] + 2 + MQTTstrlen(p.topicFilters[k])
           /\ 2 * Len(s) + 2 <= End(buf) - Start(buf) /\ Start(buf) \in Int /\ End(buf) \in Int
<1> DEFINE n == Len(s)
           w == writeInt(p.packetid)
<1>1. /\ s \in Seq(Seq(Byte)) /\ p.topicFilters \in Seq(String) /\ n = Len(p.topicFilters)
      /\ \A k \in 1..n : Len(s[k]) = 2 + MQTTstrlen(p.topicFilters[k]) + extra
  BY DEF FiltersWritten, Entries
<1>0. extra \in {0, 1} BY DEF FiltersWritten
<1>2. n \in Nat BY <1>1, LenProperties
<1>3. PICK f : Counts(f, s) /\ f[0] = 2 /\ FiltersLength(p, extra) = f[n] BY <1>0, <1>1, FilterCounts
<1>4. FlattenSeq(s) \in Seq(Byte) BY <1>0, <1>1, FiltersAreWritten
<1>5. w \in Seq(Byte) /\ Len(w) = 2 BY IntBytes
<1>6. /\ Start(buf) \in Nat \ {0} /\ End(buf) = Start(buf) + f[n] /\ End(buf) \in Nat
      /\ At(buf, Start(buf), w \o FlattenSeq(s))
  <2>1. Len(Body(p)) = BodyLength(p) BY WireFacts
  <2> QED BY <1>3, <2>1, WireAt DEF FiltersWritten
<1>7. At(buf, Start(buf), w) /\ At(buf, Start(buf) + 2, FlattenSeq(s))
  <2>1. At(buf, Start(buf), w) /\ At(buf, Start(buf) + Len(w), FlattenSeq(s))
    BY <1>4, <1>5, <1>6, AtParts
  <2> QED BY <1>5, <2>1
<1>8. readInt(buf, Start(buf)) = p.packetid BY <1>7, IntAt
<1>13. EntriesIn(s, p.topicFilters, extra, f, buf)
  BY <1>0, <1>3, <1>6, <1>7 DEF EntriesIn, FiltersWritten
<1>9. Filters(buf, extra, maxcount)
        = IF n <= maxcount THEN [ok |-> TRUE, at |-> [k \in 1..n |-> Start(buf) + f[k - 1]]]
          ELSE [ok |-> FALSE]
  BY <1>13, FiltersFound
<1> HIDE DEF w
<1>10. ASSUME n > maxcount PROVE Filters(buf, extra, maxcount) = [ok |-> FALSE]
  <2>1. ~(n <= maxcount) BY <1>2, <1>10
  <2> QED BY <1>9, <2>1
<1>11. ASSUME n <= maxcount
       PROVE  \E at : /\ Filters(buf, extra, maxcount) = [ok |-> TRUE, at |-> at]
                      /\ DOMAIN at = 1..n
                      /\ \A k \in 1..n :
                           /\ readMQTTLenString(buf, at[k]) = Arrived(p.topicFilters[k])
                           /\ At(buf, at[k], s[k])
                           /\ AfterString(buf, at[k]) = at[k] + 2 + MQTTstrlen(p.topicFilters[k])
  <2> DEFINE at == [k \in 1..n |-> Start(buf) + f[k - 1]]
  <2>1. Filters(buf, extra, maxcount) = [ok |-> TRUE, at |-> at] BY <1>9, <1>11
  <2>2. ASSUME NEW k \in 1..n
        PROVE  /\ readMQTTLenString(buf, at[k]) = Arrived(p.topicFilters[k])
               /\ At(buf, at[k], s[k])
               /\ AfterString(buf, at[k]) = at[k] + 2 + MQTTstrlen(p.topicFilters[k])
    <3>1. PICK i : i = Start(buf) + f[k - 1] OBVIOUS
    <3>2. at[k] = i BY <3>1
    <3> HIDE DEF at
    <3>3. /\ readMQTTLenString(buf, i) = Arrived(p.topicFilters[k]) /\ At(buf, i, s[k])
          /\ AfterString(buf, i) = i + 2 + MQTTstrlen(p.topicFilters[k])
      BY <1>13, <3>1, EntryAt
    <3> QED BY <3>2, <3>3
  <2>3. DOMAIN at = 1..n OBVIOUS
  <2> HIDE DEF at
  <2> QED BY <2>1, <2>2, <2>3
<1>12. 2 * n + 2 <= End(buf) - Start(buf)
  <2>1. \A k \in 1..n : Len(s[k]) >= 2 /\ Len(s[k]) \in Nat
    <3> TAKE k \in 1..n
    <3>1. p.topicFilters[k] \in String BY <1>1, ElementOfSeq
    <3>2. PICK m \in Nat : m = MQTTstrlen(p.topicFilters[k]) BY <3>1, StringBytesFacts
    <3>3. Len(s[k]) = 2 + m + extra BY <1>1, <3>2
    <3> QED BY <1>0, <3>3
  <2>2. \A k \in 0..n : f[k] + 2 * (n - k) <= f[n] BY <1>2, <1>3, <2>1, CountsGrow
  <2>3. 0 \in 0..n /\ n \in 0..n /\ n - 0 = n BY <1>2
  <2>4. f[0] + 2 * n <= f[n] BY <2>2, <2>3
  <2>5. f[n] \in Nat BY <1>3, <2>3 DEF Counts
  <2>6. PICK c \in Nat, S \in Nat : c = f[n] /\ S = Start(buf) BY <1>6, <2>5
  <2>7. 2 + 2 * n <= c BY <1>3, <2>4, <2>6
  <2>8. End(buf) - Start(buf) = c BY <1>6, <2>6
  <2> HIDE DEF n
  <2> QED BY <1>2, <2>6, <2>7, <2>8
<1> QED BY <1>6, <1>8, <1>10, <1>11, <1>12

LEMMA SubscribeArrives ==
    ASSUME NEW p \in Packets, p \in SubscribePackets, NEW buf, At(buf, 1, Wire(p))
    PROVE  /\ Len(p.topicFilters) <= MaxCount =>
                MQTTDeserialize_subscribe(buf, MaxCount) = ArrivedPacket(p)
           /\ Len(p.topicFilters) > MaxCount => MQTTDeserialize_subscribe(buf, MaxCount).rc = -1
<1>1. /\ p.type = "SUBSCRIBE" /\ p.dup \in {0, 1} /\ p.packetid \in TwoBytes
      /\ p.topicFilters \in Seq(String) /\ p.requestedQoSs \in Seq(0..127)
  BY DEF SubscribePackets, Flag
<1>2. Len(p.requestedQoSs) = Len(p.topicFilters) BY <1>1, Kinds
<1> DEFINE s == SubscribeFilters(p)
           n == Len(p.topicFilters)
<1>3. /\ s \in Seq(Seq(Byte)) /\ Len(s) = n
      /\ \A k \in 1..n :
            /\ p.topicFilters[k] \in String /\ p.requestedQoSs[k] \in 0..127
            /\ s[k] = writeMQTTString(p.topicFilters[k]) \o <<p.requestedQoSs[k]>>
            /\ <<p.requestedQoSs[k]>> \in Seq(Byte)
            /\ Len(s[k]) = 2 + MQTTstrlen(p.topicFilters[k]) + 1
  BY <1>2, SubscribePieces
<1>4. Entries(s, p.topicFilters, 1) BY <1>1, <1>3 DEF Entries
<1>5. Body(p) = writeInt(p.packetid) \o FlattenSeq(s) /\ BodyLength(p) = FiltersLength(p, 1)
  BY <1>1 DEF Body, BodyLength, MQTTSerialize_subscribeLength
<1>11. FiltersWritten(p, s, 1) BY <1>4, <1>5 DEF FiltersWritten
<1> HIDE DEF s
<1>6. MaxCount \in Nat BY PathAssumption
<1>7. typeOf(buf[1]) = "SUBSCRIBE" /\ dupOf(buf[1]) = p.dup
  <2>1. buf[1] = HeaderOf(p) /\ typeOf(buf[1]) = p.type BY WireAt
  <2> QED BY <1>1, <2>1, FiltersHeader
<1>8. /\ readInt(buf, Start(buf)) = p.packetid
      /\ n > MaxCount => Filters(buf, 1, MaxCount) = [ok |-> FALSE]
      /\ n <= MaxCount =>
           \E at : /\ Filters(buf, 1, MaxCount) = [ok |-> TRUE, at |-> at]
                   /\ DOMAIN at = 1..n
                   /\ \A k \in 1..n :
                        /\ readMQTTLenString(buf, at[k]) = Arrived(p.topicFilters[k])
                        /\ At(buf, at[k], s[k])
                        /\ AfterString(buf, at[k]) = at[k] + 2 + MQTTstrlen(p.topicFilters[k])
  BY <1>1, <1>3, <1>6, <1>11, EntriesFound
<1>9. ASSUME n > MaxCount PROVE MQTTDeserialize_subscribe(buf, MaxCount).rc = -1
  <2>1. Filters(buf, 1, MaxCount) = [ok |-> FALSE] BY <1>8, <1>9
  <2>2. ~Filters(buf, 1, MaxCount).ok BY <2>1
  <2> QED BY <2>2 DEF MQTTDeserialize_subscribe, MQTTPACKET_READ_ERROR
<1>10. ASSUME n <= MaxCount PROVE MQTTDeserialize_subscribe(buf, MaxCount) = ArrivedPacket(p)
  <2>1. PICK at : /\ Filters(buf, 1, MaxCount) = [ok |-> TRUE, at |-> at]
                  /\ DOMAIN at = 1..n
                  /\ \A k \in 1..n :
                        /\ readMQTTLenString(buf, at[k]) = Arrived(p.topicFilters[k])
                        /\ At(buf, at[k], s[k])
                        /\ AfterString(buf, at[k]) = at[k] + 2 + MQTTstrlen(p.topicFilters[k])
    BY <1>8, <1>10
  <2>2. Filters(buf, 1, MaxCount).ok /\ Filters(buf, 1, MaxCount).at = at BY <2>1
  <2>3. DOMAIN p.topicFilters = 1..n BY <1>1
  <2>4. [k \in DOMAIN at |-> readMQTTLenString(buf, at[k])] = AllArrived(p.topicFilters)
    BY <2>1, <2>3 DEF AllArrived
  <2>5. ASSUME NEW k \in 1..n
        PROVE  readChar(buf[AfterString(buf, at[k])]) = p.requestedQoSs[k]
    <3> DEFINE t == writeMQTTString(p.topicFilters[k])
               q == <<p.requestedQoSs[k]>>
    <3>1. /\ t \in Seq(Byte) /\ Len(t) = 2 + MQTTstrlen(p.topicFilters[k])
          /\ MQTTstrlen(p.topicFilters[k]) \in Nat
      BY <1>3, StringBytesFacts
    <3>2. At(buf, at[k], t \o q) /\ q \in Seq(Byte) BY <1>3, <2>1
    <3>3. At(buf, at[k] + Len(t), q) BY <3>1, <3>2, AtParts
    <3>4. 1 \in 1..Len(q) /\ q[1] = p.requestedQoSs[k] BY <1>3
    <3>5. buf[(at[k] + Len(t)) + 1 - 1] = p.requestedQoSs[k]
      <4>1. PICK i : i = at[k] + Len(t) OBVIOUS
      <4> HIDE DEF t, q
      <4>2. buf[i + 1 - 1] = q[1] BY <3>3, <3>4, <4>1, AtByte
      <4> QED BY <3>4, <4>1, <4>2
    <3>6. (at[k] + Len(t)) + 1 - 1 = AfterString(buf, at[k])
      <4>1. at[k] \in Nat BY <3>2 DEF At
      <4>2. PICK m \in Nat, i \in Nat : m = MQTTstrlen(p.topicFilters[k]) /\ i = at[k] BY <3>1, <4>1
      <4>3. AfterString(buf, at[k]) = i + 2 + m /\ Len(t) = 2 + m BY <2>1, <3>1, <4>2
      <4> HIDE DEF t
      <4> QED BY <4>2, <4>3
    <3>7. PICK c \in 0..127 : c = p.requestedQoSs[k] BY <1>3
    <3>8. readChar(c) = c
      <4>1. ~(c >= 128) OBVIOUS
      <4> QED BY <4>1, Zenon DEF readChar
    <3> QED BY <3>5, <3>6, <3>7, <3>8
  <2>6. [k \in DOMAIN at |-> readChar(buf[AfterString(buf, at[k])])] = p.requestedQoSs
    <3>1. p.requestedQoSs = [k \in 1..n |-> p.requestedQoSs[k]] BY <1>1, <1>2
    <3> QED BY <2>1, <2>5, <3>1
  <2>7. MQTTDeserialize_subscribe(buf, MaxCount)
          = [rc |-> 1, type |-> "SUBSCRIBE", dup |-> p.dup, packetid |-> p.packetid,
             topicFilters |-> AllArrived(p.topicFilters), requestedQoSs |-> p.requestedQoSs]
    BY <1>7, <1>8, <2>2, <2>4, <2>6 DEF MQTTDeserialize_subscribe
  <2>8. ArrivedPacket(p)
          = [rc |-> 1, type |-> "SUBSCRIBE", dup |-> p.dup, packetid |-> p.packetid,
             topicFilters |-> AllArrived(p.topicFilters), requestedQoSs |-> p.requestedQoSs]
    BY <1>1 DEF ArrivedPacket
  <2> QED BY <2>7, <2>8
<1> QED BY <1>9, <1>10

LEMMA UnsubscribeArrives ==
    ASSUME NEW p \in Packets, p \in UnsubscribePackets, NEW buf, At(buf, 1, Wire(p))
    PROVE  MQTTDeserialize_unsubscribe(buf) = ArrivedPacket(p)
<1>1. /\ p.type = "UNSUBSCRIBE" /\ p.dup \in {0, 1} /\ p.packetid \in TwoBytes
      /\ p.topicFilters \in Seq(String)
  BY DEF UnsubscribePackets, Flag
<1> DEFINE s == UnsubscribeFilters(p)
           n == Len(p.topicFilters)
           max == (End(buf) - Start(buf)) \div 2
<1>2. /\ s \in Seq(Seq(Byte)) /\ Len(s) = n
      /\ \A k \in 1..n :
            /\ p.topicFilters[k] \in String
            /\ s[k] = writeMQTTString(p.topicFilters[k])
            /\ Len(s[k]) = 2 + MQTTstrlen(p.topicFilters[k]) + 0
  BY UnsubscribePieces
<1>3. Entries(s, p.topicFilters, 0)
  <2>1. ASSUME NEW k \in 1..n PROVE \E x \in Seq(Byte) : s[k] = writeMQTTString(p.topicFilters[k]) \o x
    <3>1. s[k] \in Seq(Byte) BY <1>2, ElementOfSeq
    <3>2. s[k] \o <<>> = s[k] BY <3>1, ConcatEmptySeq
    <3> QED BY <1>2, <3>2, EmptyText
  <2> QED BY <1>1, <1>2, <2>1 DEF Entries
<1>4. Body(p) = writeInt(p.packetid) \o FlattenSeq(s) /\ BodyLength(p) = FiltersLength(p, 0)
  BY <1>1 DEF Body, BodyLength, MQTTSerialize_unsubscribeLength
<1>14. FiltersWritten(p, s, 0) BY <1>3, <1>4 DEF FiltersWritten
<1> HIDE DEF s, max
<1>5. typeOf(buf[1]) = "UNSUBSCRIBE" /\ dupOf(buf[1]) = p.dup
  <2>1. buf[1] = HeaderOf(p) /\ typeOf(buf[1]) = p.type BY WireAt
  <2> QED BY <1>1, <2>1, FiltersHeader
<1>6. max \in Nat /\ n <= max
  <2>1. 2 * n + 2 <= End(buf) - Start(buf) /\ Start(buf) \in Int /\ End(buf) \in Int
    <3>1. 0 \in Nat OBVIOUS
    <3> QED BY <1>1, <1>2, <1>14, <3>1, EntriesFound
  <2>2. n \in Nat BY <1>1, LenProperties
  <2>3. PICK d \in Int : d = End(buf) - Start(buf) BY <2>1
  <2>4. 2 * n + 2 <= d BY <2>1, <2>3
  <2>5. max = d \div 2 BY <2>3 DEF max
  <2> HIDE DEF n
  <2> QED BY <2>2, <2>4, <2>5
<1>7. /\ readInt(buf, Start(buf)) = p.packetid
      /\ \E at : /\ Filters(buf, 0, max) = [ok |-> TRUE, at |-> at]
                 /\ DOMAIN at = 1..n
                 /\ \A k \in 1..n :
                      readMQTTLenString(buf, at[k]) = Arrived(p.topicFilters[k])
  BY <1>1, <1>2, <1>6, <1>14, EntriesFound
<1>8. PICK at : /\ Filters(buf, 0, max) = [ok |-> TRUE, at |-> at]
                /\ DOMAIN at = 1..n
                /\ \A k \in 1..n : readMQTTLenString(buf, at[k]) = Arrived(p.topicFilters[k])
  BY <1>7
<1>9. Filters(buf, 0, max).ok /\ Filters(buf, 0, max).at = at BY <1>8
<1>10. DOMAIN p.topicFilters = 1..n BY <1>1
<1>11. [k \in DOMAIN at |-> readMQTTLenString(buf, at[k])] = AllArrived(p.topicFilters)
  BY <1>8, <1>10 DEF AllArrived
<1>12. MQTTDeserialize_unsubscribe(buf)
         = [rc |-> 1, type |-> "UNSUBSCRIBE", dup |-> p.dup, packetid |-> p.packetid,
            topicFilters |-> AllArrived(p.topicFilters)]
  BY <1>5, <1>7, <1>9, <1>11 DEF MQTTDeserialize_unsubscribe, max
<1>13. ArrivedPacket(p)
         = [rc |-> 1, type |-> "UNSUBSCRIBE", dup |-> p.dup, packetid |-> p.packetid,
            topicFilters |-> AllArrived(p.topicFilters)]
  BY <1>1 DEF ArrivedPacket
<1> QED BY <1>12, <1>13

-----------------------------------------------------------------------------
(* CONNECT *)

\* how many bytes string k of CONNECT takes, and where it starts when the first starts at s
ConnectSize(p, k) == StringLength(ConnectGiven(p)[k], ConnectStrings(p)[k])
ConnectPlace(p, s, k) ==
    IF k = 1 THEN s
    ELSE IF k = 2 THEN s + ConnectSize(p, 1)
    ELSE IF k = 3 THEN s + ConnectSize(p, 1) + ConnectSize(p, 2)
    ELSE IF k = 4 THEN s + ConnectSize(p, 1) + ConnectSize(p, 2) + ConnectSize(p, 3)
    ELSE IF k = 5 THEN s + ConnectSize(p, 1) + ConnectSize(p, 2) + ConnectSize(p, 3)
                         + ConnectSize(p, 4)
    ELSE s + ConnectSize(p, 1) + ConnectSize(p, 2) + ConnectSize(p, 3) + ConnectSize(p, 4)
           + ConnectSize(p, 5)

LEMMA ConnectSizes == ASSUME NEW p \in ConnectPackets PROVE \A k \in 1..5 : ConnectSize(p, k) \in Nat
BY ConnectPieces DEF ConnectSize

LEMMA ConnectPlaces ==
    ASSUME NEW p \in ConnectPackets, NEW s \in Nat \ {0}
    PROVE  /\ ConnectPlace(p, s, 1) = s
           /\ \A k \in 1..5 : ConnectPlace(p, s, k + 1) = ConnectPlace(p, s, k) + ConnectSize(p, k)
           /\ \A k \in 1..6 : /\ ConnectPlace(p, s, k) \in Nat \ {0}
                              /\ ConnectPlace(p, s, k) <= ConnectPlace(p, s, 6)
<1>1. PICK l1 \in Nat, l2 \in Nat, l3 \in Nat, l4 \in Nat, l5 \in Nat :
         /\ l1 = ConnectSize(p, 1) /\ l2 = ConnectSize(p, 2) /\ l3 = ConnectSize(p, 3)
         /\ l4 = ConnectSize(p, 4) /\ l5 = ConnectSize(p, 5)
  <2>1. 1 \in 1..5 /\ 2 \in 1..5 /\ 3 \in 1..5 /\ 4 \in 1..5 /\ 5 \in 1..5 OBVIOUS
  <2> QED BY <2>1, ConnectSizes
<1> DEFINE at(k) == ConnectPlace(p, s, k)
<1>2. at(1) = s BY DEF ConnectPlace
<1>3. at(2) = s + l1 BY <1>1 DEF ConnectPlace
<1>4. at(3) = s + l1 + l2 BY <1>1 DEF ConnectPlace
<1>5. at(4) = s + l1 + l2 + l3 BY <1>1 DEF ConnectPlace
<1>6. at(5) = s + l1 + l2 + l3 + l4 BY <1>1 DEF ConnectPlace
<1>7. at(6) = s + l1 + l2 + l3 + l4 + l5 BY <1>1 DEF ConnectPlace
<1> HIDE DEF at
<1>8. ASSUME NEW k \in 1..5 PROVE at(k + 1) = at(k) + ConnectSize(p, k)
  <2>1. k = 1 \/ k = 2 \/ k = 3 \/ k = 4 \/ k = 5 OBVIOUS
  <2> QED BY <1>1, <1>2, <1>3, <1>4, <1>5, <1>6, <1>7, <2>1
<1>9. ASSUME NEW k \in 1..6 PROVE at(k) \in Nat \ {0} /\ at(k) <= at(6)
  <2>1. k = 1 \/ k = 2 \/ k = 3 \/ k = 4 \/ k = 5 \/ k = 6 OBVIOUS
  <2> QED BY <1>2, <1>3, <1>4, <1>5, <1>6, <1>7, <2>1
<1> QED BY <1>2, <1>8, <1>9 DEF at

LEMMA ConnectAt ==
    ASSUME NEW p \in ConnectPackets, NEW buf, NEW i \in Nat \ {0}, At(buf, i, ConnectBody(p)),
           NEW s, s = i + Len(ConnectFixed(p))
    PROVE  /\ s \in Nat \ {0}
           /\ At(buf, i, ConnectFixed(p))
           /\ \A k \in 1..5 : At(buf, ConnectPlace(p, s, k), ConnectPiece(p, k))
           /\ i + Len(ConnectBody(p)) = ConnectPlace(p, s, 6)
<1> DEFINE l(k) == ConnectSize(p, k)
           b(k) == ConnectPiece(p, k)
           z == ConnectFixed(p)
<1>1. \A k \in 1..5 : b(k) \in Seq(Byte) /\ Len(b(k)) = l(k) /\ l(k) \in Nat
  BY ConnectPieces DEF ConnectSize
<1>2. ConnectBody(p) = z \o b(1) \o b(2) \o b(3) \o b(4) \o b(5) BY ConnectPieces
<1>3. z \in Seq(Byte) BY ConnectStart
<1>4. Len(z) \in Nat BY <1>3, LenProperties
<1>5. s \in Nat \ {0} /\ s = i + Len(z) BY <1>4
<1>6. /\ ConnectPlace(p, s, 1) = s
      /\ ConnectPlace(p, s, 2) = s + l(1)
      /\ ConnectPlace(p, s, 3) = s + l(1) + l(2)
      /\ ConnectPlace(p, s, 4) = s + l(1) + l(2) + l(3)
      /\ ConnectPlace(p, s, 5) = s + l(1) + l(2) + l(3) + l(4)
      /\ ConnectPlace(p, s, 6) = s + l(1) + l(2) + l(3) + l(4) + l(5)
  BY DEF ConnectPlace
<1> HIDE DEF l, b, z
<1>7. /\ b(1) \in Seq(Byte) /\ b(2) \in Seq(Byte) /\ b(3) \in Seq(Byte) /\ b(4) \in Seq(Byte)
      /\ b(5) \in Seq(Byte)
      /\ Len(b(1)) = l(1) /\ Len(b(2)) = l(2) /\ Len(b(3)) = l(3) /\ Len(b(4)) = l(4)
      /\ Len(b(5)) = l(5)
  BY <1>1
<1>8. z \o b(1) \in Seq(Byte) /\ Len(z \o b(1)) = Len(z) + Len(b(1)) BY <1>3, <1>7, Joined
<1>9. PICK z1 : z1 = z \o b(1) OBVIOUS
<1>10. z1 \o b(2) \in Seq(Byte) /\ Len(z1 \o b(2)) = Len(z1) + Len(b(2)) BY <1>7, <1>8, <1>9, Joined
<1>11. PICK z2 : z2 = z1 \o b(2) OBVIOUS
<1>12. z2 \o b(3) \in Seq(Byte) /\ Len(z2 \o b(3)) = Len(z2) + Len(b(3))
  BY <1>7, <1>10, <1>11, Joined
<1>13. PICK z3 : z3 = z2 \o b(3) OBVIOUS
<1>14. z3 \o b(4) \in Seq(Byte) /\ Len(z3 \o b(4)) = Len(z3) + Len(b(4))
  BY <1>7, <1>12, <1>13, Joined
<1>15. PICK z4 : z4 = z3 \o b(4) OBVIOUS
<1>16. z4 \o b(5) \in Seq(Byte) /\ Len(z4 \o b(5)) = Len(z4) + Len(b(5))
  BY <1>7, <1>14, <1>15, Joined
<1>17. ConnectBody(p) = z4 \o b(5) BY <1>2, <1>9, <1>11, <1>13, <1>15
<1>18. PICK n \in Nat, l1 \in Nat, l2 \in Nat, l3 \in Nat, l4 \in Nat, l5 \in Nat :
         /\ n = Len(z) /\ l1 = l(1) /\ l2 = l(2) /\ l3 = l(3) /\ l4 = l(4) /\ l5 = l(5)
  <2>1. 1 \in 1..5 /\ 2 \in 1..5 /\ 3 \in 1..5 /\ 4 \in 1..5 /\ 5 \in 1..5 OBVIOUS
  <2>2. l(1) \in Nat /\ l(2) \in Nat /\ l(3) \in Nat /\ l(4) \in Nat /\ l(5) \in Nat
    BY <1>1, <2>1
  <2> QED BY <1>4, <2>2
<1>19. Len(z1) = n + l1 BY <1>7, <1>8, <1>9, <1>18
<1>20. Len(z2) = n + l1 + l2 BY <1>7, <1>10, <1>11, <1>18, <1>19
<1>21. Len(z3) = n + l1 + l2 + l3 BY <1>7, <1>12, <1>13, <1>18, <1>20
<1>22. Len(z4) = n + l1 + l2 + l3 + l4 BY <1>7, <1>14, <1>15, <1>18, <1>21
<1>23. Len(ConnectBody(p)) = n + l1 + l2 + l3 + l4 + l5 BY <1>7, <1>16, <1>17, <1>18, <1>22
<1>24. At(buf, i, z4) /\ At(buf, i + Len(z4), b(5))
  <2>1. At(buf, i, z4 \o b(5)) BY <1>17
  <2>2. z4 \in Seq(Byte) BY <1>14, <1>15
  <2> QED BY <1>7, <2>1, <2>2, AtParts
<1>25. At(buf, i, z3) /\ At(buf, i + Len(z3), b(4)) BY <1>7, <1>12, <1>13, <1>15, <1>24, AtParts
<1>26. At(buf, i, z2) /\ At(buf, i + Len(z2), b(3)) BY <1>7, <1>10, <1>11, <1>13, <1>25, AtParts
<1>27. At(buf, i, z1) /\ At(buf, i + Len(z1), b(2)) BY <1>7, <1>8, <1>9, <1>11, <1>26, AtParts
<1>28. At(buf, i, z) /\ At(buf, i + Len(z), b(1)) BY <1>3, <1>7, <1>9, <1>27, AtParts
<1>29. /\ ConnectPlace(p, s, 1) = i + Len(z) /\ ConnectPlace(p, s, 2) = i + Len(z1)
       /\ ConnectPlace(p, s, 3) = i + Len(z2) /\ ConnectPlace(p, s, 4) = i + Len(z3)
       /\ ConnectPlace(p, s, 5) = i + Len(z4)
       /\ ConnectPlace(p, s, 6) = i + Len(ConnectBody(p))
  <2>1. s = i + n BY <1>5, <1>18
  <2>2. /\ ConnectPlace(p, s, 1) = s
        /\ ConnectPlace(p, s, 2) = s + l1
        /\ ConnectPlace(p, s, 3) = s + l1 + l2
        /\ ConnectPlace(p, s, 4) = s + l1 + l2 + l3
        /\ ConnectPlace(p, s, 5) = s + l1 + l2 + l3 + l4
        /\ ConnectPlace(p, s, 6) = s + l1 + l2 + l3 + l4 + l5
    BY <1>6, <1>18
  <2>3. i + Len(z) = s BY <1>18, <2>1
  <2>4. i + Len(z1) = s + l1 BY <1>19, <2>1
  <2>5. i + Len(z2) = s + l1 + l2 BY <1>20, <2>1
  <2>6. i + Len(z3) = s + l1 + l2 + l3 BY <1>21, <2>1
  <2>7. i + Len(z4) = s + l1 + l2 + l3 + l4 BY <1>22, <2>1
  <2>8. i + Len(ConnectBody(p)) = s + l1 + l2 + l3 + l4 + l5 BY <1>23, <2>1
  <2> QED BY <2>2, <2>3, <2>4, <2>5, <2>6, <2>7, <2>8, Zenon
<1>30. ASSUME NEW k \in 1..5 PROVE At(buf, ConnectPlace(p, s, k), b(k))
  <2>1. k = 1 \/ k = 2 \/ k = 3 \/ k = 4 \/ k = 5 OBVIOUS
  <2> QED BY <1>24, <1>25, <1>26, <1>27, <1>28, <1>29, <2>1
<1> QED BY <1>5, <1>28, <1>29, <1>30 DEF b, z

LEMMA ConnectFixedAt ==
    ASSUME NEW p \in ConnectPackets, NEW buf, NEW i \in Nat \ {0}, At(buf, i, ConnectFixed(p)),
           NEW v, v = i + 2 + Len(ProtocolName(p))
    PROVE  /\ \A end \in Int : StringFits(buf, i, end) <=> v <= end
           /\ readMQTTLenString(buf, i).data = ProtocolName(p) /\ AfterString(buf, i) = v
           /\ buf[v] = ProtocolLevel(p) /\ buf[v + 1] = MQTTConnectFlags(p)
           /\ readInt(buf, v + 2) = p.keepAliveInterval
           /\ v \in Nat /\ v + 4 = i + Len(ConnectFixed(p))
<1> DEFINE a == writeInt(Len(ProtocolName(p)))
           b == <<ProtocolLevel(p), MQTTConnectFlags(p)>>
           c == writeInt(p.keepAliveInterval)
           d == ProtocolName(p)
           s == [cstring |-> NULL, data |-> d]
<1>1. /\ d \in Seq(Byte) /\ Len(d) \in TwoBytes /\ Len(d) = IF p.MQTTVersion = 4 THEN 4 ELSE 6
      /\ b \in Seq(Byte) /\ Len(ConnectFixed(p)) = 2 + Len(d) + 4
  BY ConnectStart
<1>2. p.keepAliveInterval \in TwoBytes BY DEF ConnectPackets
<1>3. a \in Seq(Byte) /\ Len(a) = 2 /\ c \in Seq(Byte) /\ Len(c) = 2 BY <1>1, <1>2, IntBytes
<1>4. ConnectFixed(p) = ((a \o d) \o b) \o c BY DEF ConnectFixed
<1>5. Len(b) = 2 /\ b[1] = ProtocolLevel(p) /\ b[2] = MQTTConnectFlags(p) OBVIOUS
<1>6. Len(d) \in Nat /\ Len(d) > 0 BY <1>1
<1>7. s \in String /\ writeMQTTString(s) = a \o d /\ MQTTstrlen(s) = Len(d) /\ Content(s) = d
  <2>1. d \in Text BY <1>1 DEF Text
  <2>2. s \in String BY <2>1 DEF String
  <2>3. d # NULL BY <2>1, TextFacts
  <2>4. s.data = d /\ s.cstring = NULL OBVIOUS
  <2> HIDE DEF s, d
  <2>5. lenOf(s) = Len(d) BY <2>3, <2>4 DEF lenOf
  <2>6. writeMQTTString(s) = writeInt(Len(d)) \o d BY <1>6, <2>4, <2>5 DEF writeMQTTString
  <2>7. MQTTstrlen(s) = Len(d) /\ Content(s) = d BY <1>6, <2>4, <2>5 DEF MQTTstrlen, Content
  <2> QED BY <2>2, <2>6, <2>7 DEF d
<1> HIDE DEF a, b, c, d, s
<1>8. a \o d \in Seq(Byte) /\ Len(a \o d) = Len(a) + Len(d) BY <1>1, <1>3, Joined
<1>9. PICK ad : ad = a \o d OBVIOUS
<1>10. ad \o b \in Seq(Byte) /\ Len(ad \o b) = Len(ad) + Len(b) BY <1>1, <1>8, <1>9, Joined
<1>11. PICK adb : adb = ad \o b OBVIOUS
<1>12. At(buf, i, adb) /\ At(buf, i + Len(adb), c) BY <1>3, <1>4, <1>9, <1>10, <1>11, AtParts
<1>13. At(buf, i, ad) /\ At(buf, i + Len(ad), b) BY <1>1, <1>8, <1>9, <1>11, <1>12, AtParts
<1>14. PICK n \in Nat : n = Len(d) BY <1>6
<1>15. v = i + 2 + n BY <1>14 DEF d
<1>16. Len(ad) = 2 + n /\ Len(adb) = 2 + n + 2 BY <1>3, <1>5, <1>8, <1>9, <1>10, <1>11, <1>14
<1>17. i + Len(ad) = v /\ i + Len(adb) = v + 2 /\ v \in Nat /\ v + 4 = i + (2 + n + 4)
  BY <1>15, <1>16
<1>18. At(buf, i, writeMQTTString(s)) BY <1>7, <1>9, <1>13
<1>19. /\ AfterString(buf, i) = v
       /\ readMQTTLenString(buf, i) = [cstring |-> NULL, data |-> d]
       /\ \A end \in Int : StringFits(buf, i, end) <=> v <= end
  BY <1>7, <1>14, <1>15, <1>18, StringAt
<1>20. buf[v] = ProtocolLevel(p) /\ buf[v + 1] = MQTTConnectFlags(p)
  <2>1. At(buf, v, b) /\ 1 \in 1..Len(b) /\ 2 \in 1..Len(b) BY <1>5, <1>13, <1>17
  <2>2. buf[v + 1 - 1] = b[1] /\ buf[v + 2 - 1] = b[2] BY <2>1, AtByte
  <2>3. v + 1 - 1 = v /\ v + 2 - 1 = v + 1 BY <1>17
  <2> QED BY <1>5, <2>2, <2>3
<1>21. readInt(buf, v + 2) = p.keepAliveInterval
  <2>1. At(buf, v + 2, c) BY <1>12, <1>17
  <2> QED BY <1>2, <2>1, IntAt DEF c
<1>22. v + 4 = i + Len(ConnectFixed(p)) BY <1>1, <1>14, <1>17
<1> QED BY <1>17, <1>19, <1>20, <1>21, <1>22 DEF d

LEMMA VersionChecked ==
    ASSUME NEW p \in ConnectPackets
    PROVE  MQTTPacket_checkVersion(ProtocolName(p), ProtocolLevel(p))
<1>1. p.MQTTVersion \in {3, 4} BY DEF ConnectPackets
<1>2. ASSUME NEW s \in Seq(Byte), NEW n \in Nat, Len(s) = n
      PROVE  IsPrefix(SubSeq(s, 1, Min({n, Len(s)})), s)
  <2>1. {n, Len(s)} = {n} BY <1>2
  <2>2. Min({n}) = n
    <3>1. \A y \in {n} : n <= y OBVIOUS
    <3> QED BY <3>1 DEF Min
  <2>3. SubSeq(s, 1, n) = s BY <1>2, SubSeqFull
  <2>4. SubSeq(s, 1, Min({n, Len(s)})) = s BY <2>1, <2>2, <2>3
  <2>5. IsPrefix(s, s)
    <3>1. Len(s) <= Len(s) BY <1>2
    <3> QED BY <3>1 DEF IsPrefix
  <2> QED BY <2>4, <2>5
<1>3. /\ ProtocolName(p) \in Seq(Byte)
      /\ Len(ProtocolName(p)) = IF p.MQTTVersion = 4 THEN 4 ELSE 6
  BY ConnectStart
<1>4. CASE p.MQTTVersion = 3
  <2>1. ProtocolName(p) = Protocol.MQIsdp /\ ProtocolLevel(p) = 3 BY <1>4 DEF ProtocolName, ProtocolLevel
  <2>2. IsPrefix(SubSeq(ProtocolName(p), 1, Min({6, Len(ProtocolName(p))})), ProtocolName(p))
    BY <1>2, <1>3, <1>4
  <2> QED BY <2>1, <2>2 DEF MQTTPacket_checkVersion
<1>5. CASE p.MQTTVersion = 4
  <2>1. ProtocolName(p) = Protocol.MQTT /\ ProtocolLevel(p) = 4 BY <1>5 DEF ProtocolName, ProtocolLevel
  <2>2. IsPrefix(SubSeq(ProtocolName(p), 1, Min({4, Len(ProtocolName(p))})), ProtocolName(p))
    BY <1>2, <1>3, <1>5
  <2> QED BY <2>1, <2>2 DEF MQTTPacket_checkVersion
<1> QED BY <1>1, <1>4, <1>5

\* The user name and the password are followed by as much as is asked for.
LEMMA RoomForLast ==
    ASSUME NEW p \in ConnectPackets, ConnectTaken(p), NEW s \in Nat \ {0}, NEW k \in {4, 5},
           ConnectGiven(p)[k]
    PROVE  ConnectPlace(p, s, 6) - ConnectPlace(p, s, k) >= 3
<1>1. /\ ConnectGiven(p)[4] = IsGiven(p.username) /\ ConnectGiven(p)[5] = IsGiven(p.password)
      /\ ConnectStrings(p)[4] = p.username /\ ConnectStrings(p)[5] = p.password
  BY SMT DEF ConnectGiven, ConnectStrings
<1>2. p.username \in String /\ p.password \in String BY DEF ConnectPackets
<1>3. PICK m \in Nat, n \in Nat : m = MQTTstrlen(p.username) /\ n = MQTTstrlen(p.password)
  BY <1>2, StringBytesFacts
<1>4. ConnectSize(p, 4) = IF IsGiven(p.username) THEN 2 + m ELSE 0
  BY <1>1, <1>3 DEF ConnectSize, StringLength
<1>5. ConnectSize(p, 5) = IF IsGiven(p.password) THEN 2 + n ELSE 0
  BY <1>1, <1>3 DEF ConnectSize, StringLength
<1>6. PICK a \in Nat, b \in Nat, c \in Nat :
         ConnectPlace(p, s, 4) = a /\ ConnectPlace(p, s, 5) = b /\ ConnectPlace(p, s, 6) = c
  <2>1. 4 \in 1..6 /\ 5 \in 1..6 /\ 6 \in 1..6 OBVIOUS
  <2> QED BY <2>1, ConnectPlaces
<1>7. b = a + ConnectSize(p, 4) /\ c = b + ConnectSize(p, 5)
  <2>1. 4 \in 1..5 /\ 5 \in 1..5 /\ 4 + 1 = 5 /\ 5 + 1 = 6 OBVIOUS
  <2> QED BY <1>6, <2>1, ConnectPlaces
<1>8. CASE k = 5
  <2>1. IsGiven(p.password) /\ n > 0 BY <1>1, <1>3, <1>8 DEF ConnectTaken
  <2>2. c = b + (2 + n) BY <1>5, <1>7, <2>1
  <2>3. c - b >= 3 BY <2>1, <2>2
  <2> QED BY <1>6, <1>8, <2>3
<1>9. CASE k = 4
  <2>1. IsGiven(p.username) BY <1>1, <1>9
  <2>2. b = a + (2 + m) BY <1>4, <1>7, <2>1
  <2>3. CASE IsGiven(p.password)
    <3>1. c = b + (2 + n) BY <1>5, <1>7, <2>3
    <3>2. c - a >= 3 BY <2>2, <3>1
    <3> QED BY <1>6, <1>9, <3>2
  <2>4. CASE ~IsGiven(p.password)
    <3>1. m > 0 BY <1>3, <2>1, <2>4 DEF ConnectTaken
    <3>2. c = b + 0 BY <1>5, <1>7, <2>4
    <3>3. c - a >= 3 BY <2>2, <3>1, <3>2
    <3> QED BY <1>6, <1>9, <3>3
  <2> QED BY <2>3, <2>4
<1> QED BY <1>8, <1>9

\* After an empty user name or password at the end there is no room for a byte.
LEMMA NoRoomForEmpty ==
    ASSUME NEW p \in ConnectPackets, ~ConnectTaken(p), NEW s \in Nat \ {0},
           IsGiven(p.password) => IsGiven(p.username)
    PROVE  \/ IsGiven(p.password) /\ ConnectPlace(p, s, 6) - ConnectPlace(p, s, 5) < 3
           \/ /\ IsGiven(p.username) /\ ~IsGiven(p.password)
              /\ ConnectPlace(p, s, 6) - ConnectPlace(p, s, 4) < 3
<1>1. /\ ConnectGiven(p)[4] = IsGiven(p.username) /\ ConnectGiven(p)[5] = IsGiven(p.password)
      /\ ConnectStrings(p)[4] = p.username /\ ConnectStrings(p)[5] = p.password
  BY SMT DEF ConnectGiven, ConnectStrings
<1>2. p.username \in String /\ p.password \in String BY DEF ConnectPackets
<1>3. PICK m \in Nat, n \in Nat : m = MQTTstrlen(p.username) /\ n = MQTTstrlen(p.password)
  BY <1>2, StringBytesFacts
<1>4. ConnectSize(p, 4) = IF IsGiven(p.username) THEN 2 + m ELSE 0
  BY <1>1, <1>3 DEF ConnectSize, StringLength
<1>5. ConnectSize(p, 5) = IF IsGiven(p.password) THEN 2 + n ELSE 0
  BY <1>1, <1>3 DEF ConnectSize, StringLength
<1>6. PICK a \in Nat, b \in Nat, c \in Nat :
         ConnectPlace(p, s, 4) = a /\ ConnectPlace(p, s, 5) = b /\ ConnectPlace(p, s, 6) = c
  <2>1. 4 \in 1..6 /\ 5 \in 1..6 /\ 6 \in 1..6 OBVIOUS
  <2> QED BY <2>1, ConnectPlaces
<1>7. b = a + ConnectSize(p, 4) /\ c = b + ConnectSize(p, 5)
  <2>1. 4 \in 1..5 /\ 5 \in 1..5 /\ 4 + 1 = 5 /\ 5 + 1 = 6 OBVIOUS
  <2> QED BY <1>6, <2>1, ConnectPlaces
<1>8. CASE IsGiven(p.password)
  <2>1. ~(n > 0) BY <1>3, <1>8 DEF ConnectTaken
  <2>2. c = b + (2 + n) BY <1>5, <1>7, <1>8
  <2>3. c - b < 3 BY <2>1, <2>2
  <2> QED BY <1>6, <1>8, <2>3
<1>9. CASE ~IsGiven(p.password)
  <2>1. IsGiven(p.username) /\ ~(m > 0) BY <1>3, <1>9 DEF ConnectTaken
  <2>2. b = a + (2 + m) BY <1>4, <1>7, <2>1
  <2>3. c = b + 0 BY <1>5, <1>7, <1>9
  <2>4. c - a < 3 BY <2>1, <2>2, <2>3
  <2> QED BY <1>6, <1>9, <2>1, <2>4
<1> QED BY <1>8, <1>9

\* String k of CONNECT is found where it was written.
LEMMA ConnectStringAt ==
    ASSUME NEW p \in ConnectPackets, NEW s \in Nat \ {0}, NEW buf, NEW k \in 1..5,
           ConnectGiven(p)[k], NEW i, i = ConnectPlace(p, s, k), At(buf, i, ConnectPiece(p, k)),
           NEW end, end = ConnectPlace(p, s, 6)
    PROVE  /\ i # 0 /\ StringFits(buf, i, end) /\ (ConnectTaken(p) /\ k > 3 => end - i >= 3)
           /\ AfterString(buf, i) = ConnectPlace(p, s, k + 1)
           /\ readMQTTLenString(buf, i) = Arrived(ConnectStrings(p)[k])
<1> DEFINE t == ConnectStrings(p)[k]
<1>1. t \in String BY ConnectPieces
<1>2. ConnectPiece(p, k) = writeMQTTString(t) /\ ConnectSize(p, k) = 2 + MQTTstrlen(t)
  BY DEF ConnectPiece, StringBytes, ConnectSize, StringLength
<1> HIDE DEF t
<1>3. /\ i \in Nat \ {0} /\ AfterString(buf, i) = i + 2 + MQTTstrlen(t)
      /\ readMQTTLenString(buf, i) = Arrived(t)
      /\ \A e \in Int : StringFits(buf, i, e) <=> i + 2 + MQTTstrlen(t) <= e
  BY <1>1, <1>2, StringAt, ArrivedString
<1>4. PICK m \in Nat : m = MQTTstrlen(t) BY <1>1, StringBytesFacts
<1>5. /\ ConnectPlace(p, s, k + 1) = i + ConnectSize(p, k)
      /\ ConnectPlace(p, s, k + 1) \in Nat /\ ConnectPlace(p, s, k + 1) <= end /\ end \in Nat
  <2>1. k + 1 \in 1..6 /\ 6 \in 1..6 OBVIOUS
  <2> QED BY <2>1, ConnectPlaces
<1>6. AfterString(buf, i) = ConnectPlace(p, s, k + 1) /\ i + 2 + m <= end
  <2>1. ConnectPlace(p, s, k + 1) = i + 2 + m BY <1>2, <1>3, <1>4, <1>5
  <2> QED BY <1>3, <1>4, <1>5, <2>1
<1>7. StringFits(buf, i, end) BY <1>3, <1>4, <1>5, <1>6
<1>8. ConnectTaken(p) /\ k > 3 => end - i >= 3
  <2> SUFFICES ASSUME ConnectTaken(p), k > 3 PROVE end - i >= 3 OBVIOUS
  <2>1. k \in {4, 5} OBVIOUS
  <2> QED BY <2>1, RoomForLast
<1> QED BY <1>3, <1>6, <1>7, <1>8 DEF t

LEMMA ConnectArrives ==
    ASSUME NEW p \in Packets, p \in ConnectPackets, NEW buf, At(buf, 1, Wire(p))
    PROVE  MQTTDeserialize_connect(buf, End(buf) - 1)
             = IF ConnectTaken(p) THEN ArrivedPacket(p) ELSE [rc |-> 0]
<1> DEFINE end == (End(buf) - 1) + 1
           name == readMQTTLenString(buf, Start(buf))
           i == AfterString(buf, Start(buf))
           flag(n) == (buf[i + 1] \div n) % 2
           given == <<TRUE, flag(4) = 1, flag(4) = 1, flag(128) = 1, flag(64) = 1>>
           fits(k, q) == q # 0 /\ StringFits(buf, q, end) /\ (k > 3 => end - q >= 3)
           at == CHOOSE g : g = [k \in 1..6 |->
                   IF k = 1 THEN i + 4
                   ELSE IF ~given[k - 1] THEN g[k - 1]
                   ELSE IF fits(k - 1, g[k - 1]) THEN AfterString(buf, g[k - 1]) ELSE 0]
           string(k) == IF given[k] THEN readMQTTLenString(buf, at[k]) ELSE NULL
<1>1. MQTTDeserialize_connect(buf, End(buf) - 1)
        = IF \/ typeOf(buf[1]) # "CONNECT"
             \/ ~StringFits(buf, Start(buf), end)
             \/ ~MQTTPacket_checkVersion(name.data, buf[i])
             \/ at[6] = 0
             \/ given[5] /\ ~given[4]
          THEN [rc |-> 0]
          ELSE [rc |-> 1, type |-> "CONNECT", cleansession |-> flag(2),
                keepAliveInterval |-> readInt(buf, i + 2),
                clientID |-> string(1), willFlag |-> given[2],
                willQoS |-> IF given[2] THEN flag(8) + 2 * flag(16) ELSE NULL,
                willRetain |-> IF given[2] THEN flag(32) ELSE NULL,
                topicName |-> string(2), message |-> string(3),
                username |-> string(4), password |-> string(5)]
  BY DEF MQTTDeserialize_connect
<1>2. p.type = "CONNECT" /\ p.willFlag \in BOOLEAN BY DEF ConnectPackets
<1> DEFINE s == Start(buf) + Len(ConnectFixed(p))
<1>3. /\ typeOf(buf[1]) = "CONNECT" /\ Start(buf) \in Nat \ {0}
      /\ End(buf) = Start(buf) + Len(ConnectBody(p)) /\ End(buf) \in Nat
      /\ At(buf, Start(buf), ConnectBody(p))
  <2>1. Body(p) = ConnectBody(p) BY <1>2 DEF Body
  <2> QED BY <1>2, <2>1, WireAt
<1>4. /\ s \in Nat \ {0} /\ At(buf, Start(buf), ConnectFixed(p))
      /\ \A k \in 1..5 : At(buf, ConnectPlace(p, s, k), ConnectPiece(p, k))
      /\ end = ConnectPlace(p, s, 6)
  <2>1. end = End(buf) BY <1>3
  <2> HIDE DEF end
  <2> QED BY <1>3, <2>1, ConnectAt
<1>5. /\ StringFits(buf, Start(buf), end) <=> i <= end
      /\ name.data = ProtocolName(p)
      /\ buf[i] = ProtocolLevel(p) /\ buf[i + 1] = MQTTConnectFlags(p)
      /\ readInt(buf, i + 2) = p.keepAliveInterval /\ i \in Nat /\ i + 4 = s
  <2>1. PICK q : q = Start(buf) OBVIOUS
  <2>2. PICK v : v = q + 2 + Len(ProtocolName(p)) OBVIOUS
  <2>3. end \in Int BY <1>3
  <2>4. q \in Nat \ {0} /\ At(buf, q, ConnectFixed(p)) BY <1>3, <1>4, <2>1
  <2>5. i = AfterString(buf, q) /\ name = readMQTTLenString(buf, q) /\ s = q + Len(ConnectFixed(p))
    BY <2>1
  <2> HIDE DEF end, name, i, s, flag, given, fits, at, string
  <2>6. /\ \A e \in Int : StringFits(buf, q, e) <=> v <= e
        /\ readMQTTLenString(buf, q).data = ProtocolName(p) /\ AfterString(buf, q) = v
        /\ buf[v] = ProtocolLevel(p) /\ buf[v + 1] = MQTTConnectFlags(p)
        /\ readInt(buf, v + 2) = p.keepAliveInterval
        /\ v \in Nat /\ v + 4 = q + Len(ConnectFixed(p))
    BY <2>2, <2>4, ConnectFixedAt
  <2> QED BY <2>1, <2>3, <2>5, <2>6
<1>6. s <= end /\ end \in Nat /\ ConnectPlace(p, s, 1) = s
  <2>1. 1 \in 1..6 /\ 6 \in 1..6 OBVIOUS
  <2> HIDE DEF s, end
  <2> QED BY <1>4, <2>1, ConnectPlaces
<1>7. StringFits(buf, Start(buf), end)
  <2> HIDE DEF s, end, i
  <2>1. i <= end BY <1>4, <1>5, <1>6
  <2> QED BY <1>5, <2>1
<1>8. MQTTPacket_checkVersion(name.data, buf[i]) BY <1>5, VersionChecked
<1>9. /\ flag(2) = p.cleansession /\ (flag(4) = 1 <=> p.willFlag)
      /\ (flag(64) = 1 <=> IsGiven(p.password)) /\ (flag(128) = 1 <=> IsGiven(p.username))
      /\ p.willFlag => flag(8) + 2 * flag(16) = p.will.qos /\ flag(32) = p.will.retained
  <2>1. buf[i + 1] = MQTTConnectFlags(p) BY <1>5
  <2> HIDE DEF i
  <2> QED BY <2>1, ConnectFlags
<1>10. /\ given[1] /\ (given[2] <=> p.willFlag) /\ (given[3] <=> p.willFlag)
       /\ (given[4] <=> IsGiven(p.username)) /\ (given[5] <=> IsGiven(p.password))
       /\ given[2] \in BOOLEAN
  <2>1. /\ given[1] = TRUE /\ given[2] = (flag(4) = 1) /\ given[3] = (flag(4) = 1)
        /\ given[4] = (flag(128) = 1) /\ given[5] = (flag(64) = 1)
    <3> HIDE DEF flag
    <3> QED BY SMT
  <2> HIDE DEF given, flag
  <2> QED BY <1>9, <2>1, Zenon
<1> HIDE DEF given
<1>11. /\ ConnectGiven(p)[1] = TRUE /\ ConnectGiven(p)[2] = p.willFlag
       /\ ConnectGiven(p)[3] = p.willFlag /\ ConnectGiven(p)[4] = IsGiven(p.username)
       /\ ConnectGiven(p)[5] = IsGiven(p.password)
  BY SMT DEF ConnectGiven
<1>12. \A k \in 1..5 : given[k] <=> ConnectGiven(p)[k]
  <2> TAKE k \in 1..5
  <2>1. k = 1 \/ k = 2 \/ k = 3 \/ k = 4 \/ k = 5 OBVIOUS
  <2> QED BY <1>10, <1>11, <2>1, Zenon
<1> DEFINE h == [k \in 1..6 |-> ConnectPlace(p, s, k)]
<1>13. ASSUME NEW k \in 1..5, given[k]
       PROVE  /\ ConnectTaken(p) => fits(k, ConnectPlace(p, s, k))
              /\ AfterString(buf, ConnectPlace(p, s, k)) = ConnectPlace(p, s, k + 1)
              /\ readMQTTLenString(buf, ConnectPlace(p, s, k)) = Arrived(ConnectStrings(p)[k])
  <2>1. PICK q : q = ConnectPlace(p, s, k) OBVIOUS
  <2>2. ConnectGiven(p)[k] BY <1>12, <1>13
  <2>3. At(buf, q, ConnectPiece(p, k)) BY <1>4, <2>1
  <2> HIDE DEF s, end
  <2>4. /\ q # 0 /\ StringFits(buf, q, end) /\ (ConnectTaken(p) /\ k > 3 => end - q >= 3)
        /\ AfterString(buf, q) = ConnectPlace(p, s, k + 1)
        /\ readMQTTLenString(buf, q) = Arrived(ConnectStrings(p)[k])
    BY <1>4, <2>1, <2>2, <2>3, ConnectStringAt
  <2> QED BY <2>1, <2>4
<1>14. ASSUME NEW k \in 1..5, ~given[k] PROVE ConnectPlace(p, s, k + 1) = ConnectPlace(p, s, k)
  <2>1. ~ConnectGiven(p)[k] BY <1>12, <1>14
  <2>2. ConnectSize(p, k) = 0 BY <2>1 DEF ConnectSize, StringLength
  <2> HIDE DEF s
  <2>3. /\ ConnectPlace(p, s, k + 1) = ConnectPlace(p, s, k) + ConnectSize(p, k)
        /\ ConnectPlace(p, s, k) \in Nat
    <3>1. k \in 1..6 OBVIOUS
    <3> QED BY <1>4, <3>1, ConnectPlaces
  <2> QED BY <2>2, <2>3
<1> HIDE DEF s, end, name, flag
<1>15. i + 4 = ConnectPlace(p, s, 1) BY <1>5, <1>6
<1> HIDE DEF i
<1>30. ASSUME ~ConnectTaken(p) PROVE MQTTDeserialize_connect(buf, End(buf) - 1) = [rc |-> 0]
  <2> HIDE DEF string
  <2>1. CASE given[5] /\ ~given[4] BY <1>1, <2>1
  <2>2. CASE ~(given[5] /\ ~given[4])
    <3>1. \/ given[5] /\ end - ConnectPlace(p, s, 5) < 3
          \/ given[4] /\ ~given[5] /\ end - ConnectPlace(p, s, 4) < 3
      <4>1. IsGiven(p.password) => IsGiven(p.username) BY <1>10, <2>2
      <4>2. \/ IsGiven(p.password) /\ end - ConnectPlace(p, s, 5) < 3
            \/ IsGiven(p.username) /\ ~IsGiven(p.password) /\ end - ConnectPlace(p, s, 4) < 3
        BY <1>4, <1>30, <4>1, NoRoomForEmpty
      <4> QED BY <1>10, <4>2
    <3> DEFINE nxt(k, q) == IF ~given[k] THEN q
                            ELSE IF fits(k, q) THEN AfterString(buf, q) ELSE 0
               a2 == nxt(1, i + 4)
               a3 == nxt(2, a2)
               a4 == nxt(3, a3)
               a5 == nxt(4, a4)
               a6 == nxt(5, a5)
               g == [k \in 1..6 |-> IF k = 1 THEN i + 4 ELSE IF k = 2 THEN a2
                                    ELSE IF k = 3 THEN a3 ELSE IF k = 4 THEN a4
                                    ELSE IF k = 5 THEN a5 ELSE a6]
    <3>2. at[1] = i + 4 /\ \A k \in 1..5 : at[k + 1] = nxt(k, at[k])
      <4> HIDE DEF fits
      <4>1. g = [k \in 1..6 |-> IF k = 1 THEN i + 4
                                ELSE IF ~given[k - 1] THEN g[k - 1]
                                ELSE IF fits(k - 1, g[k - 1]) THEN AfterString(buf, g[k - 1]) ELSE 0]
        <5>1. g = [k \in 1..6 |-> IF k = 1 THEN i + 4 ELSE nxt(k - 1, g[k - 1])]
          <6> HIDE DEF nxt
          <6>1. /\ g[1] = i + 4 /\ g[2] = a2 /\ g[3] = a3 /\ g[4] = a4 /\ g[5] = a5 /\ g[6] = a6
                /\ DOMAIN g = 1..6 /\ g = [k \in 1..6 |-> g[k]]
            <7> HIDE DEF a2, a3, a4, a5, a6
            <7> QED OBVIOUS
          <6> HIDE DEF g
          <6>2. ASSUME NEW k \in 1..6 PROVE g[k] = IF k = 1 THEN i + 4 ELSE nxt(k - 1, g[k - 1])
            <7>1. k = 1 \/ k = 2 \/ k = 3 \/ k = 4 \/ k = 5 \/ k = 6 OBVIOUS
            <7>2. CASE k = 1 BY <6>1, <7>2
            <7>3. CASE k = 2
              <8>1. k - 1 = 1 /\ k # 1 BY <7>3
              <8> QED BY <6>1, <7>3, <8>1
            <7>4. CASE k = 3
              <8>1. k - 1 = 2 /\ k # 1 BY <7>4
              <8>2. a3 = nxt(2, g[2]) BY <6>1
              <8> HIDE DEF a2, a3
              <8> QED BY <6>1, <7>4, <8>1, <8>2
            <7>5. CASE k = 4
              <8>1. k - 1 = 3 /\ k # 1 BY <7>5
              <8>2. a4 = nxt(3, g[3]) BY <6>1
              <8> HIDE DEF a3, a4
              <8> QED BY <6>1, <7>5, <8>1, <8>2
            <7>6. CASE k = 5
              <8>1. k - 1 = 4 /\ k # 1 BY <7>6
              <8>2. a5 = nxt(4, g[4]) BY <6>1
              <8> HIDE DEF a4, a5
              <8> QED BY <6>1, <7>6, <8>1, <8>2
            <7>7. CASE k = 6
              <8>1. k - 1 = 5 /\ k # 1 BY <7>7
              <8>2. a6 = nxt(5, g[5]) BY <6>1
              <8> HIDE DEF a5, a6
              <8> QED BY <6>1, <7>7, <8>1, <8>2
            <7> QED BY <7>1, <7>2, <7>3, <7>4, <7>5, <7>6, <7>7
          <6>3. [k \in 1..6 |-> g[k]]
                  = [k \in 1..6 |-> IF k = 1 THEN i + 4 ELSE nxt(k - 1, g[k - 1])]
            BY <6>2
          <6> QED BY <6>1, <6>3
        <5> HIDE DEF g
        <5> QED BY <5>1
      <4> HIDE DEF g
      <4>2. at = [k \in 1..6 |-> IF k = 1 THEN i + 4
                                 ELSE IF ~given[k - 1] THEN at[k - 1]
                                 ELSE IF fits(k - 1, at[k - 1]) THEN AfterString(buf, at[k - 1]) ELSE 0]
        BY <4>1
      <4> HIDE DEF at
      <4>3. at[1] = i + 4
        <5>1. 1 \in 1..6 OBVIOUS
        <5> QED BY <4>2, <5>1
      <4>4. ASSUME NEW k \in 1..5 PROVE at[k + 1] = nxt(k, at[k])
        <5>1. k + 1 \in 1..6 /\ k + 1 # 1 /\ (k + 1) - 1 = k OBVIOUS
        <5> QED BY <4>2, <5>1
      <4> QED BY <4>3, <4>4
    <3> HIDE DEF at
    <3>3. ASSUME NEW k \in 1..5, at[k] \in {0, ConnectPlace(p, s, k)}
          PROVE  at[k + 1] \in {0, ConnectPlace(p, s, k + 1)}
      <4>1. at[k + 1] = nxt(k, at[k]) BY <3>2
      <4> HIDE DEF fits
      <4>2. CASE ~given[k]
        <5>1. at[k + 1] = at[k] BY <4>1, <4>2
        <5> QED BY <1>14, <3>3, <4>2, <5>1
      <4>3. CASE given[k] /\ ~fits(k, at[k]) BY <4>1, <4>3
      <4>4. CASE given[k] /\ fits(k, at[k])
        <5>1. at[k] # 0 BY <4>4 DEF fits
        <5>2. at[k] = ConnectPlace(p, s, k) BY <3>3, <5>1
        <5>3. at[k + 1] = AfterString(buf, at[k]) BY <4>1, <4>4
        <5> QED BY <1>13, <4>4, <5>2, <5>3
      <4> QED BY <4>2, <4>3, <4>4
    <3>4. at[4] \in {0, ConnectPlace(p, s, 4)} /\ at[5] \in {0, ConnectPlace(p, s, 5)}
      <4> HIDE DEF nxt
      <4>1. at[1] \in {0, ConnectPlace(p, s, 1)} BY <1>15, <3>2
      <4>2. at[2] \in {0, ConnectPlace(p, s, 2)} BY <3>3, <4>1
      <4>3. at[3] \in {0, ConnectPlace(p, s, 3)} BY <3>3, <4>2
      <4>4. at[4] \in {0, ConnectPlace(p, s, 4)} BY <3>3, <4>3
      <4>5. at[5] \in {0, ConnectPlace(p, s, 5)} BY <3>3, <4>4
      <4> QED BY <4>4, <4>5
    <3>5. at[5] = nxt(4, at[4]) /\ at[6] = nxt(5, at[5])
      <4>1. 4 \in 1..5 /\ 5 \in 1..5 /\ 4 + 1 = 5 /\ 5 + 1 = 6 OBVIOUS
      <4> HIDE DEF nxt
      <4> QED BY <3>2, <4>1
    <3>6. ASSUME NEW k \in {4, 5}, NEW q \in {0, ConnectPlace(p, s, k)},
                 end - ConnectPlace(p, s, k) < 3
          PROVE  ~fits(k, q)
      <4>1. CASE q = 0 BY <4>1
      <4>2. CASE q # 0
        <5>1. q = ConnectPlace(p, s, k) /\ k > 3 BY <4>2
        <5>2. ConnectPlace(p, s, k) \in Nat
          <6>1. k \in 1..6 OBVIOUS
          <6> QED BY <1>4, <6>1, ConnectPlaces
        <5>3. PICK x \in Nat, y \in Nat : x = end /\ y = q BY <1>6, <5>1, <5>2
        <5>4. x - y < 3 BY <3>6, <5>1, <5>3
        <5>5. ~(end - q >= 3) BY <5>3, <5>4
        <5> QED BY <5>1, <5>5
      <4> QED BY <4>1, <4>2
    <3> HIDE DEF fits, a2, a3, a4, a5, a6, g
    <3>7. ASSUME given[5] /\ end - ConnectPlace(p, s, 5) < 3 PROVE at[6] = 0
      <4>1. ~fits(5, at[5]) BY <3>4, <3>6, <3>7
      <4> QED BY <3>5, <3>7, <4>1
    <3>8. ASSUME given[4] /\ ~given[5] /\ end - ConnectPlace(p, s, 4) < 3 PROVE at[6] = 0
      <4>1. ~fits(4, at[4]) BY <3>4, <3>6, <3>8
      <4> QED BY <3>5, <3>8, <4>1
    <3>9. at[6] = 0 BY <3>1, <3>7, <3>8
    <3> QED BY <1>1, <3>9
  <2> QED BY <2>1, <2>2
<1> SUFFICES ASSUME ConnectTaken(p)
             PROVE  MQTTDeserialize_connect(buf, End(buf) - 1) = ArrivedPacket(p)
  BY <1>30
<1> HIDE DEF fits
<1>16. h = [k \in 1..6 |-> IF k = 1 THEN i + 4
                           ELSE IF ~given[k - 1] THEN h[k - 1]
                           ELSE IF fits(k - 1, h[k - 1]) THEN AfterString(buf, h[k - 1]) ELSE 0]
  <2>1. ASSUME NEW k \in 1..6
        PROVE  ConnectPlace(p, s, k)
                 = IF k = 1 THEN i + 4
                   ELSE IF ~given[k - 1] THEN h[k - 1]
                   ELSE IF fits(k - 1, h[k - 1]) THEN AfterString(buf, h[k - 1]) ELSE 0
    <3>1. CASE k = 1 BY <1>15, <3>1
    <3>2. CASE k # 1
      <4>1. PICK j \in 1..5 : j = k - 1 BY <3>2
      <4>2. h[j] = ConnectPlace(p, s, j) /\ j + 1 = k BY <4>1
      <4> HIDE DEF h
      <4>3. CASE given[j] BY <1>13, <3>2, <4>1, <4>2, <4>3
      <4>4. CASE ~given[j] BY <1>14, <3>2, <4>1, <4>2, <4>4
      <4> QED BY <4>3, <4>4
    <3> QED BY <3>1, <3>2
  <2> HIDE DEF h
  <2>2. h = [k \in 1..6 |-> ConnectPlace(p, s, k)] BY DEF h
  <2> QED BY <2>1, <2>2
<1> HIDE DEF h
<1>17. at = [k \in 1..6 |-> IF k = 1 THEN i + 4
                            ELSE IF ~given[k - 1] THEN at[k - 1]
                            ELSE IF fits(k - 1, at[k - 1]) THEN AfterString(buf, at[k - 1]) ELSE 0]
  BY <1>16
<1> HIDE DEF at
<1>18. at[1] = h[1]
  <2>1. 1 \in 1..6 OBVIOUS
  <2> QED BY <1>16, <1>17, <2>1
<1>19. ASSUME NEW k \in 1..5, at[k] = h[k] PROVE at[k + 1] = h[k + 1]
  <2>1. k + 1 \in 1..6 /\ k + 1 # 1 /\ (k + 1) - 1 = k OBVIOUS
  <2>2. at[k + 1] = IF ~given[k] THEN at[k]
                    ELSE IF fits(k, at[k]) THEN AfterString(buf, at[k]) ELSE 0
    BY <1>17, <2>1
  <2>3. h[k + 1] = IF ~given[k] THEN h[k]
                   ELSE IF fits(k, h[k]) THEN AfterString(buf, h[k]) ELSE 0
    BY <1>16, <2>1
  <2> QED BY <1>19, <2>2, <2>3
<1>20. \A k \in 1..6 : at[k] = ConnectPlace(p, s, k)
  <2>1. \A k \in 1..6 : h[k] = ConnectPlace(p, s, k) BY DEF h
  <2>2. at[2] = h[2] BY <1>18, <1>19
  <2>3. at[3] = h[3] BY <2>2, <1>19
  <2>4. at[4] = h[4] BY <2>3, <1>19
  <2>5. at[5] = h[5] BY <2>4, <1>19
  <2>6. at[6] = h[6] BY <2>5, <1>19
  <2> TAKE k \in 1..6
  <2>7. k = 1 \/ k = 2 \/ k = 3 \/ k = 4 \/ k = 5 \/ k = 6 OBVIOUS
  <2> QED BY <1>18, <2>1, <2>2, <2>3, <2>4, <2>5, <2>6, <2>7
<1>21. at[6] # 0
  <2>1. 6 \in 1..6 OBVIOUS
  <2> QED BY <1>4, <1>20, <2>1, ConnectPlaces
<1>22. ~(given[5] /\ ~given[4]) BY <1>10 DEF ConnectTaken
<1>23. \A k \in 1..5 : string(k) = IF ConnectGiven(p)[k] THEN Arrived(ConnectStrings(p)[k]) ELSE NULL
  <2> TAKE k \in 1..5
  <2>1. at[k] = ConnectPlace(p, s, k) BY <1>20
  <2>2. CASE given[k]
    <3>1. ConnectGiven(p)[k] BY <1>12, <2>2
    <3>2. readMQTTLenString(buf, at[k]) = Arrived(ConnectStrings(p)[k]) BY <1>13, <2>1, <2>2
    <3> QED BY <2>2, <3>1, <3>2
  <2>3. CASE ~given[k]
    <3>1. ~ConnectGiven(p)[k] BY <1>12, <2>3
    <3> QED BY <2>3, <3>1
  <2> QED BY <2>2, <2>3
<1> HIDE DEF string
<1>24. /\ ConnectStrings(p)[1] = p.clientID /\ ConnectStrings(p)[2] = p.will.topicName
       /\ ConnectStrings(p)[3] = p.will.message /\ ConnectStrings(p)[4] = p.username
       /\ ConnectStrings(p)[5] = p.password
  BY SMT DEF ConnectStrings
<1>25. /\ string(1) = Arrived(p.clientID)
       /\ string(2) = IF p.willFlag THEN Arrived(p.will.topicName) ELSE NULL
       /\ string(3) = IF p.willFlag THEN Arrived(p.will.message) ELSE NULL
       /\ string(4) = IfGiven(IsGiven(p.username), p.username)
       /\ string(5) = IfGiven(IsGiven(p.password), p.password)
  <2>1. 1 \in 1..5 /\ 2 \in 1..5 /\ 3 \in 1..5 /\ 4 \in 1..5 /\ 5 \in 1..5 OBVIOUS
  <2>2. string(1) = Arrived(p.clientID) BY <1>11, <1>23, <1>24, <2>1
  <2>3. string(2) = IF p.willFlag THEN Arrived(p.will.topicName) ELSE NULL
    BY <1>11, <1>23, <1>24, <2>1
  <2>4. string(3) = IF p.willFlag THEN Arrived(p.will.message) ELSE NULL
    BY <1>11, <1>23, <1>24, <2>1
  <2>5. string(4) = IfGiven(IsGiven(p.username), p.username)
    BY <1>11, <1>23, <1>24, <2>1 DEF IfGiven
  <2>6. string(5) = IfGiven(IsGiven(p.password), p.password)
    BY <1>11, <1>23, <1>24, <2>1 DEF IfGiven
  <2> QED BY <2>2, <2>3, <2>4, <2>5, <2>6
<1>26. given[2] = p.willFlag BY <1>2, <1>10, Zenon
<1>27. /\ (IF given[2] THEN flag(8) + 2 * flag(16) ELSE NULL) = IF p.willFlag THEN p.will.qos ELSE NULL
       /\ (IF given[2] THEN flag(32) ELSE NULL) = IF p.willFlag THEN p.will.retained ELSE NULL
  <2>1. PICK x : x = flag(8) + 2 * flag(16) OBVIOUS
  <2>2. p.willFlag => x = p.will.qos /\ flag(32) = p.will.retained BY <1>9, <2>1
  <2>3. (IF given[2] THEN x ELSE NULL) = IF p.willFlag THEN p.will.qos ELSE NULL
    BY <1>26, <2>2, Zenon
  <2>4. (IF given[2] THEN flag(32) ELSE NULL) = IF p.willFlag THEN p.will.retained ELSE NULL
    BY <1>26, <2>2, Zenon
  <2> QED BY <2>1, <2>3, <2>4, Zenon
<1>28. MQTTDeserialize_connect(buf, End(buf) - 1)
        = [rc |-> 1, type |-> "CONNECT", cleansession |-> flag(2),
           keepAliveInterval |-> readInt(buf, i + 2),
           clientID |-> string(1), willFlag |-> given[2],
           willQoS |-> IF given[2] THEN flag(8) + 2 * flag(16) ELSE NULL,
           willRetain |-> IF given[2] THEN flag(32) ELSE NULL,
           topicName |-> string(2), message |-> string(3),
           username |-> string(4), password |-> string(5)]
  BY <1>1, <1>3, <1>7, <1>8, <1>21, <1>22, Zenon
<1>29. ArrivedPacket(p)
        = [rc |-> 1, type |-> "CONNECT", cleansession |-> p.cleansession,
            keepAliveInterval |-> p.keepAliveInterval, clientID |-> Arrived(p.clientID),
            willFlag |-> p.willFlag,
            willQoS |-> IF p.willFlag THEN p.will.qos ELSE NULL,
            willRetain |-> IF p.willFlag THEN p.will.retained ELSE NULL,
            topicName |-> IF p.willFlag THEN Arrived(p.will.topicName) ELSE NULL,
            message |-> IF p.willFlag THEN Arrived(p.will.message) ELSE NULL,
            username |-> IfGiven(IsGiven(p.username), p.username),
            password |-> IfGiven(IsGiven(p.password), p.password)]
  BY <1>2 DEF ArrivedPacket
<1> QED BY <1>5, <1>9, <1>25, <1>26, <1>27, <1>28, <1>29, Zenon

-----------------------------------------------------------------------------
(* What a packet that was read comes to *)

\* more filters or codes than the deserializer takes, which is not maxcount for every type
OverTaken(p) ==
    \/ p.type = "SUBSCRIBE" /\ Len(p.topicFilters) > MaxCount
    \/ p.type = "SUBACK" /\ Len(p.grantedQoSs) > MaxCount + 1

\* not refused
Accepted(p) == ~(OverTaken(p) \/ (p.type = "CONNECT" /\ ~ConnectTaken(p)))

\* the codes of a SUBACK are the same as a char
Codes(p) == p.type = "SUBACK" => PlainCodes(p)

\* a packet is of the kind that its type says
LEMMA KindOfType ==
    ASSUME NEW p \in Packets
    PROVE  /\ p.type = "CONNECT" => p \in ConnectPackets
           /\ p.type = "CONNACK" => p \in ConnackPackets
           /\ p.type = "PUBLISH" => p \in PublishPackets
           /\ p.type \in {"PUBACK", "PUBREC", "PUBREL", "PUBCOMP"} => p \in AckPackets
           /\ p.type = "SUBSCRIBE" => p \in SubscribePackets
           /\ p.type = "SUBACK" => p \in SubackPackets
           /\ p.type = "UNSUBSCRIBE" => p \in UnsubscribePackets
           /\ p.type = "UNSUBACK" => p \in UnsubackPackets
           /\ p.type \in {"PINGREQ", "PINGRESP", "DISCONNECT"} => p \in ZeroPackets
<1>1. /\ p \in ConnectPackets => p.type = "CONNECT"
      /\ p \in ConnackPackets => p.type = "CONNACK"
      /\ p \in PublishPackets => p.type = "PUBLISH"
      /\ p \in AckPackets => p.type \in {"PUBACK", "PUBREC", "PUBREL", "PUBCOMP"}
      /\ p \in SubscribePackets => p.type = "SUBSCRIBE"
      /\ p \in SubackPackets => p.type = "SUBACK"
      /\ p \in UnsubscribePackets => p.type = "UNSUBSCRIBE"
      /\ p \in UnsubackPackets => p.type = "UNSUBACK"
      /\ p \in ZeroPackets => p.type \in {"PINGREQ", "PINGRESP", "DISCONNECT"}
  BY DEF ConnectPackets, ConnackPackets, PublishPackets, AckPackets, SubscribePackets,
         SubackPackets, UnsubscribePackets, UnsubackPackets, ZeroPackets
<1> QED BY <1>1, Kinds, SMT

LEMMA ComesToClient ==
    ASSUME NEW p \in Packets, p.type \in MaySend.server, NEW buf, At(buf, 1, Wire(p)), Codes(p)
    PROVE  /\ Accepted(p) => ToClient(buf, MaxCount) = ArrivedPacket(p)
           /\ ~Accepted(p) => ToClient(buf, MaxCount).rc <= 0
<1>1. typeOf(buf[1]) = p.type BY WireAt
<1>2. p.type \in {"CONNACK", "PUBLISH", "PUBACK", "PUBREC", "PUBREL", "PUBCOMP", "SUBACK",
                  "UNSUBACK", "PINGRESP"}
  BY DEF MaySend
<1>3. CASE p.type = "CONNACK"
  <2>1. p \in ConnackPackets BY <1>3, KindOfType
  <2>2. ToClient(buf, MaxCount) = MQTTDeserialize_connack(buf) BY <1>1, <1>3 DEF ToClient
  <2>3. Accepted(p) BY <1>3 DEF Accepted, OverTaken
  <2> QED BY <2>1, <2>2, <2>3, ConnackArrives
<1>4. CASE p.type = "PUBLISH"
  <2>1. p \in PublishPackets BY <1>4, KindOfType
  <2>2. ToClient(buf, MaxCount) = MQTTDeserialize_publish(buf) BY <1>1, <1>4 DEF ToClient
  <2>3. Accepted(p) BY <1>4 DEF Accepted, OverTaken
  <2> QED BY <2>1, <2>2, <2>3, PublishArrives
<1>5. CASE p.type \in {"PUBACK", "PUBREC", "PUBREL", "PUBCOMP"}
  <2>1. p \in AckPackets BY <1>5, KindOfType
  <2>2. ToClient(buf, MaxCount) = MQTTDeserialize_ack(buf) BY <1>1, <1>5 DEF ToClient
  <2>3. Accepted(p) BY <1>5 DEF Accepted, OverTaken
  <2> QED BY <2>1, <2>2, <2>3, AckArrives
<1>6. CASE p.type = "SUBACK"
  <2>1. p \in SubackPackets BY <1>6, KindOfType
  <2>2. ToClient(buf, MaxCount) = MQTTDeserialize_suback(buf, MaxCount)
    BY <1>1, <1>6 DEF ToClient
  <2>3. PlainCodes(p) BY <1>6, Zenon DEF Codes
  <2>4. /\ Len(p.grantedQoSs) <= MaxCount + 1 => ToClient(buf, MaxCount) = ArrivedPacket(p)
        /\ Len(p.grantedQoSs) > MaxCount + 1 => ToClient(buf, MaxCount).rc = -1
    BY <2>1, <2>2, <2>3, SubackArrives
  <2>5. ~Accepted(p) <=> Len(p.grantedQoSs) > MaxCount + 1 BY <1>6 DEF Accepted, OverTaken
  <2>6. Len(p.grantedQoSs) \in Int /\ MaxCount \in Int
    <3>1. p.grantedQoSs \in Seq(Byte) BY <2>1 DEF SubackPackets
    <3> QED BY <3>1, PathAssumption
  <2>7. CASE Len(p.grantedQoSs) > MaxCount + 1 BY <2>4, <2>5, <2>7
  <2>8. CASE Len(p.grantedQoSs) <= MaxCount + 1
    <3>1. ~(Len(p.grantedQoSs) > MaxCount + 1) BY <2>6, <2>8
    <3> QED BY <2>4, <2>5, <2>8, <3>1
  <2> QED BY <2>6, <2>7, <2>8
<1>7. CASE p.type = "UNSUBACK"
  <2>1. p \in UnsubackPackets BY <1>7, KindOfType
  <2>2. ToClient(buf, MaxCount) = MQTTDeserialize_unsuback(buf) BY <1>1, <1>7 DEF ToClient
  <2>3. Accepted(p) BY <1>7 DEF Accepted, OverTaken
  <2> QED BY <2>1, <2>2, <2>3, UnsubackArrives
<1>8. CASE p.type = "PINGRESP"
  <2>1. p \in ZeroPackets BY <1>8, KindOfType
  <2>2. ToClient(buf, MaxCount) = [rc |-> 1, type |-> p.type] BY <1>1, <1>8 DEF ToClient
  <2>3. Accepted(p) BY <1>8 DEF Accepted, OverTaken
  <2> QED BY <2>1, <2>2, <2>3, ZeroArrives
<1> QED BY <1>2, <1>3, <1>4, <1>5, <1>6, <1>7, <1>8

LEMMA ComesToServer ==
    ASSUME NEW p \in Packets, p.type \in MaySend.client, NEW buf, At(buf, 1, Wire(p)), Codes(p)
    PROVE  /\ Accepted(p) => ToServer(buf, End(buf) - 1, MaxCount) = ArrivedPacket(p)
           /\ ~Accepted(p) => ToServer(buf, End(buf) - 1, MaxCount).rc <= 0
<1>1. typeOf(buf[1]) = p.type BY WireAt
<1>2. p.type \in {"CONNECT", "PUBLISH", "PUBACK", "PUBREC", "PUBREL", "PUBCOMP", "SUBSCRIBE",
                  "UNSUBSCRIBE", "PINGREQ", "DISCONNECT"}
  BY DEF MaySend
<1>3. CASE p.type = "CONNECT"
  <2>1. p \in ConnectPackets BY <1>3, KindOfType
  <2>2. ToServer(buf, End(buf) - 1, MaxCount) = MQTTDeserialize_connect(buf, End(buf) - 1)
    BY <1>1, <1>3 DEF ToServer
  <2>3. Accepted(p) <=> ConnectTaken(p) BY <1>3 DEF Accepted, OverTaken
  <2>4. ToServer(buf, End(buf) - 1, MaxCount)
          = IF ConnectTaken(p) THEN ArrivedPacket(p) ELSE [rc |-> 0]
    BY <2>1, <2>2, ConnectArrives
  <2> QED BY <2>3, <2>4
<1>4. CASE p.type = "PUBLISH"
  <2>1. p \in PublishPackets BY <1>4, KindOfType
  <2>2. ToServer(buf, End(buf) - 1, MaxCount) = MQTTDeserialize_publish(buf)
    BY <1>1, <1>4 DEF ToServer
  <2>3. Accepted(p) BY <1>4 DEF Accepted, OverTaken
  <2> QED BY <2>1, <2>2, <2>3, PublishArrives
<1>5. CASE p.type \in {"PUBACK", "PUBREC", "PUBREL", "PUBCOMP"}
  <2>1. p \in AckPackets BY <1>5, KindOfType
  <2>2. ToServer(buf, End(buf) - 1, MaxCount) = MQTTDeserialize_ack(buf)
    BY <1>1, <1>5 DEF ToServer
  <2>3. Accepted(p) BY <1>5 DEF Accepted, OverTaken
  <2> QED BY <2>1, <2>2, <2>3, AckArrives
<1>6. CASE p.type = "SUBSCRIBE"
  <2>1. p \in SubscribePackets BY <1>6, KindOfType
  <2>2. ToServer(buf, End(buf) - 1, MaxCount) = MQTTDeserialize_subscribe(buf, MaxCount)
    BY <1>1, <1>6 DEF ToServer
  <2>3. /\ Len(p.topicFilters) <= MaxCount =>
             ToServer(buf, End(buf) - 1, MaxCount) = ArrivedPacket(p)
        /\ Len(p.topicFilters) > MaxCount => ToServer(buf, End(buf) - 1, MaxCount).rc = -1
    BY <2>1, <2>2, SubscribeArrives
  <2>4. ~Accepted(p) <=> Len(p.topicFilters) > MaxCount BY <1>6 DEF Accepted, OverTaken
  <2>5. Len(p.topicFilters) \in Int /\ MaxCount \in Int
    <3>1. p.topicFilters \in Seq(String) BY <2>1 DEF SubscribePackets
    <3> QED BY <3>1, PathAssumption
  <2>6. CASE Len(p.topicFilters) > MaxCount BY <2>3, <2>4, <2>6
  <2>7. CASE Len(p.topicFilters) <= MaxCount
    <3>1. ~(Len(p.topicFilters) > MaxCount) BY <2>5, <2>7
    <3> QED BY <2>3, <2>4, <2>7, <3>1
  <2> QED BY <2>5, <2>6, <2>7
<1>7. CASE p.type = "UNSUBSCRIBE"
  <2>1. p \in UnsubscribePackets BY <1>7, KindOfType
  <2>2. ToServer(buf, End(buf) - 1, MaxCount) = MQTTDeserialize_unsubscribe(buf)
    BY <1>1, <1>7 DEF ToServer
  <2>3. Accepted(p) BY <1>7 DEF Accepted, OverTaken
  <2> QED BY <2>1, <2>2, <2>3, UnsubscribeArrives
<1>8. CASE p.type \in {"PINGREQ", "DISCONNECT"}
  <2>1. p \in ZeroPackets BY <1>8, KindOfType
  <2>2. ToServer(buf, End(buf) - 1, MaxCount) = [rc |-> 1, type |-> p.type]
    BY <1>1, <1>8 DEF ToServer
  <2>3. Accepted(p) BY <1>8 DEF Accepted, OverTaken
  <2> QED BY <2>1, <2>2, <2>3, ZeroArrives
<1> QED BY <1>2, <1>3, <1>4, <1>5, <1>6, <1>7, <1>8

-----------------------------------------------------------------------------
(* The last step of the way *)

\* where a message goes
Delivered(p) == HandlersCalled(messageHandlers, Arrived(p.topicName))

DoneInv ==
    step = "handled" /\ packet # NULL =>
        /\ Codes(packet) /\ Accepted(packet) => got = ArrivedPacket(packet)
        /\ Codes(packet) /\ ~Accepted(packet) => rc <= 0
        /\ packet.type = "PUBLISH" => called = Delivered(packet)

LEMMA DoneHandling == ASSUME PathInv, Handling PROVE DoneInv'
<1>1. /\ step = "read" /\ rc > 0 /\ packet' = packet
      /\ got' = IF sender = "server" THEN ToClient(readbuf, MaxCount)
                ELSE ToServer(readbuf, End(readbuf) - 1, MaxCount)
      /\ rc' = got'.rc
      /\ called' = IF typeOf(readbuf[1]) = "PUBLISH" /\ got'.rc = 1
                   THEN HandlersCalled(messageHandlers, got'.topicName) ELSE {}
  BY DEF Handling
<1>2. /\ packet \in Packets /\ packet # NULL /\ packet.type \in MaySend[sender]
      /\ At(readbuf, 1, Wire(packet)) /\ sender \in DOMAIN MaySend
  BY <1>1 DEF PathInv
<1>3. DOMAIN MaySend = {"client", "server"} BY DEF MaySend
<1>4. ASSUME Codes(packet)
      PROVE  /\ Accepted(packet) => got' = ArrivedPacket(packet)
             /\ ~Accepted(packet) => rc' <= 0
  <2>1. CASE sender = "server"
    <3>1. /\ Accepted(packet) => ToClient(readbuf, MaxCount) = ArrivedPacket(packet)
          /\ ~Accepted(packet) => ToClient(readbuf, MaxCount).rc <= 0
      BY <1>2, <1>4, <2>1, ComesToClient
    <3> QED BY <1>1, <2>1, <3>1
  <2>2. CASE sender = "client"
    <3>1. /\ Accepted(packet) => ToServer(readbuf, End(readbuf) - 1, MaxCount) = ArrivedPacket(packet)
          /\ ~Accepted(packet) => ToServer(readbuf, End(readbuf) - 1, MaxCount).rc <= 0
      BY <1>2, <1>4, <2>2, ComesToServer
    <3> QED BY <1>1, <2>2, <3>1
  <2> QED BY <1>2, <1>3, <2>1, <2>2
<1>5. ASSUME packet.type = "PUBLISH" PROVE called' = Delivered(packet)
  <2>1. Codes(packet) /\ Accepted(packet) BY <1>5 DEF Codes, Accepted, OverTaken
  <2>2. got' = ArrivedPacket(packet) BY <1>4, <2>1
  <2>3. got'.rc = 1 /\ got'.topicName = Arrived(packet.topicName)
    BY <1>5, <2>2 DEF ArrivedPacket
  <2>4. typeOf(readbuf[1]) = "PUBLISH" BY <1>2, <1>5, WireAt
  <2> QED BY <1>1, <2>3, <2>4 DEF Delivered
<1> QED BY <1>1, <1>4, <1>5, Zenon DEF DoneInv

LEMMA DoneInvariant == Spec => []DoneInv
<1>1. Init => DoneInv BY DEF Init, DoneInv
<1>2. ASSUME PathInv, DoneInv, [Next]_vars PROVE DoneInv'
  <2>1. CASE \E p \in Packets : Sending(p)
    <3>1. step' = "serialized" BY <2>1 DEF Sending
    <3> QED BY <3>1 DEF DoneInv
  <2>2. CASE Reading
    <3>1. step' = "read" BY <2>2 DEF Reading
    <3> QED BY <3>1 DEF DoneInv
  <2>3. CASE Handling BY <1>2, <2>3, DoneHandling
  <2>4. CASE UNCHANGED vars
    <3>1. step' = step /\ packet' = packet /\ rc' = rc /\ got' = got /\ called' = called
      BY <2>4 DEF vars
    <3> QED BY <1>2, <3>1, Zenon DEF DoneInv
  <2> QED BY <1>2, <2>1, <2>2, <2>3, <2>4 DEF Next
<1> QED BY <1>1, <1>2, PathInvariant, PTL DEF Spec

(***************************************************************************)
(* What a serializer is given, the deserializer of the other end assigns,  *)
(* whatever was in the buffers, or it refuses the packet as ArrivesAsSent  *)
(* says.  The codes of a SUBACK have to be the same as a char: a 128 is    *)
(* not where char is signed.                                               *)
(***************************************************************************)
THEOREM PacketsArriveAsSent ==
    ASSUME \A p \in Packets : Codes(p)
    PROVE  Spec => []ArrivesAsSent
<1>1. ASSUME PathInv, DoneInv PROVE ArrivesAsSent
  <2>1. packet \in Packets \cup {NULL} BY <1>1 DEF PathInv
  <2>2. step = "handled" /\ packet # NULL =>
          IF Accepted(packet) THEN got = ArrivedPacket(packet) ELSE rc <= 0
    BY <1>1, <2>1, Zenon DEF DoneInv
  <2>3. ASSUME packet \in Packets
        PROVE  /\ packet.type = "CONNECT" /\ ~ConnectTaken(packet) => ~Accepted(packet)
               /\ TooMany(packet) /\ packet.type = "SUBSCRIBE" => ~Accepted(packet)
               /\ ~TooMany(packet) => ~OverTaken(packet)
    <3>1. ASSUME packet.type = "SUBACK"
          PROVE  Len(packet.grantedQoSs) \in Nat /\ MaxCount \in Nat
      <4>1. packet.grantedQoSs \in Seq(Byte) BY <2>3, <3>1, KindOfType DEF SubackPackets
      <4> QED BY <4>1, LenProperties, PathAssumption
    <3> QED BY <3>1 DEF Accepted, OverTaken, TooMany
  <2> QED BY <2>1, <2>2, <2>3, Zenon DEF ArrivesAsSent, Accepted
<1> QED BY <1>1, PathInvariant, DoneInvariant, PTL

-----------------------------------------------------------------------------
(* The walk of isTopicMatched *)

Stops(F, N, f, n) ==
    \/ N[n] = Separator /\ F[f] # Separator
    \/ F[f] \notin {AnyLevel, AnyLevels, N[n]}
LastAt(F, N, f, n) ==
    CASE F[f] = AnyLevel  -> LevelEnd(N, n)
      [] F[f] = AnyLevels -> Len(N)
      [] OTHER            -> n

\* what curf at f and curn at n lead to
Walk(R, F, N) ==
    \A f \in 1..(Len(F) + 1), n \in 1..(Len(N) + 1) :
        R[f][n] = IF f > Len(F) \/ n > Len(N) THEN f > Len(F) /\ n > Len(N)
                  ELSE ~Stops(F, N, f, n) /\ R[f + 1][LastAt(F, N, f, n) + 1]

LEMMA LevelEnds ==
    ASSUME NEW N \in Seq(Byte), NEW n \in 1..Len(N)
    PROVE  /\ LevelEnd(N, n) \in n..Len(N)
           /\ LevelEnd(N, n) = Len(N) \/ N[LevelEnd(N, n) + 1] = Separator
           /\ \A k \in n..Len(N) : k = Len(N) \/ N[k + 1] = Separator => LevelEnd(N, n) <= k
<1> DEFINE T == {k \in n..Len(N) : k = Len(N) \/ N[k + 1] = Separator}
<1>0. Len(N) \in Nat BY LenProperties
<1>1. T \subseteq Nat /\ Len(N) \in T BY <1>0
<1>2. PICK x \in T : \A y \in T : x <= y BY <1>1, LeastNumber
<1>3. LevelEnd(N, n) = CHOOSE z \in T : \A y \in T : z <= y BY DEF LevelEnd, Min
<1>4. PICK e : e = LevelEnd(N, n) OBVIOUS
<1>5. e \in T /\ \A y \in T : e <= y BY <1>2, <1>3, <1>4
<1>6. \A k \in n..Len(N) : k = Len(N) \/ N[k + 1] = Separator => e <= k BY <1>5
<1> QED BY <1>4, <1>5, <1>6

LEMMA LastInName ==
    ASSUME NEW F \in Seq(Byte), NEW N \in Seq(Byte), NEW f \in 1..Len(F), NEW n \in 1..Len(N)
    PROVE  LastAt(F, N, f, n) \in n..Len(N)
<1>1. Len(N) \in Nat BY LenProperties
<1>2. LevelEnd(N, n) \in n..Len(N) BY LevelEnds
<1>3. CASE F[f] = AnyLevel BY <1>2, <1>3 DEF LastAt
<1>4. CASE F[f] # AnyLevel /\ F[f] = AnyLevels
  <2>1. LastAt(F, N, f, n) = Len(N) BY <1>4 DEF LastAt
  <2> QED BY <1>1, <2>1
<1>5. CASE F[f] # AnyLevel /\ F[f] # AnyLevels
  <2>1. LastAt(F, N, f, n) = n BY <1>5 DEF LastAt
  <2> QED BY <1>1, <2>1
<1> QED BY <1>3, <1>4, <1>5

\* The walk is determined by the steps taken: from f and n there is a way to both ends.
LEMMA WalkExists ==
    ASSUME NEW F \in Seq(Byte), NEW N \in Seq(Byte)
    PROVE  \E R : R = [f \in 1..(Len(F) + 1) |-> [n \in 1..(Len(N) + 1) |->
                         IF f > Len(F) \/ n > Len(N) THEN f > Len(F) /\ n > Len(N)
                         ELSE ~Stops(F, N, f, n) /\ R[f + 1][LastAt(F, N, f, n) + 1]]]
<1> DEFINE A == 1..(Len(F) + 1)
           B == 1..(Len(N) + 1)
           Way(m, f, n) ==
              /\ m \in [A -> B] /\ m[f] = n /\ m[Len(F) + 1] = Len(N) + 1
              /\ \A k \in A : k >= f /\ k <= Len(F) =>
                    /\ m[k] <= Len(N) /\ ~Stops(F, N, k, m[k])
                    /\ m[k + 1] = LastAt(F, N, k, m[k]) + 1
           W(f, n) == \E m : Way(m, f, n)
           R == [f \in A |-> [n \in B |-> W(f, n)]]
<1>0. Len(F) \in Nat /\ Len(N) \in Nat BY LenProperties
<1>1. ASSUME NEW f \in A, NEW n \in B, f > Len(F)
      PROVE  W(f, n) <=> n > Len(N)
  <2>1. f = Len(F) + 1 BY <1>0, <1>1
  <2>2. ASSUME W(f, n) PROVE n > Len(N)
    <3>1. n = Len(N) + 1 BY <2>1, <2>2
    <3> QED BY <1>0, <3>1
  <2>3. ASSUME n > Len(N) PROVE W(f, n)
    <3>1. n = Len(N) + 1 BY <1>0, <2>3
    <3> DEFINE m == [k \in A |-> n]
    <3>2. m \in [A -> B] /\ m[f] = n /\ m[Len(F) + 1] = Len(N) + 1 BY <2>1, <3>1
    <3>3. \A k \in A : ~(k >= f /\ k <= Len(F)) BY <1>0, <2>1
    <3> HIDE DEF m
    <3>4. Way(m, f, n) BY <3>2, <3>3
    <3> QED BY <3>4
  <2> QED BY <2>2, <2>3
<1>2. ASSUME NEW f \in A, NEW n \in B, f <= Len(F), n > Len(N)
      PROVE  ~W(f, n)
  <2> SUFFICES ASSUME NEW m, Way(m, f, n) PROVE FALSE OBVIOUS
  <2>1. m[f] <= Len(N) /\ m[f] = n
    <3>1. f \in A /\ f >= f BY <1>2
    <3> QED BY <1>2, <3>1
  <2> QED BY <1>0, <1>2, <2>1
<1>3. ASSUME NEW f \in A, NEW n \in B, f <= Len(F), n <= Len(N)
      PROVE  W(f, n) <=> ~Stops(F, N, f, n) /\ W(f + 1, LastAt(F, N, f, n) + 1)
  <2>0. f \in 1..Len(F) /\ n \in 1..Len(N) /\ f + 1 \in A /\ f >= f /\ f # Len(F) + 1
    BY <1>0, <1>3
  <2>1. PICK e : e = LastAt(F, N, f, n) + 1 OBVIOUS
  <2>2. e \in B
    <3>1. LastAt(F, N, f, n) \in n..Len(N) BY <2>0, LastInName
    <3> QED BY <1>0, <2>1, <3>1
  <2>3. ASSUME W(f, n) PROVE ~Stops(F, N, f, n) /\ W(f + 1, e)
    <3>1. PICK m : Way(m, f, n) BY <2>3
    <3>2. ~Stops(F, N, f, n) /\ m[f + 1] = e BY <1>3, <2>0, <2>1, <3>1
    <3>3. \A k \in A : k >= f + 1 => k >= f BY <1>0, <2>0
    <3>4. Way(m, f + 1, e) BY <3>1, <3>2, <3>3
    <3> QED BY <3>2, <3>4
  <2>4. ASSUME ~Stops(F, N, f, n), W(f + 1, e) PROVE W(f, n)
    <3>1. PICK m : Way(m, f + 1, e) BY <2>4
    <3> DEFINE w == [m EXCEPT ![f] = n]
    <3>2. w \in [A -> B] /\ w[f] = n /\ \A k \in A : k # f => w[k] = m[k] BY <3>1
    <3> HIDE DEF w
    <3>3. w[Len(F) + 1] = Len(N) + 1
      <4>1. Len(F) + 1 \in A BY <1>0
      <4> QED BY <2>0, <3>1, <3>2, <4>1
    <3>4. ASSUME NEW k \in A, k >= f, k <= Len(F)
          PROVE  /\ w[k] <= Len(N) /\ ~Stops(F, N, k, w[k])
                 /\ w[k + 1] = LastAt(F, N, k, w[k]) + 1
      <4>1. k + 1 \in A /\ k + 1 # f BY <1>0, <2>0, <3>4
      <4>2. w[k + 1] = m[k + 1] BY <3>2, <4>1
      <4>3. CASE k = f
        <5>1. m[f + 1] = e BY <3>1
        <5> QED BY <1>3, <2>1, <2>4, <3>2, <4>2, <4>3, <5>1
      <4>4. CASE k # f
        <5>1. k >= f + 1 BY <2>0, <3>4, <4>4
        <5>2. w[k] = m[k] BY <3>2, <4>4
        <5>3. /\ m[k] <= Len(N) /\ ~Stops(F, N, k, m[k])
              /\ m[k + 1] = LastAt(F, N, k, m[k]) + 1
          BY <3>1, <3>4, <5>1
        <5> QED BY <4>2, <5>2, <5>3
      <4> QED BY <4>3, <4>4
    <3>5. Way(w, f, n) BY <3>2, <3>3, <3>4
    <3> QED BY <3>5
  <2> HIDE DEF W
  <2> QED BY <2>1, <2>3, <2>4
<1> HIDE DEF W
<1>4. ASSUME NEW f \in A, NEW n \in B
      PROVE  W(f, n) = IF f > Len(F) \/ n > Len(N) THEN f > Len(F) /\ n > Len(N)
                       ELSE ~Stops(F, N, f, n) /\ R[f + 1][LastAt(F, N, f, n) + 1]
  <2>0. W(f, n) \in BOOLEAN BY DEF W
  <2>1. CASE f > Len(F) BY <1>1, <2>0, <2>1, Zenon
  <2>2. CASE ~(f > Len(F)) /\ n > Len(N)
    <3>1. f <= Len(F) BY <1>0, <2>2
    <3>2. ~W(f, n) BY <1>2, <2>2, <3>1
    <3> QED BY <2>0, <2>2, <3>2, Zenon
  <2>3. CASE ~(f > Len(F)) /\ ~(n > Len(N))
    <3>1. f <= Len(F) /\ n <= Len(N) /\ f \in 1..Len(F) /\ n \in 1..Len(N) /\ f + 1 \in A
      BY <1>0, <2>3
    <3>2. W(f, n) <=> ~Stops(F, N, f, n) /\ W(f + 1, LastAt(F, N, f, n) + 1) BY <1>3, <3>1
    <3>3. LastAt(F, N, f, n) + 1 \in B
      <4>1. LastAt(F, N, f, n) \in n..Len(N) BY <3>1, LastInName
      <4> QED BY <1>0, <4>1
    <3>4. R[f + 1][LastAt(F, N, f, n) + 1] = W(f + 1, LastAt(F, N, f, n) + 1) BY <3>1, <3>3
    <3> HIDE DEF R
    <3> QED BY <2>0, <2>3, <3>2, <3>4, Zenon
  <2> QED BY <2>1, <2>2, <2>3
<1>5. R = [f \in A |-> [n \in B |-> W(f, n)]] OBVIOUS
<1> HIDE DEF R
<1>6. ASSUME NEW f \in A
      PROVE  [n \in B |-> W(f, n)]
               = [n \in B |-> IF f > Len(F) \/ n > Len(N) THEN f > Len(F) /\ n > Len(N)
                              ELSE ~Stops(F, N, f, n) /\ R[f + 1][LastAt(F, N, f, n) + 1]]
  <2> HIDE DEF A, B
  <2> QED BY <1>4
<1>7. R = [f \in A |-> [n \in B |->
             IF f > Len(F) \/ n > Len(N) THEN f > Len(F) /\ n > Len(N)
             ELSE ~Stops(F, N, f, n) /\ R[f + 1][LastAt(F, N, f, n) + 1]]]
  <2> HIDE DEF A, B
  <2> QED BY <1>5, <1>6
<1> QED BY <1>7

LEMMA Walked ==
    ASSUME NEW F \in Seq(Byte), NEW N \in Seq(Byte)
    PROVE  \E R : Walk(R, F, N) /\ isTopicMatched(F, N) = R[1][1]
<1> DEFINE stops(f, n) == \/ N[n] = Separator /\ F[f] # Separator
                          \/ F[f] \notin {AnyLevel, AnyLevels, N[n]}
           last(f, n) == CASE F[f] = AnyLevel  -> LevelEnd(N, n)
                           [] F[f] = AnyLevels -> Len(N)
                           [] OTHER            -> n
           R == CHOOSE matched : matched = [f \in 1..(Len(F) + 1) |-> [n \in 1..(Len(N) + 1) |->
                  IF f > Len(F) \/ n > Len(N) THEN f > Len(F) /\ n > Len(N)
                  ELSE ~stops(f, n) /\ matched[f + 1][last(f, n) + 1]]]
<1>1. isTopicMatched(F, N) = R[1][1] BY DEF isTopicMatched
<1>2. R = [f \in 1..(Len(F) + 1) |-> [n \in 1..(Len(N) + 1) |->
             IF f > Len(F) \/ n > Len(N) THEN f > Len(F) /\ n > Len(N)
             ELSE ~stops(f, n) /\ R[f + 1][last(f, n) + 1]]]
  BY WalkExists DEF Stops, LastAt
<1> HIDE DEF R
<1>3. Walk(R, F, N) BY <1>2 DEF Walk, Stops, LastAt
<1> QED BY <1>1, <1>3

-----------------------------------------------------------------------------
(* Where the levels of a topic are *)

\* b[i] is the place where level i of the topic T ends
LevelStart(b, i) == b[i - 1] + (IF i = 1 THEN 1 ELSE 2)
Placed(T, levels, b) ==
    /\ T \in Seq(Byte) /\ Len(levels) \in Nat \ {0}
    /\ b \in [0..Len(levels) -> Nat] /\ b[0] = 0 /\ b[Len(levels)] = Len(T)
    /\ \A i \in 1..Len(levels) :
          /\ levels[i] \in Seq(Byte) /\ Len(levels[i]) \in Nat \ {0}
          /\ b[i] = LevelStart(b, i) + Len(levels[i]) - 1 /\ b[i] <= Len(T)
          /\ \A j \in 1..Len(levels[i]) : T[LevelStart(b, i) + j - 1] = levels[i][j]
          /\ i > 1 => T[b[i - 1] + 1] = Separator

\* Counts do not decrease.
LEMMA CountsBelow ==
    ASSUME NEW s, NEW f, Counts(f, s), Len(s) \in Nat, \A k \in 1..Len(s) : Len(s[k]) \in Nat
    PROVE  \A k \in 0..Len(s) : f[k] <= f[Len(s)]
<1> DEFINE n == Len(s)
           S == {d \in Nat : d <= n => f[n - d] <= f[n]}
<1>1. f \in [0..n -> Nat] /\ \A k \in 1..n : f[k] = f[k - 1] + Len(s[k]) BY DEF Counts
<1>2. 0 \in S
  <2>1. n - 0 = n /\ n \in 0..n OBVIOUS
  <2>2. f[n] \in Nat BY <1>1, <2>1
  <2> QED BY <2>1, <2>2
<1>3. ASSUME NEW d \in Nat, d \in S PROVE d + 1 \in S
  <2> SUFFICES ASSUME d + 1 <= n PROVE f[n - (d + 1)] <= f[n] OBVIOUS
  <2>1. f[n - d] <= f[n] BY <1>3
  <2>2. PICK k \in 1..n : k = n - d
    <3>1. n \in Nat OBVIOUS
    <3>2. n - d \in 1..n BY <3>1
    <3> QED BY <3>2
  <2>3. k - 1 = n - (d + 1) /\ k - 1 \in 0..n /\ k \in 0..n BY <2>2
  <2>4. f[k] = f[k - 1] + Len(s[k]) /\ Len(s[k]) \in Nat BY <1>1, <2>2
  <2>5. PICK x \in Nat, y \in Nat, z \in Nat, m \in Nat :
          x = f[k] /\ y = f[k - 1] /\ z = Len(s[k]) /\ m = f[n]
    <3>1. n \in 0..n OBVIOUS
    <3>2. f[k] \in Nat /\ f[k - 1] \in Nat /\ f[n] \in Nat BY <1>1, <2>3, <3>1
    <3> QED BY <2>4, <3>2
  <2>6. x = y + z /\ x <= m BY <2>1, <2>2, <2>4, <2>5
  <2>7. y <= m BY <2>6
  <2> QED BY <2>3, <2>5, <2>7
<1> HIDE DEF S
<1>4. Nat \subseteq S BY <1>2, <1>3, SetInduction
<1>5. ASSUME NEW k \in 0..n PROVE f[k] <= f[n]
  <2>1. n - k \in Nat /\ n - k <= n /\ n - (n - k) = k OBVIOUS
  <2>2. n - k \in S BY <1>4, <2>1
  <2> QED BY <2>1, <2>2 DEF S
<1> QED BY <1>5

\* the levels with their separators
Pieces(levels) ==
    [i \in DOMAIN levels |-> IF i = 1 THEN levels[i] ELSE <<Separator>> \o levels[i]]

LEMMA PieceFacts ==
    ASSUME NEW E, E \subseteq Byte, Separator \in E, NEW levels \in Seq(Seq(E))
    PROVE  /\ Pieces(levels) \in Seq(Seq(E)) /\ Len(Pieces(levels)) = Len(levels)
           /\ Len(levels) \in Nat
           /\ \A i \in 1..Len(levels) :
                 Pieces(levels)[i] = IF i = 1 THEN levels[i] ELSE <<Separator>> \o levels[i]
<1>1. DOMAIN levels = 1..Len(levels) /\ Len(levels) \in Nat
      /\ \A i \in 1..Len(levels) : levels[i] \in Seq(E)
  OBVIOUS
<1>2. \A u \in Seq(E) : <<Separator>> \o u \in Seq(E) OBVIOUS
<1>3. Pieces(levels) \in [1..Len(levels) -> Seq(E)] BY <1>1, <1>2 DEF Pieces
<1>4. Pieces(levels) \in Seq(Seq(E)) /\ Len(Pieces(levels)) = Len(levels)
  <2>1. PICK m \in Nat : m = Len(levels) BY <1>1
  <2>2. PICK f \in [1..m -> Seq(E)] : f = Pieces(levels) BY <1>3, <2>1
  <2>3. f \in Seq(Seq(E)) /\ Len(f) = m OBVIOUS
  <2> QED BY <2>1, <2>2, <2>3
<1> QED BY <1>1, <1>4 DEF Pieces

LEMMA TopicBytes ==
    ASSUME NEW E, E \subseteq Byte, Separator \in E, NEW levels \in Seq(Seq(E)), levels # <<>>
    PROVE  Topic(levels) \in Seq(E)
<1>1. /\ Pieces(levels) \in Seq(Seq(E)) /\ Len(Pieces(levels)) = Len(levels)
      /\ Len(levels) \in Nat
  BY PieceFacts
<1>2. Len(levels) # 0 OBVIOUS
<1>3. Topic(levels) = FlattenSeq(Pieces(levels)) BY DEF Topic, Pieces
<1>4. PICK f : Joins(f, Pieces(levels)) /\ FlattenSeq(Pieces(levels)) = f[Len(Pieces(levels))]
  BY <1>1, <1>2, FlattenJoins
<1>5. f[Len(levels)] \in Seq(E)
  <2>1. Len(levels) \in 1..Len(Pieces(levels)) BY <1>1, <1>2
  <2>2. Len(Pieces(levels)) <= Len(Pieces(levels)) BY <1>1
  <2> QED BY <1>1, <1>4, <2>1, <2>2, JoinedPrefix
<1> QED BY <1>1, <1>3, <1>4, <1>5

LEMMA SeparatorPiece ==
    ASSUME NEW u \in Seq(Byte)
    PROVE  /\ <<Separator>> \o u \in Seq(Byte) /\ Len(<<Separator>> \o u) = 1 + Len(u)
           /\ (<<Separator>> \o u)[1] = Separator
           /\ \A j \in 1..Len(u) : (<<Separator>> \o u)[1 + j] = u[j]
<1>1. Separator \in Byte BY SMT DEF Separator, Byte
<1>2. <<Separator>> \in Seq(Byte) /\ Len(<<Separator>>) = 1 /\ <<Separator>>[1] = Separator
  BY <1>1
<1> HIDE DEF Separator
<1>3. PICK t \in Seq(Byte) : t = <<Separator>> BY <1>2
<1>4. Len(t) = 1 /\ t[1] = Separator /\ 1 \in 1..Len(t) BY <1>2, <1>3
<1>5. /\ t \o u \in Seq(Byte) /\ Len(t \o u) = Len(t) + Len(u)
      /\ \A i \in 1..Len(t) : (t \o u)[i] = t[i]
      /\ \A i \in 1..Len(u) : (t \o u)[Len(t) + i] = u[i]
  BY Joined
<1> QED BY <1>3, <1>4, <1>5

LEMMA TopicPlaced ==
    ASSUME NEW levels \in Seq(Seq(Byte) \ {<<>>}), levels # <<>>
    PROVE  \E b : Placed(Topic(levels), levels, b)
<1> DEFINE T == Topic(levels)
           s == Pieces(levels)
           n == Len(levels)
<1>0. Separator \in Byte BY SMT DEF Separator, Byte
<1>1. levels \in Seq(Seq(Byte)) /\ n \in Nat \ {0}
      /\ \A i \in 1..n : levels[i] \in Seq(Byte) /\ levels[i] # <<>>
  OBVIOUS
<1>2. /\ s \in Seq(Seq(Byte)) /\ Len(s) = n
      /\ \A i \in 1..n : s[i] = IF i = 1 THEN levels[i] ELSE <<Separator>> \o levels[i]
  BY <1>0, <1>1, PieceFacts
<1>3. T \in Seq(Byte) BY <1>0, <1>1, TopicBytes
<1>4. T = FlattenSeq(s) BY DEF Topic, Pieces
<1> HIDE DEF T, s
<1>5. \A i \in 1..n : /\ Len(levels[i]) \in Nat \ {0}
                      /\ Len(s[i]) = (IF i = 1 THEN 0 ELSE 1) + Len(levels[i])
  <2> TAKE i \in 1..n
  <2>1. levels[i] \in Seq(Byte) /\ levels[i] # <<>> BY <1>1
  <2>2. PICK u \in Seq(Byte) : u = levels[i] BY <2>1
  <2>3. Len(u) \in Nat \ {0} BY <2>1, <2>2
  <2>4. Len(<<Separator>> \o u) = 1 + Len(u) BY SeparatorPiece
  <2>5. CASE i = 1
    <3>1. s[i] = u BY <1>2, <2>2, <2>5
    <3> QED BY <2>2, <2>3, <2>5, <3>1
  <2>6. CASE i # 1
    <3>1. s[i] = <<Separator>> \o u BY <1>2, <2>2, <2>6
    <3> QED BY <2>2, <2>3, <2>4, <2>6, <3>1
  <2> QED BY <2>5, <2>6
<1>6. PICK b \in [0..n -> Nat] : b[0] = 0 /\ \A k \in 1..n : b[k] = b[k - 1] + Len(s[k])
  <2> DEFINE t == [k \in 1..n |-> Len(s[k])]
  <2>1. t \in [1..n -> Nat] BY <1>5
  <2> HIDE DEF t
  <2>2. \E f \in [0..n -> Nat] : f[0] = 0 /\ \A k \in 1..n : f[k] = f[k - 1] + t[k]
    <3> HIDE DEF n
    <3>1. n \in Nat /\ 0 \in Nat BY <1>1
    <3> QED BY <2>1, <3>1, SumExists
  <2> QED BY <2>2 DEF t
<1>7. Counts(b, s) BY <1>2, <1>6 DEF Counts
<1>8. b[n] = Len(T)
  <2>1. UpTo(s, n) = T BY <1>2, <1>4, UpToAll
  <2>2. n \in 0..n /\ 0 \in 0..n BY <1>1
  <2>3. Len(UpTo(s, n)) = b[n] - b[0] BY <1>2, <1>7, <2>2, PiecesLength
  <2>4. b[n] \in Nat BY <1>6, <2>2
  <2> QED BY <1>6, <2>1, <2>3, <2>4
<1>9. \A k \in 0..n : b[k] <= Len(T)
  <2>1. \A k \in 1..Len(s) : Len(s[k]) \in Nat BY <1>2, <1>5
  <2>2. Len(s) \in Nat BY <1>1, <1>2
  <2>3. \A k \in 0..Len(s) : b[k] <= b[Len(s)] BY <1>7, <2>1, <2>2, CountsBelow
  <2> QED BY <1>2, <1>8, <2>3
<1>10. \A k \in 1..n : At(T, 1 + b[k - 1], s[k])
  <2>1. At(T, 1, T)
    <3>1. 1 + Len(T) - 1 = Len(T) /\ \A j \in 1..Len(T) : 1 + j - 1 = j BY <1>3, LenProperties
    <3>2. 1 \in Nat \ {0} /\ Len(T) <= Len(T) BY <1>3, LenProperties
    <3> QED BY <1>3, <3>1, <3>2 DEF At
  <2>2. \A k \in 1..Len(s) : At(T, 1 + (b[k - 1] - b[0]), s[k])
    BY <1>2, <1>4, <1>7, <2>1, PiecesAt
  <2> TAKE k \in 1..n
  <2>3. k - 1 \in 0..n BY <1>1
  <2>4. b[k - 1] \in Nat BY <1>6, <2>3
  <2>5. b[k - 1] - b[0] = b[k - 1] BY <1>6, <2>4
  <2> QED BY <1>2, <2>2, <2>5
<1>11. ASSUME NEW i \in 1..n
       PROVE  /\ b[i] = LevelStart(b, i) + Len(levels[i]) - 1
              /\ \A j \in 1..Len(levels[i]) : T[LevelStart(b, i) + j - 1] = levels[i][j]
              /\ i > 1 => T[b[i - 1] + 1] = Separator
  <2>1. PICK u \in Seq(Byte) : u = levels[i] BY <1>1
  <2>2. PICK c \in Nat, m \in Nat : c = b[i - 1] /\ m = Len(u)
    <3>1. i - 1 \in 0..n BY <1>1
    <3> QED BY <1>5, <1>6, <2>1, <3>1
  <2>3. At(T, 1 + c, s[i]) BY <1>10, <2>2
  <2>4. b[i] = c + Len(s[i]) BY <1>6, <2>2
  <2>5. CASE i = 1
    <3>1. s[i] = u BY <1>2, <2>1, <2>5
    <3>2. LevelStart(b, i) = c + 1 BY <2>2, <2>5 DEF LevelStart
    <3>3. b[i] = (c + 1) + m - 1
      <4>1. Len(s[i]) = m BY <2>2, <3>1
      <4>2. b[i] = c + m BY <2>4, <4>1
      <4>3. c + m = (c + 1) + m - 1 OBVIOUS
      <4> QED BY <4>2, <4>3
    <3>4. \A j \in 1..m : T[(1 + c) + j - 1] = u[j] BY <2>2, <2>3, <3>1 DEF At
    <3>5. 1 + c = c + 1 BY <2>2
    <3>6. \A j \in 1..m : T[(c + 1) + j - 1] = u[j] BY <3>4, <3>5
    <3> QED BY <2>1, <2>2, <2>5, <3>2, <3>3, <3>6
  <2>6. CASE i # 1
    <3>1. s[i] = <<Separator>> \o u BY <1>2, <2>1, <2>6
    <3>2. LevelStart(b, i) = c + 2 BY <2>2, <2>6 DEF LevelStart
    <3>3. /\ Len(<<Separator>> \o u) = 1 + m /\ (<<Separator>> \o u)[1] = Separator
          /\ \A j \in 1..m : (<<Separator>> \o u)[1 + j] = u[j]
      BY <2>2, SeparatorPiece
    <3>4. PICK v : v = s[i] OBVIOUS
    <3>5. Len(v) = 1 + m /\ v[1] = Separator /\ \A j \in 1..m : v[1 + j] = u[j]
      BY <3>1, <3>3, <3>4
    <3>6. \A j \in 1..(1 + m) : T[(1 + c) + j - 1] = v[j] BY <2>3, <3>4, <3>5 DEF At
    <3>7. b[i] = (c + 2) + m - 1 BY <2>2, <2>4, <3>4, <3>5
    <3>8. T[c + 1] = Separator
      <4>1. 1 \in 1..(1 + m) /\ (1 + c) + 1 - 1 = c + 1 BY <2>2
      <4> QED BY <3>5, <3>6, <4>1
    <3>9. \A j \in 1..m : T[(c + 2) + j - 1] = u[j]
      <4> TAKE j \in 1..m
      <4>1. 1 + j \in 1..(1 + m) /\ (1 + c) + (1 + j) - 1 = (c + 2) + j - 1 BY <2>2
      <4> QED BY <3>5, <3>6, <4>1
    <3> QED BY <2>1, <2>2, <3>2, <3>7, <3>8, <3>9
  <2> QED BY <2>5, <2>6
<1>12. \A i \in 1..n : b[i] <= Len(T)
  <2> TAKE i \in 1..n
  <2>1. i \in 0..n OBVIOUS
  <2> QED BY <1>9, <2>1
<1>13. Placed(T, levels, b) BY <1>1, <1>3, <1>5, <1>6, <1>8, <1>11, <1>12 DEF Placed
<1> QED BY <1>13 DEF T

-----------------------------------------------------------------------------
(* The walk, level by level *)

LEMMA PlacedLevel ==
    ASSUME NEW T, NEW levels, NEW b, Placed(T, levels, b), NEW i \in 1..Len(levels)
    PROVE  /\ b[i] \in Nat /\ b[i] <= Len(T) /\ Len(T) \in Nat /\ Len(levels[i]) \in Nat \ {0}
           /\ LevelStart(b, i) \in Nat \ {0}
           /\ b[i] = LevelStart(b, i) + Len(levels[i]) - 1
           /\ i = Len(levels) => b[i] = Len(T)
           /\ i # Len(levels) =>
                /\ b[i] + 1 <= Len(T) /\ T[b[i] + 1] = Separator
                /\ LevelStart(b, i + 1) = b[i] + 2
<1> DEFINE n == Len(levels)
<1>1. /\ T \in Seq(Byte) /\ n \in Nat \ {0} /\ b \in [0..n -> Nat] /\ b[n] = Len(T)
      /\ Len(T) \in Nat
      /\ \A k \in 1..n : /\ Len(levels[k]) \in Nat \ {0} /\ b[k] <= Len(T)
                         /\ b[k] = LevelStart(b, k) + Len(levels[k]) - 1
                         /\ k > 1 => T[b[k - 1] + 1] = Separator
  BY LenProperties DEF Placed
<1> HIDE DEF n
<1>2. i \in 1..n BY DEF n
<1>3. i \in 0..n /\ i - 1 \in 0..n BY <1>1, <1>2
<1>4. b[i] \in Nat /\ b[i - 1] \in Nat BY <1>1, <1>3
<1>5. LevelStart(b, i) \in Nat \ {0} BY <1>4 DEF LevelStart
<1>6. ASSUME i # n
      PROVE  /\ b[i] + 1 <= Len(T) /\ T[b[i] + 1] = Separator
             /\ LevelStart(b, i + 1) = b[i] + 2
  <2>1. PICK k \in 1..n : k = i + 1
    <3>1. i + 1 \in 1..n BY <1>1, <1>2, <1>6
    <3> QED BY <3>1
  <2>2. k - 1 = i /\ k > 1 /\ k # 1 BY <1>2, <2>1
  <2>3. LevelStart(b, k) = b[i] + 2 BY <2>2 DEF LevelStart
  <2>4. T[b[i] + 1] = Separator BY <1>1, <2>2
  <2>5. PICK m \in Nat \ {0} : m = Len(levels[k]) BY <1>1
  <2>6. b[k] = (b[i] + 2) + m - 1 /\ b[k] <= Len(T) BY <1>1, <2>3, <2>5
  <2>7. b[i] + 1 <= Len(T) BY <1>1, <1>4, <2>6
  <2> QED BY <2>1, <2>3, <2>4, <2>7
<1> QED BY <1>1, <1>2, <1>4, <1>5, <1>6 DEF n

\* The walk R goes through the topic N of t along the filter F of g.
Walking(R, F, N, g, t, p, q) ==
    /\ Walk(R, F, N) /\ Placed(F, g, p) /\ Placed(N, t, q)
    /\ \A i \in 1..Len(t) : t[i] \in Level
    /\ \A i \in 1..Len(g) : g[i] \in Level \/ g[i] = <<AnyLevel>> \/ g[i] = <<AnyLevels>>
    /\ \A i \in 1..Len(g) : i # Len(g) => g[i] # <<AnyLevels>>

LEMMA WalkStep ==
    ASSUME NEW R, NEW F, NEW N, Walk(R, F, N), Len(F) \in Nat, Len(N) \in Nat,
           NEW f \in 1..Len(F), NEW n \in 1..Len(N)
    PROVE  R[f][n] <=> ~Stops(F, N, f, n) /\ R[f + 1][LastAt(F, N, f, n) + 1]
<1>1. f \in 1..(Len(F) + 1) /\ n \in 1..(Len(N) + 1) /\ ~(f > Len(F)) /\ ~(n > Len(N)) OBVIOUS
<1>2. R[f][n] = (~Stops(F, N, f, n) /\ R[f + 1][LastAt(F, N, f, n) + 1])
  BY <1>1, Zenon DEF Walk
<1> QED BY <1>2, Zenon

LEMMA WalkEnd ==
    ASSUME NEW R, NEW F, NEW N, Walk(R, F, N), Len(F) \in Nat, Len(N) \in Nat,
           NEW f \in 1..(Len(F) + 1), NEW n \in 1..(Len(N) + 1), f > Len(F) \/ n > Len(N)
    PROVE  R[f][n] <=> f > Len(F) /\ n > Len(N)
<1>1. R[f][n] = (f > Len(F) /\ n > Len(N)) BY Zenon DEF Walk
<1> QED BY <1>1, Zenon

LEMMA PlainBytes ==
    ASSUME NEW u \in Level
    PROVE  \A j \in 1..Len(u) : u[j] # Separator /\ u[j] # AnyLevel /\ u[j] # AnyLevels
<1>1. u \in Seq(Byte \ {Separator, AnyLevel, AnyLevels}) BY DEF Level
<1>2. \A j \in 1..Len(u) : u[j] \in Byte \ {Separator, AnyLevel, AnyLevels} BY <1>1
<1> QED BY <1>2

LEMMA Signs == Separator # AnyLevel /\ Separator # AnyLevels /\ AnyLevel # AnyLevels
BY SMT DEF Separator, AnyLevel, AnyLevels

\* The walk goes through a level without + or # only if it is the topic's.
LEMMA PlainLevel ==
    ASSUME NEW R, NEW F, NEW N, NEW g, NEW t, NEW p, NEW q, Walking(R, F, N, g, t, p, q),
           NEW i \in 1..Len(g), i \in 1..Len(t), g[i] \in Level
    PROVE  R[LevelStart(p, i)][LevelStart(q, i)]
             <=> g[i] = t[i] /\ R[p[i] + 1][q[i] + 1]
<1>1. /\ Walk(R, F, N) /\ Placed(F, g, p) /\ Placed(N, t, q) /\ t[i] \in Level
  BY DEF Walking
<1>2. PICK a \in Nat \ {0}, c \in Nat \ {0}, L \in Nat \ {0}, M \in Nat \ {0} :
         /\ a = LevelStart(p, i) /\ c = LevelStart(q, i)
         /\ L = Len(g[i]) /\ M = Len(t[i])
  BY <1>1, PlacedLevel
<1>3. PICK lf \in Nat, ln \in Nat : lf = Len(F) /\ ln = Len(N) BY <1>1, PlacedLevel
<1>4. PICK x \in Nat, y \in Nat : x = p[i] /\ y = q[i] BY <1>1, PlacedLevel
<1>5. x = a + L - 1 /\ x <= lf /\ y = c + M - 1 /\ y <= ln
  BY <1>1, <1>2, <1>3, <1>4, PlacedLevel
<1>6. PICK u, v : u = g[i] /\ v = t[i] OBVIOUS
<1>7. /\ \A j \in 1..L : F[a + j - 1] = u[j]
      /\ \A j \in 1..M : N[c + j - 1] = v[j]
  BY <1>1, <1>2, <1>6 DEF Placed
<1>8. u \in Seq(Byte) /\ v \in Seq(Byte) /\ Len(u) = L /\ Len(v) = M BY <1>1, <1>2, <1>6 DEF Placed
<1>9. /\ \A j \in 1..L : u[j] # Separator /\ u[j] # AnyLevel /\ u[j] # AnyLevels
      /\ \A j \in 1..M : v[j] # Separator /\ v[j] # AnyLevel /\ v[j] # AnyLevels
  BY <1>1, <1>6, <1>8, PlainBytes
<1> DEFINE S == {j \in Nat : j <= L /\ j <= M =>
                   (R[a][c] <=> (\A k \in 1..j : u[k] = v[k]) /\ R[a + j][c + j])}
<1>10. 0 \in S
  <2>1. a + 0 = a /\ c + 0 = c /\ \A k \in 1..0 : u[k] = v[k] OBVIOUS
  <2> QED BY <2>1
<1>11. ASSUME NEW j \in Nat, j \in S PROVE j + 1 \in S
  <2> SUFFICES ASSUME j + 1 <= L, j + 1 <= M
               PROVE  R[a][c] <=> (\A k \in 1..(j + 1) : u[k] = v[k]) /\ R[a + (j + 1)][c + (j + 1)]
    OBVIOUS
  <2>1. R[a][c] <=> (\A k \in 1..j : u[k] = v[k]) /\ R[a + j][c + j]
    <3>1. j <= L /\ j <= M OBVIOUS
    <3> QED BY <1>11, <3>1
  <2>2. PICK f \in 1..lf, n \in 1..ln : f = a + j /\ n = c + j
    <3>1. a + j \in 1..lf /\ c + j \in 1..ln BY <1>5
    <3> QED BY <3>1
  <2>3. F[f] = u[j + 1] /\ N[n] = v[j + 1] /\ j + 1 \in 1..L /\ j + 1 \in 1..M
    <3>1. j + 1 \in 1..L /\ j + 1 \in 1..M OBVIOUS
    <3>2. a + (j + 1) - 1 = f /\ c + (j + 1) - 1 = n BY <2>2
    <3> QED BY <1>7, <3>1, <3>2
  <2>4. LastAt(F, N, f, n) = n BY <1>9, <2>3 DEF LastAt
  <2>5. Stops(F, N, f, n) <=> u[j + 1] # v[j + 1] BY <1>9, <2>3 DEF Stops
  <2>6. R[f][n] <=> u[j + 1] = v[j + 1] /\ R[f + 1][n + 1]
    BY <1>1, <1>3, <2>4, <2>5, WalkStep
  <2>7. f + 1 = a + (j + 1) /\ n + 1 = c + (j + 1) BY <2>2
  <2>8. (\A k \in 1..(j + 1) : u[k] = v[k]) <=> (\A k \in 1..j : u[k] = v[k]) /\ u[j + 1] = v[j + 1]
    <3>1. 1..(j + 1) = 1..j \cup {j + 1} OBVIOUS
    <3> QED BY <3>1
  <2> QED BY <2>1, <2>2, <2>6, <2>7, <2>8, Zenon
<1> HIDE DEF S
<1>12. Nat \subseteq S BY <1>10, <1>11, SetInduction
<1>13. ASSUME NEW j \in Nat, j <= L, j <= M
       PROVE  R[a][c] <=> (\A k \in 1..j : u[k] = v[k]) /\ R[a + j][c + j]
  <2>1. j \in S BY <1>12
  <2> QED BY <1>13, <2>1 DEF S
<1>14. CASE L = M
  <2>1. R[a][c] <=> (\A k \in 1..L : u[k] = v[k]) /\ R[a + L][c + L] BY <1>13, <1>14
  <2>2. a + L = x + 1 /\ c + L = y + 1 BY <1>5, <1>14
  <2>3. u = v <=> \A k \in 1..L : u[k] = v[k]
    <3>1. ASSUME \A k \in 1..L : u[k] = v[k] PROVE u = v BY <1>8, <1>14, <3>1
    <3> QED BY <3>1
  <2> QED BY <1>2, <1>4, <1>6, <2>1, <2>2, <2>3, Zenon
<1>15. CASE L < M
  <2>1. R[a][c] => R[a + L][c + L] BY <1>13, <1>15
  <2>2. u # v BY <1>8, <1>15
  <2>3. PICK n \in 1..ln : n = c + L
    <3>1. c + L \in 1..ln BY <1>5, <1>15
    <3> QED BY <3>1
  <2>4. N[n] = v[L + 1] /\ L + 1 \in 1..M
    <3>1. L + 1 \in 1..M /\ c + (L + 1) - 1 = n BY <1>15, <2>3
    <3> QED BY <1>7, <3>1
  <2>5. a + L = x + 1 BY <1>5
  <2>6. ~R[x + 1][n]
    <3>1. CASE i = Len(g)
      <4>1. x = lf BY <1>1, <1>3, <1>4, <3>1, PlacedLevel
      <4>2. PICK f : f = x + 1 OBVIOUS
      <4>3. f \in 1..(lf + 1) /\ f > lf /\ n \in 1..(ln + 1) /\ ~(n > ln) BY <4>1, <4>2
      <4>4. R[f][n] <=> f > lf /\ n > ln BY <1>1, <1>3, <4>3, WalkEnd
      <4> QED BY <4>2, <4>3, <4>4
    <3>2. CASE i # Len(g)
      <4>0. p[i] + 1 <= Len(F) /\ F[p[i] + 1] = Separator BY <1>1, <3>2, PlacedLevel
      <4>1. x + 1 <= lf /\ F[x + 1] = Separator BY <1>3, <1>4, <4>0
      <4>2. PICK f : f = x + 1 OBVIOUS
      <4>3. f \in 1..lf BY <4>1, <4>2
      <4>4. Stops(F, N, f, n) BY <1>9, <2>4, <4>1, <4>2, Signs DEF Stops
      <4>5. ~R[f][n] BY <1>1, <1>3, <4>3, <4>4, WalkStep
      <4> QED BY <4>2, <4>5
    <3> QED BY <3>1, <3>2
  <2> QED BY <1>2, <1>6, <2>1, <2>2, <2>3, <2>5, <2>6
<1>16. CASE L > M
  <2>1. R[a][c] => R[a + M][c + M] BY <1>13, <1>16
  <2>2. u # v BY <1>8, <1>16
  <2>3. PICK f \in 1..lf : f = a + M
    <3>1. a + M \in 1..lf BY <1>5, <1>16
    <3> QED BY <3>1
  <2>4. F[f] = u[M + 1] /\ M + 1 \in 1..L
    <3>1. M + 1 \in 1..L /\ a + (M + 1) - 1 = f BY <1>16, <2>3
    <3> QED BY <1>7, <3>1
  <2>5. c + M = y + 1 BY <1>5
  <2>6. ~R[f][y + 1]
    <3>1. CASE i = Len(t)
      <4>1. y = ln BY <1>1, <1>3, <1>4, <3>1, PlacedLevel
      <4>2. PICK n : n = y + 1 OBVIOUS
      <4>3. n \in 1..(ln + 1) /\ n > ln /\ f \in 1..(lf + 1) /\ ~(f > lf) BY <4>1, <4>2
      <4>4. R[f][n] <=> f > lf /\ n > ln BY <1>1, <1>3, <4>3, WalkEnd
      <4> QED BY <4>2, <4>3, <4>4
    <3>2. CASE i # Len(t)
      <4>0. q[i] + 1 <= Len(N) /\ N[q[i] + 1] = Separator BY <1>1, <3>2, PlacedLevel
      <4>1. y + 1 <= ln /\ N[y + 1] = Separator BY <1>3, <1>4, <4>0
      <4>2. PICK n : n = y + 1 OBVIOUS
      <4>3. n \in 1..ln BY <4>1, <4>2
      <4>4. Stops(F, N, f, n) BY <1>9, <2>4, <4>1, <4>2 DEF Stops
      <4>5. ~R[f][n] BY <1>1, <1>3, <4>3, <4>4, WalkStep
      <4> QED BY <4>2, <4>5
    <3> QED BY <3>1, <3>2
  <2> QED BY <1>2, <1>6, <2>1, <2>2, <2>3, <2>5, <2>6
<1>17. L = M \/ L < M \/ L > M OBVIOUS
<1> QED BY <1>14, <1>15, <1>16, <1>17

\* a level of one character, which is c
Only(u, c) == Len(u) = 1 /\ u[1] = c

\* A + goes over the whole level.
LEMMA AnyLevelSkipped ==
    ASSUME NEW R, NEW F, NEW N, NEW g, NEW t, NEW p, NEW q, Walking(R, F, N, g, t, p, q),
           NEW i \in 1..Len(g), i \in 1..Len(t), Only(g[i], AnyLevel)
    PROVE  R[LevelStart(p, i)][LevelStart(q, i)] <=> R[p[i] + 1][q[i] + 1]
<1>1. /\ Walk(R, F, N) /\ Placed(F, g, p) /\ Placed(N, t, q) /\ t[i] \in Level
  BY DEF Walking
<1>2. PICK a \in Nat \ {0}, c \in Nat \ {0}, M \in Nat \ {0} :
         a = LevelStart(p, i) /\ c = LevelStart(q, i) /\ M = Len(t[i])
  BY <1>1, PlacedLevel
<1>3. PICK lf \in Nat, ln \in Nat : lf = Len(F) /\ ln = Len(N) BY <1>1, PlacedLevel
<1>4. PICK x \in Nat, y \in Nat : x = p[i] /\ y = q[i] BY <1>1, PlacedLevel
<1>6. x = a /\ x <= lf /\ y = c + M - 1 /\ y <= ln
  <2>1. PICK L \in Nat : L = Len(g[i]) OBVIOUS
  <2>3. L = 1 BY <2>1 DEF Only
  <2>5. x <= lf BY <1>1, <1>3, <1>4, PlacedLevel
  <2>2. x = a + L - 1 BY <1>1, <1>2, <1>4, <2>1, PlacedLevel
  <2>4. y = c + M - 1 /\ y <= ln BY <1>1, <1>2, <1>3, <1>4, PlacedLevel
  <2> QED BY <2>2, <2>3, <2>4, <2>5
<1>7. F[a] = AnyLevel
  <2>1. 1 \in 1..Len(g[i]) /\ g[i][1] = AnyLevel BY DEF Only
  <2>2. F[LevelStart(p, i) + 1 - 1] = g[i][1] BY <1>1, <2>1 DEF Placed
  <2>3. LevelStart(p, i) + 1 - 1 = a BY <1>2
  <2> QED BY <2>1, <2>2, <2>3
<1>8. PICK v \in Seq(Byte) : v = t[i] BY <1>1 DEF Placed
<1>9. /\ \A j \in 1..M : N[c + j - 1] = v[j]
      /\ \A j \in 1..M : v[j] # Separator
  BY <1>1, <1>2, <1>8, PlainBytes DEF Placed
<1>10. a \in 1..lf /\ c \in 1..ln BY <1>6
<1>11. N[c] # Separator
  <2>1. 1 \in 1..M /\ c + 1 - 1 = c OBVIOUS
  <2> QED BY <1>9, <2>1
<1>12. ~Stops(F, N, a, c) BY <1>7, <1>11 DEF Stops
<1>13. LevelEnd(N, c) = y
  <2>1. N \in Seq(Byte) BY <1>1 DEF Placed
  <2>2. PICK e : e = LevelEnd(N, c) OBVIOUS
  <2>3. /\ e \in c..ln
        /\ e = ln \/ N[e + 1] = Separator
        /\ \A k \in c..ln : k = ln \/ N[k + 1] = Separator => e <= k
    BY <1>3, <1>10, <2>1, <2>2, LevelEnds
  <2>4. y \in c..ln /\ e \in Nat BY <1>6, <2>3
  <2>5. y = ln \/ N[y + 1] = Separator
    <3>1. CASE i = Len(t) BY <1>1, <1>3, <1>4, <3>1, PlacedLevel
    <3>2. CASE i # Len(t)
      <4>1. N[q[i] + 1] = Separator BY <1>1, <3>2, PlacedLevel
      <4> QED BY <1>4, <4>1
    <3> QED BY <3>1, <3>2
  <2>6. e <= y BY <2>3, <2>4, <2>5
  <2>7. ~(e < y)
    <3> SUFFICES ASSUME e < y PROVE FALSE OBVIOUS
    <3>1. PICK j \in 1..M : j = e - c + 2
      <4>1. e - c + 2 \in 1..M BY <1>6, <2>3, <2>4
      <4> QED BY <4>1
    <3>2. c + j - 1 = e + 1 BY <2>4, <3>1
    <3>3. N[e + 1] # Separator BY <1>9, <3>1, <3>2
    <3>4. e # ln BY <1>6, <2>4
    <3> QED BY <2>3, <3>3, <3>4
  <2> QED BY <2>2, <2>4, <2>6, <2>7
<1>14. LastAt(F, N, a, c) = y BY <1>7, <1>13, Signs DEF LastAt
<1>15. R[a][c] <=> R[a + 1][y + 1] BY <1>1, <1>3, <1>10, <1>12, <1>14, WalkStep
<1> QED BY <1>2, <1>4, <1>6, <1>15

\* A # goes over the rest of the topic.
LEMMA AnyLevelsSkipped ==
    ASSUME NEW R, NEW F, NEW N, NEW g, NEW t, NEW p, NEW q, Walking(R, F, N, g, t, p, q),
           NEW i \in 1..Len(g), i \in 1..Len(t), Only(g[i], AnyLevels), i = Len(g)
    PROVE  R[LevelStart(p, i)][LevelStart(q, i)]
<1>1. /\ Walk(R, F, N) /\ Placed(F, g, p) /\ Placed(N, t, q) /\ t[i] \in Level
  BY DEF Walking
<1>2. PICK a \in Nat \ {0}, c \in Nat \ {0}, M \in Nat \ {0} :
         a = LevelStart(p, i) /\ c = LevelStart(q, i) /\ M = Len(t[i])
  BY <1>1, PlacedLevel
<1>3. PICK lf \in Nat, ln \in Nat : lf = Len(F) /\ ln = Len(N) BY <1>1, PlacedLevel
<1>6. a = lf /\ c <= ln
  <2>1. PICK L \in Nat, x \in Nat, y \in Nat : L = Len(g[i]) /\ x = p[i] /\ y = q[i]
    BY <1>1, PlacedLevel
  <2>3. L = 1 BY <2>1 DEF Only
  <2>2. x = a + L - 1 /\ x = lf BY <1>1, <1>2, <1>3, <2>1, PlacedLevel
  <2>4. y = c + M - 1 /\ y <= ln BY <1>1, <1>2, <1>3, <2>1, PlacedLevel
  <2> QED BY <2>2, <2>3, <2>4
<1>7. F[a] = AnyLevels
  <2>1. 1 \in 1..Len(g[i]) /\ g[i][1] = AnyLevels BY DEF Only
  <2>2. F[LevelStart(p, i) + 1 - 1] = g[i][1] BY <1>1, <2>1 DEF Placed
  <2>3. LevelStart(p, i) + 1 - 1 = a BY <1>2
  <2> QED BY <2>1, <2>2, <2>3
<1>8. PICK v \in Seq(Byte) : v = t[i] BY <1>1 DEF Placed
<1>9. /\ \A j \in 1..M : N[c + j - 1] = v[j]
      /\ \A j \in 1..M : v[j] # Separator
  BY <1>1, <1>2, <1>8, PlainBytes DEF Placed
<1>10. a \in 1..lf /\ c \in 1..ln BY <1>6
<1>11. N[c] # Separator
  <2>1. 1 \in 1..M /\ c + 1 - 1 = c OBVIOUS
  <2> QED BY <1>9, <2>1
<1>12. ~Stops(F, N, a, c) BY <1>7, <1>11 DEF Stops
<1>13. LastAt(F, N, a, c) = ln BY <1>3, <1>7, Signs DEF LastAt
<1>14. R[a][c] <=> R[lf + 1][ln + 1]
  <2>1. R[a][c] <=> ~Stops(F, N, a, c) /\ R[a + 1][LastAt(F, N, a, c) + 1]
    BY <1>1, <1>3, <1>10, WalkStep
  <2> QED BY <1>6, <1>12, <1>13, <2>1
<1>15. R[lf + 1][ln + 1]
  <2>1. PICK f, n : f = lf + 1 /\ n = ln + 1 OBVIOUS
  <2>2. f \in 1..(lf + 1) /\ n \in 1..(ln + 1) /\ f > lf /\ n > ln BY <2>1
  <2>3. R[f][n] <=> f > lf /\ n > ln BY <1>1, <1>3, <2>2, WalkEnd
  <2> QED BY <2>1, <2>2, <2>3
<1> QED BY <1>2, <1>14, <1>15

\* Between two levels both have a separator, or both end.
LEMMA NextLevel ==
    ASSUME NEW R, NEW F, NEW N, NEW g, NEW t, NEW p, NEW q, Walking(R, F, N, g, t, p, q),
           NEW i \in 1..Len(g), i \in 1..Len(t)
    PROVE  /\ i = Len(g) => (R[p[i] + 1][q[i] + 1] <=> i = Len(t))
           /\ i # Len(g) /\ i = Len(t) => ~R[p[i] + 1][q[i] + 1]
           /\ i # Len(g) /\ i # Len(t) =>
                (R[p[i] + 1][q[i] + 1] <=> R[LevelStart(p, i + 1)][LevelStart(q, i + 1)])
<1>1. Walk(R, F, N) /\ Placed(F, g, p) /\ Placed(N, t, q) BY DEF Walking
<1>3. PICK lf \in Nat, ln \in Nat : lf = Len(F) /\ ln = Len(N) BY <1>1, PlacedLevel
<1>4. PICK x \in Nat, y \in Nat : x = p[i] /\ y = q[i] BY <1>1, PlacedLevel
<1>5. x <= lf /\ y <= ln BY <1>1, <1>3, <1>4, PlacedLevel
<1>6. PICK f \in 1..(lf + 1), n \in 1..(ln + 1) : f = x + 1 /\ n = y + 1
  <2>1. x + 1 \in 1..(lf + 1) /\ y + 1 \in 1..(ln + 1) BY <1>5
  <2> QED BY <2>1
<1>7. i = Len(g) => f > lf
  <2>1. i = Len(g) => x = lf BY <1>1, <1>3, <1>4, PlacedLevel
  <2> QED BY <1>6, <2>1
<1>8. i = Len(t) => n > ln
  <2>1. i = Len(t) => y = ln BY <1>1, <1>3, <1>4, PlacedLevel
  <2> QED BY <1>6, <2>1
<1>9. i # Len(g) => f <= lf /\ F[f] = Separator /\ LevelStart(p, i + 1) = f + 1
  <2> SUFFICES ASSUME i # Len(g) PROVE f <= lf /\ F[f] = Separator /\ LevelStart(p, i + 1) = f + 1
    OBVIOUS
  <2>1. /\ p[i] + 1 <= Len(F) /\ F[p[i] + 1] = Separator /\ LevelStart(p, i + 1) = p[i] + 2
    BY <1>1, PlacedLevel
  <2>2. x + 2 = f + 1 BY <1>6
  <2> QED BY <1>3, <1>4, <1>6, <2>1, <2>2
<1>10. i # Len(t) => n <= ln /\ N[n] = Separator /\ LevelStart(q, i + 1) = n + 1
  <2> SUFFICES ASSUME i # Len(t) PROVE n <= ln /\ N[n] = Separator /\ LevelStart(q, i + 1) = n + 1
    OBVIOUS
  <2>1. /\ q[i] + 1 <= Len(N) /\ N[q[i] + 1] = Separator /\ LevelStart(q, i + 1) = q[i] + 2
    BY <1>1, PlacedLevel
  <2>2. y + 2 = n + 1 BY <1>6
  <2> QED BY <1>3, <1>4, <1>6, <2>1, <2>2
<1>11. ASSUME i = Len(g) PROVE R[f][n] <=> i = Len(t)
  <2>1. R[f][n] <=> f > lf /\ n > ln BY <1>1, <1>3, <1>7, <1>11, WalkEnd
  <2>2. i # Len(t) => ~(n > ln) BY <1>10
  <2> QED BY <1>7, <1>8, <1>11, <2>1, <2>2
<1>12. ASSUME i # Len(g), i = Len(t) PROVE ~R[f][n]
  <2>1. R[f][n] <=> f > lf /\ n > ln BY <1>1, <1>3, <1>8, <1>12, WalkEnd
  <2>2. ~(f > lf) BY <1>9, <1>12
  <2> QED BY <2>1, <2>2
<1>13. ASSUME i # Len(g), i # Len(t)
       PROVE  R[f][n] <=> R[LevelStart(p, i + 1)][LevelStart(q, i + 1)]
  <2>1. f \in 1..lf /\ n \in 1..ln BY <1>9, <1>10, <1>13
  <2>2. F[f] = Separator /\ N[n] = Separator BY <1>9, <1>10, <1>13
  <2>3. ~Stops(F, N, f, n) BY <2>2 DEF Stops
  <2>4. LastAt(F, N, f, n) = n BY <2>2, Signs DEF LastAt
  <2>5. R[f][n] <=> R[f + 1][n + 1] BY <1>1, <1>3, <2>1, <2>3, <2>4, WalkStep
  <2> QED BY <1>9, <1>10, <1>13, <2>5
<1> QED BY <1>4, <1>6, <1>11, <1>12, <1>13

\* level i of the filter stands for level i of the topic
Agrees(g, t, i) == g[i] \in {<<AnyLevel>>, t[i]}

LEMMA OneLevel ==
    ASSUME NEW R, NEW F, NEW N, NEW g, NEW t, NEW p, NEW q, Walking(R, F, N, g, t, p, q),
           NEW i \in 1..Len(g), i \in 1..Len(t), g[i] # <<AnyLevels>>
    PROVE  R[LevelStart(p, i)][LevelStart(q, i)] <=> Agrees(g, t, i) /\ R[p[i] + 1][q[i] + 1]
<1>1. g[i] = <<AnyLevel>> => Only(g[i], AnyLevel) /\ Agrees(g, t, i) BY DEF Only, Agrees
<1>2. g[i] # <<AnyLevel>> => g[i] \in Level /\ (Agrees(g, t, i) <=> g[i] = t[i])
  BY DEF Walking, Agrees
<1>3. Only(g[i], AnyLevel) =>
        (R[LevelStart(p, i)][LevelStart(q, i)] <=> R[p[i] + 1][q[i] + 1])
  BY AnyLevelSkipped, Zenon
<1>4. g[i] \in Level =>
        (R[LevelStart(p, i)][LevelStart(q, i)] <=> g[i] = t[i] /\ R[p[i] + 1][q[i] + 1])
  BY PlainLevel, Zenon
<1> QED BY <1>1, <1>2, <1>3, <1>4, Zenon

LEMMA LevelsBefore ==
    ASSUME NEW R, NEW F, NEW N, NEW g, NEW t, NEW p, NEW q, Walking(R, F, N, g, t, p, q),
           NEW i \in 1..Len(g), i \in 1..Len(t)
    PROVE  R[1][1] <=> (\A k \in 1..(i - 1) : Agrees(g, t, k))
                         /\ R[LevelStart(p, i)][LevelStart(q, i)]
<1>1. /\ Placed(F, g, p) /\ Placed(N, t, q) /\ Len(g) \in Nat /\ Len(t) \in Nat
      /\ p[0] = 0 /\ q[0] = 0
      /\ \A k \in 1..Len(g) : k # Len(g) => g[k] # <<AnyLevels>>
  BY DEF Walking, Placed
<1> DEFINE S == {d \in Nat : d + 1 \in 1..Len(g) /\ d + 1 \in 1..Len(t) =>
                   (R[1][1] <=> (\A k \in 1..d : Agrees(g, t, k))
                                  /\ R[LevelStart(p, d + 1)][LevelStart(q, d + 1)])}
<1>2. 0 \in S
  <2>1. 0 + 1 = 1 /\ 1 - 1 = 0 OBVIOUS
  <2>2. LevelStart(p, 1) = 1 /\ LevelStart(q, 1) = 1 BY <1>1 DEF LevelStart
  <2>3. \A k \in 1..0 : Agrees(g, t, k) OBVIOUS
  <2> QED BY <2>1, <2>2, <2>3
<1>3. ASSUME NEW d \in Nat, d \in S PROVE d + 1 \in S
  <2> SUFFICES ASSUME (d + 1) + 1 \in 1..Len(g), (d + 1) + 1 \in 1..Len(t)
               PROVE  R[1][1] <=> (\A k \in 1..(d + 1) : Agrees(g, t, k))
                                    /\ R[LevelStart(p, (d + 1) + 1)][LevelStart(q, (d + 1) + 1)]
    OBVIOUS
  <2>1. PICK j \in 1..Len(g) : j = d + 1 BY <1>1
  <2>2. j \in 1..Len(t) /\ j # Len(g) /\ j # Len(t) BY <1>1, <2>1
  <2>3. R[1][1] <=> (\A k \in 1..d : Agrees(g, t, k)) /\ R[LevelStart(p, j)][LevelStart(q, j)]
    BY <1>3, <2>1, <2>2
  <2>4. R[LevelStart(p, j)][LevelStart(q, j)] <=> Agrees(g, t, j) /\ R[p[j] + 1][q[j] + 1]
    BY <1>1, <2>2, OneLevel
  <2>5. R[p[j] + 1][q[j] + 1] <=> R[LevelStart(p, j + 1)][LevelStart(q, j + 1)]
    BY <2>2, NextLevel
  <2>6. (\A k \in 1..(d + 1) : Agrees(g, t, k))
          <=> (\A k \in 1..d : Agrees(g, t, k)) /\ Agrees(g, t, j)
    <3>1. 1..(d + 1) = 1..d \cup {d + 1} OBVIOUS
    <3> QED BY <2>1, <3>1
  <2> QED BY <2>1, <2>3, <2>4, <2>5, <2>6, Zenon
<1> HIDE DEF S
<1>4. Nat \subseteq S BY <1>2, <1>3, SetInduction
<1>5. PICK d \in Nat : d = i - 1 OBVIOUS
<1>6. d \in S /\ d + 1 = i BY <1>4, <1>5
<1> QED BY <1>5, <1>6 DEF S

LEMMA WalkMatches ==
    ASSUME NEW R, NEW F, NEW N, NEW g, NEW t, NEW p, NEW q, Walking(R, F, N, g, t, p, q)
    PROVE  R[1][1] <=> Matches(g, t)
<1>1. /\ Placed(F, g, p) /\ Placed(N, t, q)
      /\ \A k \in 1..Len(g) : k # Len(g) => g[k] # <<AnyLevels>>
  BY DEF Walking
<1>2. PICK L \in Nat \ {0}, M \in Nat \ {0} : L = Len(g) /\ M = Len(t) BY <1>1 DEF Placed
<1>3. CASE g[L] # <<AnyLevels>>
  <2>1. Matches(g, t) <=> M = L /\ \A k \in 1..L : Agrees(g, t, k)
    <3>1. Last(g) = g[L] BY <1>2 DEF Last
    <3> QED BY <1>2, <1>3, <3>1 DEF Matches, Agrees
  <2>2. CASE L <= M
    <3>1. L \in 1..Len(g) /\ L \in 1..Len(t) BY <1>2, <2>2
    <3>2. R[1][1] <=> (\A k \in 1..(L - 1) : Agrees(g, t, k))
                        /\ R[LevelStart(p, L)][LevelStart(q, L)]
      BY <3>1, LevelsBefore
    <3>3. R[LevelStart(p, L)][LevelStart(q, L)] <=> Agrees(g, t, L) /\ R[p[L] + 1][q[L] + 1]
      BY <1>3, <3>1, OneLevel
    <3>4. R[p[L] + 1][q[L] + 1] <=> L = M BY <1>2, <3>1, NextLevel
    <3>5. (\A k \in 1..L : Agrees(g, t, k))
            <=> (\A k \in 1..(L - 1) : Agrees(g, t, k)) /\ Agrees(g, t, L)
      <4>1. 1..L = 1..(L - 1) \cup {L} OBVIOUS
      <4> QED BY <4>1
    <3> QED BY <2>1, <3>2, <3>3, <3>4, <3>5, Zenon
  <2>3. CASE ~(L <= M)
    <3>1. M \in 1..Len(g) /\ M \in 1..Len(t) /\ M # L BY <1>2, <2>3
    <3>2. R[1][1] => R[LevelStart(p, M)][LevelStart(q, M)] BY <3>1, LevelsBefore
    <3>3. R[LevelStart(p, M)][LevelStart(q, M)] => R[p[M] + 1][q[M] + 1]
      BY <1>1, <1>2, <3>1, OneLevel
    <3>4. ~R[p[M] + 1][q[M] + 1] BY <1>2, <3>1, NextLevel
    <3> QED BY <2>1, <3>1, <3>2, <3>3, <3>4
  <2> QED BY <2>2, <2>3
<1>4. CASE g[L] = <<AnyLevels>>
  <2>1. Matches(g, t) <=> M > L - 1 /\ \A k \in 1..(L - 1) : Agrees(g, t, k)
    <3>1. Last(g) = g[L] BY <1>2 DEF Last
    <3> QED BY <1>2, <1>4, <3>1 DEF Matches, Agrees
  <2>2. CASE L <= M
    <3>1. L \in 1..Len(g) /\ L \in 1..Len(t) /\ M > L - 1 BY <1>2, <2>2
    <3>2. R[1][1] <=> (\A k \in 1..(L - 1) : Agrees(g, t, k))
                        /\ R[LevelStart(p, L)][LevelStart(q, L)]
      BY <3>1, LevelsBefore
    <3>3. Only(g[L], AnyLevels) BY <1>4 DEF Only
    <3>4. R[LevelStart(p, L)][LevelStart(q, L)] BY <1>2, <3>1, <3>3, AnyLevelsSkipped
    <3> QED BY <2>1, <3>1, <3>2, <3>4, Zenon
  <2>3. CASE ~(L <= M)
    <3>1. M \in 1..Len(g) /\ M \in 1..Len(t) /\ M # L /\ ~(M > L - 1) BY <1>2, <2>3
    <3>2. R[1][1] => R[LevelStart(p, M)][LevelStart(q, M)] BY <3>1, LevelsBefore
    <3>3. R[LevelStart(p, M)][LevelStart(q, M)] => R[p[M] + 1][q[M] + 1]
      BY <1>1, <1>2, <3>1, OneLevel
    <3>4. ~R[p[M] + 1][q[M] + 1] BY <1>2, <3>1, NextLevel
    <3> QED BY <2>1, <3>1, <3>2, <3>3, <3>4
  <2> QED BY <2>2, <2>3
<1> QED BY <1>3, <1>4

\* A topic name is matched by itself.
LEMMA WalkOfItself ==
    ASSUME NEW R, NEW N, Walk(R, N, N), N \in Seq(Byte \ {AnyLevel, AnyLevels})
    PROVE  R[1][1]
<1>1. PICK L \in Nat : L = Len(N) BY LenProperties
<1>2. \A i \in 1..L : N[i] # AnyLevel /\ N[i] # AnyLevels
  <2>1. \A i \in 1..L : N[i] \in Byte \ {AnyLevel, AnyLevels} BY <1>1
  <2> QED BY <2>1
<1> DEFINE S == {d \in Nat : d <= L => R[(L - d) + 1][(L - d) + 1]}
<1>3. 0 \in S
  <2>1. PICK f \in 1..(L + 1) : f = (L - 0) + 1 /\ f > L OBVIOUS
  <2>2. R[f][f] <=> f > L /\ f > L BY <1>1, <2>1, WalkEnd
  <2> QED BY <2>1, <2>2
<1>4. ASSUME NEW d \in Nat, d \in S PROVE d + 1 \in S
  <2> SUFFICES ASSUME d + 1 <= L PROVE R[(L - (d + 1)) + 1][(L - (d + 1)) + 1] OBVIOUS
  <2>1. PICK f \in 1..L : f = (L - (d + 1)) + 1
    <3>1. (L - (d + 1)) + 1 \in 1..L OBVIOUS
    <3> QED BY <3>1
  <2>2. f + 1 = (L - d) + 1 /\ d <= L BY <2>1
  <2>3. R[f + 1][f + 1]
    <3>1. R[(L - d) + 1][(L - d) + 1] BY <1>4, <2>2
    <3> QED BY <2>2, <3>1
  <2>4. ~Stops(N, N, f, f) BY DEF Stops
  <2>5. LastAt(N, N, f, f) = f BY <1>2 DEF LastAt
  <2>6. R[f][f] <=> ~Stops(N, N, f, f) /\ R[f + 1][LastAt(N, N, f, f) + 1] BY <1>1, WalkStep
  <2> QED BY <2>1, <2>3, <2>4, <2>5, <2>6
<1> HIDE DEF S
<1>5. Nat \subseteq S BY <1>3, <1>4, SetInduction
<1>6. L \in S /\ (L - L) + 1 = 1 BY <1>5
<1> QED BY <1>6 DEF S

\* isTopicMatched is the matching level by level, and comparing the strings adds nothing.
LEMMA MatchedAsMeant ==
    ASSUME NEW g \in TopicFilters, NEW t \in Topics
    PROVE  Topic(t) = Topic(g) \/ isTopicMatched(Topic(g), Topic(t)) <=> Matches(g, t)
<1>1. /\ t \in Seq(Level) /\ t # <<>>
      /\ g \in Seq(Level \cup {<<AnyLevel>>, <<AnyLevels>>}) /\ g # <<>>
      /\ \A i \in 1..(Len(g) - 1) : g[i] # <<AnyLevels>>
  BY TopicAssumption
<1>2. AnyLevel \in Byte /\ AnyLevels \in Byte /\ Separator \in Byte
  BY SMT DEF AnyLevel, AnyLevels, Separator, Byte
<1>3. Level \subseteq Seq(Byte) \ {<<>>}
  <2>1. Byte \ {Separator, AnyLevel, AnyLevels} \subseteq Byte OBVIOUS
  <2>2. Seq(Byte \ {Separator, AnyLevel, AnyLevels}) \subseteq Seq(Byte) BY <2>1
  <2> QED BY <2>2 DEF Level
<1>4. /\ t \in Seq(Seq(Byte) \ {<<>>}) /\ \A i \in 1..Len(t) : t[i] \in Level
  <2>1. Seq(Level) \subseteq Seq(Seq(Byte) \ {<<>>}) BY <1>3
  <2> QED BY <1>1, <2>1
<1>5. /\ g \in Seq(Seq(Byte) \ {<<>>})
      /\ \A i \in 1..Len(g) : g[i] \in Level \/ g[i] = <<AnyLevel>> \/ g[i] = <<AnyLevels>>
  <2>1. <<AnyLevel>> \in Seq(Byte) \ {<<>>} /\ <<AnyLevels>> \in Seq(Byte) \ {<<>>} BY <1>2
  <2>2. Level \cup {<<AnyLevel>>, <<AnyLevels>>} \subseteq Seq(Byte) \ {<<>>} BY <1>3, <2>1
  <2>3. g \in Seq(Seq(Byte) \ {<<>>})
    <3>1. Seq(Level \cup {<<AnyLevel>>, <<AnyLevels>>}) \subseteq Seq(Seq(Byte) \ {<<>>})
      BY <2>2
    <3> QED BY <1>1, <3>1
  <2>4. \A i \in 1..Len(g) : g[i] \in Level \cup {<<AnyLevel>>, <<AnyLevels>>} BY <1>1
  <2> QED BY <2>3, <2>4
<1>6. PICK p : Placed(Topic(g), g, p) BY <1>1, <1>5, TopicPlaced
<1>7. PICK q : Placed(Topic(t), t, q) BY <1>1, <1>4, TopicPlaced
<1>8. Topic(g) \in Seq(Byte) /\ Topic(t) \in Seq(Byte) BY <1>6, <1>7 DEF Placed
<1>9. PICK R : Walk(R, Topic(g), Topic(t)) /\ isTopicMatched(Topic(g), Topic(t)) = R[1][1]
  BY <1>8, Walked
<1>10. \A i \in 1..Len(g) : i # Len(g) => g[i] # <<AnyLevels>>
  <2>1. Len(g) \in Nat BY <1>6 DEF Placed
  <2>2. \A i \in 1..Len(g) : i # Len(g) => i \in 1..(Len(g) - 1) BY <2>1
  <2> QED BY <1>1, <2>2
<1>11. Walking(R, Topic(g), Topic(t), g, t, p, q)
  BY <1>4, <1>5, <1>6, <1>7, <1>9, <1>10 DEF Walking
<1>12. isTopicMatched(Topic(g), Topic(t)) <=> Matches(g, t) BY <1>9, <1>11, WalkMatches
<1>13. ASSUME Topic(t) = Topic(g) PROVE isTopicMatched(Topic(g), Topic(t))
  <2> DEFINE E == Byte \ {AnyLevel, AnyLevels}
  <2>1. E \subseteq Byte /\ Separator \in E BY <1>2, Signs
  <2>2. t \in Seq(Seq(E))
    <3>1. Byte \ {Separator, AnyLevel, AnyLevels} \subseteq E OBVIOUS
    <3> HIDE DEF E
    <3>2. Seq(Byte \ {Separator, AnyLevel, AnyLevels}) \subseteq Seq(E) BY <3>1
    <3>3. Level \subseteq Seq(E) BY <3>2 DEF Level
    <3>4. Seq(Level) \subseteq Seq(Seq(E)) BY <3>3
    <3> QED BY <1>1, <3>4
  <2> HIDE DEF E
  <2>3. Topic(t) \in Seq(E) BY <1>1, <2>1, <2>2, TopicBytes
  <2>4. Topic(t) \in Seq(Byte \ {AnyLevel, AnyLevels}) BY <2>3 DEF E
  <2>5. Walk(R, Topic(t), Topic(t)) BY <1>9, <1>13
  <2>6. R[1][1] BY <2>4, <2>5, WalkOfItself
  <2> QED BY <1>9, <2>6
<1> QED BY <1>12, <1>13, Zenon

(***************************************************************************)
(* deliverMessage calls the handlers whose filters match the topic of a    *)
(* PUBLISH level by level, and no others.                                  *)
(***************************************************************************)
THEOREM MessagesGoWhereSubscribed == Spec => []HandlersAsSubscribed
<1>1. ASSUME PathInv, DoneInv PROVE HandlersAsSubscribed
  <2> SUFFICES ASSUME step = "handled", packet # NULL, packet.type = "PUBLISH",
                      NEW topic \in Topics, Arrived(packet.topicName).data = Topic(topic)
               PROVE  called = {Topic(f) : f \in {g \in TopicFilters : Matches(g, topic)}}
    BY DEF HandlersAsSubscribed
  <2>1. called = HandlersCalled(messageHandlers, Arrived(packet.topicName))
    BY <1>1, Zenon DEF DoneInv, Delivered
  <2>2. Arrived(packet.topicName).cstring = NULL BY DEF Arrived
  <2>3. called = {f \in messageHandlers : Topic(topic) = f \/ isTopicMatched(f, Topic(topic))}
    BY <2>1, <2>2 DEF HandlersCalled, MQTTPacket_equals
  <2>4. \A g \in TopicFilters : Topic(topic) = Topic(g) \/ isTopicMatched(Topic(g), Topic(topic))
                                  <=> Matches(g, topic)
    BY MatchedAsMeant
  <2>5. messageHandlers = {Topic(g) : g \in TopicFilters} BY DEF messageHandlers
  <2> QED BY <2>3, <2>4, <2>5
<1> QED BY <1>1, PathInvariant, DoneInvariant, PTL

=============================================================================
