------------------------- MODULE PacketReadNBProofs -------------------------
(***************************************************************************)
(* The reader returns the packets of every stream whole, in order, and     *)
(* complains only when it must, for every base, buffer and set of streams. *)
(***************************************************************************)
EXTENDS PacketReadNB, TLAPS

offset == Start(stream, count + 1)
current == stream.packets[count + 1]
Weight(n) == CASE n = 0 -> 1
               [] n = 1 -> Base
               [] n = 2 -> Base * Base
               [] n = 3 -> Base * Base * Base
               [] OTHER -> LengthLimit

\* What the reader knows in the middle of the length, and in the middle of the body.
InLength ==
    state = 1 =>
        /\ pos = offset + 1 + len
        /\ len <= MAX_NO_OF_REMAINING_LENGTH_BYTES
        /\ multiplier = Weight(len)
        /\ rem_len = Decoded(stream.bytes, offset + 1, len)
        /\ buf[0] = stream.bytes[offset + 1]
        /\ \A j \in 1..len : more(stream.bytes[offset + 1 + j])

InBody ==
    state = 2 =>
        /\ count < Len(stream.packets)
        /\ rem_len \in 1..current.body
        /\ pos + rem_len = EndOf(current)
        /\ Fits(current.body)
        /\ len + rem_len = 1 + Size(current.body) + current.body
        /\ buf[0] = stream.bytes[offset + 1]
        /\ \A i \in 1..Size(current.body) : buf[i] = encode(current.body, i - 1)
        /\ \A i \in 1..(current.body - rem_len) :
             buf[Size(current.body) + i] = stream.bytes[offset + 1 + current.nl + i]

Stopped == result = "error" => ~calling /\ state = 0

ReaderInv == TypeOK /\ InFrame /\ InLength /\ InBody /\ OnlyRealErrors /\ Stopped

-----------------------------------------------------------------------------
(* Arithmetic *)

\* One more digit: a number below w and a digit before it stay below w * Base.
LEMMA OneMoreDigit ==
    ASSUME NEW w \in Nat \ {0}, NEW x \in 0..(w - 1), NEW c \in Byte
    PROVE  /\ digit(c) \in 0..(Base - 1)
           /\ x + digit(c) * w \in 0..(w * Base - 1)
           /\ w * Base \in Nat \ {0}
<1> DEFINE d == digit(c)
<1>1. Base \in Nat /\ Base > 1 /\ c \in Nat BY ReaderAssumption DEF Byte
<1>2. d \in Nat /\ d <= Base - 1 BY <1>1 DEF digit
<1> HIDE DEF d
<1>3. PICK e \in Nat : Base = d + 1 + e
  <2>1. Base - 1 - d \in Nat /\ Base = d + 1 + (Base - 1 - d) BY <1>1, <1>2
  <2> QED BY <2>1
<1>4. w * Base = w * d + w + w * e BY <1>1, <1>2, <1>3
<1>5. w * d \in Nat /\ w * e \in Nat /\ d * w = w * d BY <1>2, <1>3
<1>6. x + d * w < w * Base BY <1>4, <1>5
<1> QED BY <1>1, <1>2, <1>4, <1>5, <1>6 DEF d

LEMMA WeightNat ==
    ASSUME NEW n \in 0..3
    PROVE  Weight(n) \in Nat \ {0} /\ Weight(n + 1) = Weight(n) * Base
<1>1. Base \in Nat \ {0} BY ReaderAssumption
<1>2. Base * Base \in Nat \ {0} BY <1>1
<1>3. (Base * Base) * Base \in Nat \ {0} BY <1>1, <1>2
<1>4. CASE n = 0 BY <1>1, <1>4 DEF Weight
<1>5. CASE n = 1 BY <1>1, <1>5 DEF Weight
<1>6. CASE n = 2 BY <1>2, <1>6 DEF Weight
<1>7. CASE n = 3 BY <1>3, <1>7 DEF Weight, LengthLimit
<1> QED BY <1>4, <1>5, <1>6, <1>7

LEMMA WeightBound ==
    ASSUME NEW n \in 0..4
    PROVE  Weight(n) \in 1..LengthLimit /\ LengthLimit \in Nat \ {0}
<1>1. Weight(4) = LengthLimit BY DEF Weight
<1>2. ASSUME NEW k \in 0..3
      PROVE  Weight(k) \in Nat \ {0} /\ Weight(k + 1) \in Nat \ {0} /\ Weight(k) <= Weight(k + 1)
  <2>1. Weight(k) \in Nat \ {0} /\ Weight(k + 1) = Weight(k) * Base BY WeightNat
  <2>2. 0 \in Byte /\ digit(0) = 0 BY ReaderAssumption DEF Byte, digit
  <2>3. (Weight(k) - 1) + digit(0) * Weight(k) \in 0..(Weight(k) * Base - 1)
        /\ Weight(k) * Base \in Nat \ {0}
    BY <2>1, <2>2, OneMoreDigit
  <2> QED BY <2>1, <2>2, <2>3
<1>3. 0 + 1 = 1 /\ 1 + 1 = 2 /\ 2 + 1 = 3 /\ 3 + 1 = 4 OBVIOUS
<1>4. /\ Weight(0) <= Weight(1) /\ Weight(1) <= Weight(2)
      /\ Weight(2) <= Weight(3) /\ Weight(3) <= Weight(4)
      /\ Weight(0) \in Nat \ {0} /\ Weight(1) \in Nat \ {0} /\ Weight(2) \in Nat \ {0}
      /\ Weight(3) \in Nat \ {0} /\ Weight(4) \in Nat \ {0}
  BY <1>2, <1>3
<1>5. n \in {0, 1, 2, 3, 4} OBVIOUS
<1> QED BY <1>1, <1>4, <1>5

\* The length read so far, and one more byte of it.
LEMMA DecodedNext ==
    ASSUME NEW b, NEW o \in Nat, NEW n \in 0..3,
           \A j \in 1..(n + 1) : b[o + j] \in Byte
    PROVE  /\ Decoded(b, o, n) \in 0..(Weight(n) - 1)
           /\ Decoded(b, o, n + 1) = Decoded(b, o, n) + digit(b[o + n + 1]) * Weight(n)
           /\ Decoded(b, o, n + 1) \in 0..(Weight(n + 1) - 1)
<1> DEFINE d(j) == digit(b[o + j])
<1>1. \A j \in 1..(n + 1) : d(j) \in 0..(Base - 1)
  BY OneMoreDigit
<1>2. Decoded(b, o, 0) = 0 /\ Weight(0) = 1 BY DEF Decoded, Weight
<1>3. ASSUME NEW k \in 0..n
      PROVE  Decoded(b, o, k + 1) = Decoded(b, o, k) + d(k + 1) * Weight(k)
  <2>1. d(k + 1) \in Nat BY <1>1, ReaderAssumption
  <2>2. CASE k = 0 BY <2>1, <2>2 DEF Decoded, Weight
  <2>3. CASE k = 1 BY <2>3 DEF Decoded, Weight
  <2>4. CASE k = 2 BY <2>4 DEF Decoded, Weight
  <2>5. CASE k = 3 BY <2>5 DEF Decoded, Weight
  <2> QED BY <2>2, <2>3, <2>4, <2>5
<1>4. ASSUME NEW k \in 0..n, Decoded(b, o, k) \in 0..(Weight(k) - 1)
      PROVE  Decoded(b, o, k + 1) \in 0..(Weight(k + 1) - 1)
  <2>1. Weight(k) \in Nat \ {0} /\ Weight(k + 1) = Weight(k) * Base BY WeightNat
  <2>2. b[o + (k + 1)] \in Byte OBVIOUS
  <2>3. Decoded(b, o, k) + d(k + 1) * Weight(k) \in 0..(Weight(k) * Base - 1)
    BY <1>4, <2>1, <2>2, OneMoreDigit
  <2> QED BY <1>3, <2>1, <2>3
<1> DEFINE InRange(k) == Decoded(b, o, k) \in 0..(Weight(k) - 1)
<1>5. InRange(0) BY <1>2
<1>6. \A k \in 0..n : InRange(k) => InRange(k + 1) BY <1>4
<1>7. InRange(n) /\ InRange(n + 1)
  <2> HIDE DEF InRange
  <2>1. InRange(1)
    <3>1. 0 \in 0..n /\ 0 + 1 = 1 OBVIOUS
    <3> QED BY <1>5, <1>6, <3>1
  <2>2. n > 0 => InRange(2)
    <3>1. n > 0 => 1 \in 0..n /\ 1 + 1 = 2 OBVIOUS
    <3> QED BY <1>6, <2>1, <3>1
  <2>3. n > 1 => InRange(3)
    <3>1. n > 1 => 2 \in 0..n /\ 2 + 1 = 3 OBVIOUS
    <3> QED BY <1>6, <2>2, <3>1
  <2>4. n \in {0, 1, 2, 3} OBVIOUS
  <2>5. InRange(n) BY <1>5, <2>1, <2>2, <2>3, <2>4
  <2> QED BY <1>6, <2>5
<1> QED BY <1>3, <1>7

LEMMA EncodeType ==
    ASSUME NEW n \in Nat, NEW i \in Nat
    PROVE  encode(n, i) \in Byte /\ Size(n) \in 1..4
<1>1. Base \in Nat \ {0} /\ Base * Base \in Nat \ {0} /\ Base * Base * Base \in Nat \ {0}
  BY ReaderAssumption
<1>2. Shifted(n, i) \in Nat BY <1>1 DEF Shifted
<1>3. Shifted(n, i) % Base \in 0..(Base - 1) BY <1>1, <1>2
<1> QED BY <1>1, <1>3 DEF encode, Size, Byte

-----------------------------------------------------------------------------
(* Streams *)

LEMMA StreamFacts ==
    ASSUME TypeOK
    PROVE  /\ \A i \in 1..Len(stream.bytes) : stream.bytes[i] \in Byte
           /\ Len(stream.bytes) \in Nat /\ Len(stream.packets) \in Nat
           /\ offset \in Nat
           /\ count < Len(stream.packets) =>
                /\ current \in PacketAt
                /\ current.at = offset
                /\ EndOf(current) <= Len(stream.bytes)
                /\ \A j \in 1..current.nl : more(stream.bytes[offset + 1 + j]) <=> j < current.nl
                /\ current.body = Decoded(stream.bytes, offset + 1, current.nl)
                /\ Start(stream, count + 2) = EndOf(current)
           /\ count = Len(stream.packets) =>
                \A j \in 1..4 : offset + 1 + j <= Len(stream.bytes)
                                  => more(stream.bytes[offset + 1 + j])
<1>1. IsStream(stream) BY ReaderAssumption DEF TypeOK
<1>2. stream.bytes \in Seq(Byte) /\ stream.packets \in Seq(PacketAt) BY <1>1 DEF IsStream
<1>3. count \in 0..Len(stream.packets) BY DEF TypeOK
<1>4. offset \in Nat
  <2>1. CASE count = 0 BY <2>1 DEF offset, Start
  <2>2. CASE count # 0
    <3>1. stream.packets[count] \in PacketAt BY <1>2, <1>3, <2>2
    <3> QED BY <1>3, <2>2, <3>1 DEF offset, Start, EndOf, PacketAt
  <2> QED BY <2>1, <2>2
<1>5. ASSUME count < Len(stream.packets)
      PROVE  /\ current \in PacketAt
             /\ current.at = offset
             /\ EndOf(current) <= Len(stream.bytes)
             /\ \A j \in 1..current.nl : more(stream.bytes[offset + 1 + j]) <=> j < current.nl
             /\ current.body = Decoded(stream.bytes, offset + 1, current.nl)
             /\ Start(stream, count + 2) = EndOf(current)
  <2>1. count + 1 \in 1..Len(stream.packets) BY <1>2, <1>3, <1>5
  <2>2. /\ current.at = offset
        /\ EndOf(current) <= Len(stream.bytes)
        /\ \A j \in 1..current.nl : more(stream.bytes[current.at + 1 + j]) <=> j < current.nl
        /\ current.body = Decoded(stream.bytes, current.at + 1, current.nl)
    BY <1>1, <2>1 DEF IsStream, current, offset
  <2>3. current \in PacketAt BY <1>2, <2>1 DEF current
  <2>4. Start(stream, count + 2) = EndOf(current) BY <1>3 DEF Start, current
  <2> QED BY <2>2, <2>3, <2>4
<1>6. ASSUME count = Len(stream.packets)
      PROVE  \A j \in 1..4 : offset + 1 + j <= Len(stream.bytes)
                               => more(stream.bytes[offset + 1 + j])
  BY <1>1, <1>6 DEF IsStream, offset, MAX_NO_OF_REMAINING_LENGTH_BYTES
<1> QED BY <1>2, <1>4, <1>5, <1>6
-----------------------------------------------------------------------------
(* The steps *)

LEMMA InitReader == Init => ReaderInv
<1> SUFFICES ASSUME Init PROVE ReaderInv OBVIOUS
<1>1. IsStream(stream) BY ReaderAssumption DEF Init
<1>2. Len(stream.packets) \in Nat /\ Len(stream.bytes) \in Nat BY <1>1 DEF IsStream
<1>3. LengthLimit \in Nat \ {0}
  <2>1. 0 \in 0..4 OBVIOUS
  <2> QED BY <2>1, WeightBound
<1>4. 0 \in Byte BY ReaderAssumption DEF Byte
<1>5. BufLen \in Nat /\ MaxConnections \in Nat BY ReaderAssumption
<1>6. TypeOK
  <2>1. calling \in BOOLEAN /\ readFailed \in BOOLEAN BY Zenon DEF Init
  <2>2. buf \in Buffer BY <1>4, <1>5 DEF Init, Buffer
  <2> QED BY <1>2, <1>3, <1>5, <2>1, <2>2 DEF Init, TypeOK
<1>7. InFrame BY DEF Init, InFrame, Start
<1> QED BY <1>6, <1>7 DEF Init, ReaderInv, InLength, InBody, OnlyRealErrors, Stopped

\* A step that keeps the stream, the place in it and the buffer.
LEMMA SamePlace ==
    ASSUME ReaderInv, UNCHANGED <<stream, pos, buf, count>>
    PROVE  /\ offset' = offset /\ current' = current
           /\ UNCHANGED <<state, len, rem_len, multiplier>> => InLength' /\ InBody'
BY DEF ReaderInv, offset, current, InLength, InBody

LEMMA CallKeeps ==
    ASSUME ReaderInv, Call
    PROVE  ReaderInv'
<1>1. UNCHANGED <<state, len, rem_len, multiplier>>
  <2>1. CASE state = 1 /\ len = 0
    <3>1. multiplier = 1 /\ rem_len = 0
      BY <2>1 DEF ReaderInv, InLength, Weight, Decoded
    <3> QED BY <2>1, <3>1 DEF Call
  <2>2. CASE ~(state = 1 /\ len = 0) BY <2>2 DEF Call, transport
  <2> QED BY <2>1, <2>2
<1>2. TypeOK' BY <1>1 DEF ReaderInv, TypeOK, Call
<1>3. InLength' /\ InBody' BY <1>1, SamePlace DEF Call
<1> QED BY <1>1, <1>2, <1>3 DEF ReaderInv, Call, InFrame, OnlyRealErrors, Stopped

LEMMA NothingYetKeeps ==
    ASSUME ReaderInv, NothingYet
    PROVE  ReaderInv'
<1>1. TypeOK' BY DEF ReaderInv, TypeOK, NothingYet, Again
<1>2. InLength' /\ InBody' BY SamePlace DEF NothingYet, Again
<1>3. result # "error" BY DEF ReaderInv, Stopped, NothingYet, Reads
<1> QED BY <1>1, <1>2, <1>3 DEF ReaderInv, NothingYet, Again, InFrame, OnlyRealErrors, Stopped

LEMMA GetFailsKeeps ==
    ASSUME ReaderInv, GetFails
    PROVE  ReaderInv'
<1>1. TypeOK'
  <2>1. calling' \in BOOLEAN /\ readFailed' \in BOOLEAN BY Zenon DEF GetFails, Fail
  <2> QED BY <2>1 DEF ReaderInv, TypeOK, GetFails, Fail
<1> QED BY <1>1 DEF ReaderInv, GetFails, Fail, InFrame, InLength, InBody, OnlyRealErrors, Stopped

LEMMA ReconnectKeeps ==
    ASSUME ReaderInv, Reconnect
    PROVE  ReaderInv'
<1>1. IsStream(stream') BY ReaderAssumption DEF Reconnect
<1>2. Len(stream'.packets) \in Nat /\ Len(stream'.bytes) \in Nat BY <1>1 DEF IsStream
<1>3. connections' \in 0..MaxConnections
  BY ReaderAssumption DEF ReaderInv, TypeOK, Reconnect
<1>4. TypeOK'
  <2>1. readFailed' \in BOOLEAN BY Zenon DEF Reconnect
  <2> QED BY <1>2, <1>3, <2>1 DEF ReaderInv, TypeOK, Reconnect, transport
<1>5. state' = 0 BY DEF ReaderInv, Stopped, Reconnect, transport
<1> QED BY <1>4, <1>5 DEF ReaderInv, Reconnect, InFrame, Start, InLength, InBody, OnlyRealErrors,
                          Stopped

LEMMA ReadHeaderKeeps ==
    ASSUME ReaderInv, ReadHeader
    PROVE  ReaderInv'
<1>1. stream.bytes[pos + 1] \in Byte /\ Len(stream.bytes) \in Nat /\ pos \in Nat
  BY StreamFacts DEF ReaderInv, TypeOK, ReadHeader
<1>2. buf' \in Buffer /\ buf'[0] = stream.bytes[pos + 1]
  BY <1>1, ReaderAssumption DEF ReaderInv, TypeOK, Buffer, ReadHeader,
                                MAX_NO_OF_REMAINING_LENGTH_BYTES
<1>3. LengthLimit \in Nat \ {0}
  <2>1. 0 \in 0..4 OBVIOUS
  <2> QED BY <2>1, WeightBound
<1>4. TypeOK'
  BY <1>1, <1>2, <1>3, ReaderAssumption DEF ReaderInv, TypeOK, ReadHeader
<1>5. result # "error" /\ pos = offset
  BY DEF ReaderInv, Stopped, InFrame, ReadHeader, Reads, offset
<1>6. offset' = offset BY DEF ReadHeader, offset
<1>7. InLength'
  BY <1>1, <1>2, <1>5, <1>6
  DEF ReadHeader, InLength, Weight, Decoded, MAX_NO_OF_REMAINING_LENGTH_BYTES
<1> QED BY <1>4, <1>5, <1>7 DEF ReaderInv, ReadHeader, InFrame, InBody, OnlyRealErrors, Stopped

\* What a length byte makes of the length.
LEMMA LengthByte ==
    ASSUME ReaderInv, ReadLength
    PROVE  /\ state = 1 /\ len \in 0..3 /\ result # "error"
           /\ offset \in Nat /\ pos = offset + 1 + len /\ pos' = offset + 1 + (len + 1)
           /\ pos' \in 0..Len(stream.bytes)
           /\ rem_len' = Decoded(stream.bytes, offset + 1, len + 1)
           /\ rem_len' \in 0..(LengthLimit - 1)
           /\ multiplier' = Weight(len + 1) /\ multiplier' \in 1..LengthLimit
           /\ buf[0] = stream.bytes[offset + 1]
           /\ \A j \in 1..len : more(stream.bytes[offset + 1 + j])
<1>1. state = 1 /\ pos < Len(stream.bytes) /\ pos' = pos + 1 BY DEF ReadLength
<1>2. /\ pos = offset + 1 + len
      /\ multiplier = Weight(len)
      /\ rem_len = Decoded(stream.bytes, offset + 1, len)
      /\ buf[0] = stream.bytes[offset + 1]
      /\ \A j \in 1..len : more(stream.bytes[offset + 1 + j])
  BY <1>1 DEF ReaderInv, InLength
<1>3. len \in 0..3
  BY <1>1 DEF ReaderInv, TypeOK, ReadLength, Reads, MAX_NO_OF_REMAINING_LENGTH_BYTES
<1>4. offset \in Nat /\ Len(stream.bytes) \in Nat
      /\ \A i \in 1..Len(stream.bytes) : stream.bytes[i] \in Byte
  BY StreamFacts DEF ReaderInv
<1>5. result # "error" BY DEF ReaderInv, Stopped, ReadLength, Reads
<1>6. \A j \in 1..(len + 1) : stream.bytes[offset + 1 + j] \in Byte
  BY <1>1, <1>2, <1>3, <1>4
<1>7. /\ Decoded(stream.bytes, offset + 1, len + 1)
           = rem_len + digit(stream.bytes[offset + 1 + len + 1]) * multiplier
      /\ Decoded(stream.bytes, offset + 1, len + 1) \in 0..(Weight(len + 1) - 1)
  <2> DEFINE o == offset + 1
  <2>1. o \in Nat BY <1>4
  <2>2. \A j \in 1..(len + 1) : stream.bytes[o + j] \in Byte BY <1>6
  <2> HIDE DEF o
  <2>3. /\ Decoded(stream.bytes, o, len + 1)
             = Decoded(stream.bytes, o, len) + digit(stream.bytes[o + len + 1]) * Weight(len)
        /\ Decoded(stream.bytes, o, len + 1) \in 0..(Weight(len + 1) - 1)
    BY <1>3, <2>1, <2>2, DecodedNext
  <2> QED BY <1>2, <2>3 DEF o
<1>8. offset + 1 + len + 1 = pos + 1 BY <1>2, <1>3, <1>4
<1>9. rem_len' = Decoded(stream.bytes, offset + 1, len + 1) /\ multiplier' = Weight(len) * Base
  BY <1>2, <1>7, <1>8 DEF ReadLength
<1>10. Weight(len + 1) = Weight(len) * Base BY <1>3, WeightNat
<1>11. Weight(len + 1) \in 1..LengthLimit /\ LengthLimit \in Nat \ {0}
  <2>1. len + 1 \in 0..4 BY <1>3
  <2> QED BY <2>1, WeightBound
<1>12. rem_len' \in 0..(LengthLimit - 1) BY <1>7, <1>9, <1>11
<1> QED BY <1>1, <1>2, <1>3, <1>4, <1>5, <1>9, <1>10, <1>11, <1>12

\* The last length byte, by which the length of the current packet is known.
LEMMA LengthEnds ==
    ASSUME ReaderInv, ReadLength, ~more(stream.bytes[pos + 1])
    PROVE  /\ count < Len(stream.packets)
           /\ current \in PacketAt
           /\ current.nl = len + 1
           /\ rem_len' = current.body
           /\ pos' + current.body = EndOf(current)
           /\ Start(stream, count + 2) = EndOf(current)
           /\ Size(current.body) \in 1..4
           /\ len' = 1 + Size(current.body)
           /\ buf' \in Buffer
           /\ buf'[0] = stream.bytes[offset + 1]
           /\ \A i \in 1..Size(current.body) : buf'[i] = encode(current.body, i - 1)
<1>1. /\ len \in 0..3 /\ offset \in Nat /\ pos = offset + 1 + len
      /\ pos' = offset + 1 + (len + 1) /\ pos' \in 0..Len(stream.bytes)
      /\ rem_len' = Decoded(stream.bytes, offset + 1, len + 1)
      /\ buf[0] = stream.bytes[offset + 1]
      /\ \A j \in 1..len : more(stream.bytes[offset + 1 + j])
  BY LengthByte
<1>2. ~more(stream.bytes[offset + 1 + (len + 1)])
  <2>1. pos + 1 = offset + 1 + (len + 1) BY <1>1
  <2> QED BY <2>1
<1>3. count \in 0..Len(stream.packets) /\ Len(stream.bytes) \in Nat
      /\ Len(stream.packets) \in Nat
  BY StreamFacts DEF ReaderInv, TypeOK
<1>4. count # Len(stream.packets)
  <2>1. len + 1 \in 1..4 /\ offset + 1 + (len + 1) <= Len(stream.bytes) BY <1>1, <1>3
  <2> QED BY <1>2, <2>1, StreamFacts DEF ReaderInv
<1>5. count < Len(stream.packets) BY <1>3, <1>4
<1>6. /\ current \in PacketAt
      /\ current.at = offset
      /\ \A j \in 1..current.nl : more(stream.bytes[offset + 1 + j]) <=> j < current.nl
      /\ current.body = Decoded(stream.bytes, offset + 1, current.nl)
      /\ Start(stream, count + 2) = EndOf(current)
  BY <1>5, StreamFacts DEF ReaderInv
<1>7. current.nl \in 1..4 /\ current.body \in Nat
  BY <1>6 DEF PacketAt, MAX_NO_OF_REMAINING_LENGTH_BYTES
<1>8. current.nl = len + 1
  <2>1. ~(current.nl \in 1..len)
    <3>1. SUFFICES ASSUME current.nl \in 1..len PROVE FALSE OBVIOUS
    <3>2. more(stream.bytes[offset + 1 + current.nl]) BY <1>1, <3>1
    <3>3. current.nl \in 1..current.nl /\ ~(current.nl < current.nl) BY <1>7
    <3> QED BY <1>6, <3>2, <3>3
  <2>2. ~(len + 1 < current.nl)
    <3>1. SUFFICES ASSUME len + 1 < current.nl PROVE FALSE OBVIOUS
    <3>2. len + 1 \in 1..current.nl BY <1>1, <1>7, <3>1
    <3> QED BY <1>2, <1>6, <3>1, <3>2
  <2> QED BY <1>1, <1>7, <2>1, <2>2
<1>9. rem_len' = current.body BY <1>1, <1>6, <1>8
<1>10. pos' + current.body = EndOf(current) BY <1>1, <1>6, <1>7, <1>8 DEF EndOf
<1>11. /\ len' = 1 + Size(current.body)
       /\ buf' = [i \in 0..(BufLen - 1) |->
                    IF i \in 1..Size(current.body) THEN encode(current.body, i - 1) ELSE buf[i]]
  BY <1>9 DEF ReadLength
<1>12. Size(current.body) \in 1..4 BY <1>7, EncodeType
<1>13. BufLen \in Nat /\ BufLen >= 5 BY ReaderAssumption DEF MAX_NO_OF_REMAINING_LENGTH_BYTES
<1>14. buf' \in Buffer
  <2>1. \A i \in 0..(BufLen - 1) : buf[i] \in Byte BY DEF ReaderInv, TypeOK, Buffer
  <2>2. \A i \in 1..Size(current.body) : encode(current.body, i - 1) \in Byte
    <3>1. \A i \in 1..Size(current.body) : i - 1 \in Nat BY <1>12
    <3> QED BY <1>7, <3>1, EncodeType
  <2> QED BY <1>11, <2>1, <2>2 DEF Buffer
<1>15. buf'[0] = buf[0] BY <1>11, <1>12, <1>13
<1>16. \A i \in 1..Size(current.body) : buf'[i] = encode(current.body, i - 1)
  BY <1>11, <1>12, <1>13
<1> QED BY <1>1, <1>5, <1>6, <1>8, <1>9, <1>10, <1>11, <1>12, <1>14, <1>15, <1>16

LEMMA ReadLengthKeeps ==
    ASSUME ReaderInv, ReadLength
    PROVE  ReaderInv'
<1> DEFINE c == stream.bytes[pos + 1]
<1>1. /\ state = 1 /\ len \in 0..3 /\ result # "error"
      /\ offset \in Nat /\ pos' = offset + 1 + (len + 1)
      /\ pos' \in 0..Len(stream.bytes)
      /\ rem_len' = Decoded(stream.bytes, offset + 1, len + 1)
      /\ rem_len' \in 0..(LengthLimit - 1)
      /\ multiplier' = Weight(len + 1) /\ multiplier' \in 1..LengthLimit
      /\ buf[0] = stream.bytes[offset + 1]
      /\ \A j \in 1..len : more(stream.bytes[offset + 1 + j])
  BY LengthByte
<1>2. BufLen \in Nat /\ BufLen >= 5 BY ReaderAssumption DEF MAX_NO_OF_REMAINING_LENGTH_BYTES
<1>3. pos + 1 = offset + 1 + (len + 1) BY <1>1, LengthByte
<1>4. UNCHANGED <<stream, readFailed, connections>> BY DEF ReadLength
<1>5. calling BY DEF ReadLength, Reads
<1>6. CASE more(c)
  <2>1. len' = len + 1 /\ UNCHANGED <<state, buf, calling, result, count>>
    BY <1>6 DEF ReadLength
  <2>2. TypeOK'
    <3>1. len' \in 0..BufLen BY <1>1, <1>2, <2>1
    <3> QED BY <1>1, <1>4, <2>1, <3>1 DEF ReaderInv, TypeOK
  <2>3. offset' = offset BY <1>4, <2>1 DEF offset
  <2>4. \A j \in 1..(len + 1) : more(stream.bytes[offset + 1 + j])
    <3>1. \A j \in 1..(len + 1) : j = len + 1 \/ j \in 1..len BY <1>1
    <3>2. more(stream.bytes[offset + 1 + (len + 1)]) BY <1>3, <1>6
    <3> QED BY <1>1, <3>1, <3>2
  <2>5. InLength'
    BY <1>1, <1>4, <2>1, <2>3, <2>4 DEF InLength, MAX_NO_OF_REMAINING_LENGTH_BYTES
  <2> QED
    BY <1>1, <1>4, <2>1, <2>2, <2>5 DEF ReaderInv, InFrame, InBody, OnlyRealErrors, Stopped
<1>7. CASE ~more(c)
  <2>1. /\ count < Len(stream.packets)
        /\ current \in PacketAt
        /\ rem_len' = current.body
        /\ pos' + current.body = EndOf(current)
        /\ Start(stream, count + 2) = EndOf(current)
        /\ Size(current.body) \in 1..4
        /\ len' = 1 + Size(current.body)
        /\ buf' \in Buffer
        /\ buf'[0] = stream.bytes[offset + 1]
        /\ \A i \in 1..Size(current.body) : buf'[i] = encode(current.body, i - 1)
    BY <1>7, LengthEnds
  <2>2. current.body \in Nat BY <2>1 DEF PacketAt
  <2>3. len' \in 0..BufLen BY <1>2, <2>1
  <2>4. count \in Nat /\ Len(stream.packets) \in Nat
    BY StreamFacts DEF ReaderInv, TypeOK
  <2>5. CASE ~Fits(rem_len') /\ Fail /\ count' = count
    <3>1. calling' \in BOOLEAN BY <2>5, Zenon DEF Fail
    <3>2. TypeOK' BY <1>1, <1>4, <2>1, <2>3, <2>5, <3>1 DEF ReaderInv, TypeOK, Fail
    <3>3. current.body + 1 + Size(current.body) > BufLen
      BY <1>2, <2>1, <2>2, <2>5 DEF Fits
    <3>4. OnlyRealErrors' BY <1>4, <2>5, <3>3 DEF OnlyRealErrors, current
    <3> QED BY <2>5, <3>2, <3>4 DEF ReaderInv, Fail, InFrame, InLength, InBody, Stopped
  <2>6. CASE Fits(rem_len') /\ rem_len' = 0 /\ Return
    <3>1. calling' \in BOOLEAN BY <2>6, Zenon DEF Return
    <3>2. count' \in 0..Len(stream.packets) BY <2>1, <2>4, <2>6 DEF Return
    <3>3. TypeOK' BY <1>1, <1>4, <2>1, <2>3, <2>6, <3>1, <3>2 DEF ReaderInv, TypeOK, Return
    <3>4. pos' = EndOf(current) BY <1>1, <2>1, <2>6
    <3>5. count' + 1 = count + 2 BY <2>4, <2>6 DEF Return
    <3>6. InFrame' BY <1>4, <2>1, <3>4, <3>5 DEF InFrame
    <3> QED BY <2>6, <3>3, <3>6 DEF ReaderInv, Return, InLength, InBody, OnlyRealErrors, Stopped
  <2>7. CASE Fits(rem_len') /\ rem_len' > 0 /\ state' = 2 /\ UNCHANGED <<calling, result, count>>
    <3>1. TypeOK' BY <1>1, <1>4, <2>1, <2>3, <2>7 DEF ReaderInv, TypeOK
    <3>2. offset' = offset /\ current' = current BY <1>4, <2>7 DEF offset, current
    <3>3. current.body - rem_len' = 0 /\ rem_len' \in 1..current.body BY <2>1, <2>2, <2>7
    <3>4. InBody' BY <1>4, <2>1, <2>2, <2>7, <3>2, <3>3 DEF InBody
    <3> QED
      BY <1>1, <2>7, <3>1, <3>4 DEF ReaderInv, InFrame, InLength, OnlyRealErrors, Stopped
  <2> QED BY <1>7, <2>5, <2>6, <2>7 DEF ReadLength
<1> QED BY <1>6, <1>7

LEMMA LengthTooLongKeeps ==
    ASSUME ReaderInv, LengthTooLong
    PROVE  ReaderInv'
<1>1. state = 1 /\ len = 4 /\ \A j \in 1..4 : more(stream.bytes[offset + 1 + j])
  <2>1. state = 1 /\ ~(len < MAX_NO_OF_REMAINING_LENGTH_BYTES) BY DEF LengthTooLong, Reads
  <2>2. /\ len <= MAX_NO_OF_REMAINING_LENGTH_BYTES
        /\ \A j \in 1..len : more(stream.bytes[offset + 1 + j])
    BY <2>1 DEF ReaderInv, InLength
  <2>3. len \in 0..BufLen /\ BufLen \in Nat BY ReaderAssumption DEF ReaderInv, TypeOK
  <2>4. len = 4 BY <2>1, <2>2, <2>3 DEF MAX_NO_OF_REMAINING_LENGTH_BYTES
  <2> QED BY <2>1, <2>2, <2>4
<1>2. count = Len(stream.packets)
  <2>1. SUFFICES ASSUME count < Len(stream.packets) PROVE FALSE
    BY StreamFacts DEF ReaderInv, TypeOK
  <2>2. current.nl \in 1..4
        /\ \A j \in 1..current.nl : more(stream.bytes[offset + 1 + j]) <=> j < current.nl
    BY <2>1, StreamFacts DEF ReaderInv, PacketAt, MAX_NO_OF_REMAINING_LENGTH_BYTES
  <2>3. current.nl \in 1..current.nl /\ ~(current.nl < current.nl) BY <2>2
  <2> QED BY <1>1, <2>2, <2>3
<1>3. calling' \in BOOLEAN BY Zenon DEF LengthTooLong, Fail
<1>4. TypeOK' BY <1>3 DEF ReaderInv, TypeOK, LengthTooLong, Fail
<1> QED BY <1>2, <1>4 DEF ReaderInv, LengthTooLong, Fail, InFrame, InLength, InBody,
                          OnlyRealErrors, Stopped

\* What came of the body is in the buffer, behind the length.
LEMMA BodyBytes ==
    ASSUME ReaderInv, ReadBody
    PROVE  /\ count < Len(stream.packets) /\ current \in PacketAt /\ current.at = offset
           /\ result # "error" /\ calling /\ state = 2
           /\ Fits(current.body)
           /\ Size(current.body) \in 1..4
           /\ pos' \in 0..Len(stream.bytes)
           /\ len' \in 0..BufLen
           /\ rem_len' \in 0..(LengthLimit - 1)
           /\ rem_len' \in 0..current.body
           /\ pos' + rem_len' = EndOf(current)
           /\ len' + rem_len' = 1 + Size(current.body) + current.body
           /\ buf' \in Buffer
           /\ buf'[0] = stream.bytes[offset + 1]
           /\ \A i \in 1..Size(current.body) : buf'[i] = encode(current.body, i - 1)
           /\ \A i \in 1..(current.body - rem_len') :
                buf'[Size(current.body) + i] = stream.bytes[offset + 1 + current.nl + i]
           /\ Start(stream, count + 2) = EndOf(current)
<1>1. state = 2 /\ calling BY DEF ReadBody, Reads
<1>2. result # "error" BY <1>1 DEF ReaderInv, Stopped
<1>3. /\ count < Len(stream.packets)
      /\ rem_len \in 1..current.body
      /\ pos + rem_len = EndOf(current)
      /\ Fits(current.body)
      /\ len + rem_len = 1 + Size(current.body) + current.body
      /\ buf[0] = stream.bytes[offset + 1]
      /\ \A i \in 1..Size(current.body) : buf[i] = encode(current.body, i - 1)
      /\ \A i \in 1..(current.body - rem_len) :
           buf[Size(current.body) + i] = stream.bytes[offset + 1 + current.nl + i]
  BY <1>1 DEF ReaderInv, InBody
<1>4. /\ current \in PacketAt /\ current.at = offset /\ offset \in Nat
      /\ Start(stream, count + 2) = EndOf(current)
      /\ Len(stream.bytes) \in Nat
      /\ \A i \in 1..Len(stream.bytes) : stream.bytes[i] \in Byte
  BY <1>3, StreamFacts DEF ReaderInv
<1>5. current.nl \in 1..4 /\ current.body \in Nat /\ Size(current.body) \in 1..4
  BY <1>4, EncodeType DEF PacketAt, MAX_NO_OF_REMAINING_LENGTH_BYTES
<1>6. PICK k \in 1..(Len(stream.bytes) - pos) :
         /\ k <= rem_len
         /\ pos' = pos + k
         /\ buf' = [i \in 0..(BufLen - 1) |->
                      IF i \in len..(len + k - 1) THEN stream.bytes[pos + 1 + i - len]
                      ELSE buf[i]]
         /\ len' = len + k
         /\ rem_len' = rem_len - k
  BY DEF ReadBody, stillMissing
<1>7. /\ pos \in Nat /\ len \in Nat /\ rem_len \in 0..(LengthLimit - 1)
      /\ BufLen \in Nat /\ BufLen >= 5 /\ LengthLimit \in Nat \ {0}
  <2>1. pos \in Nat /\ len \in Nat /\ rem_len \in 0..(LengthLimit - 1)
    BY <1>4, ReaderAssumption DEF ReaderInv, TypeOK
  <2>2. 0 \in 0..4 OBVIOUS
  <2> QED BY <2>1, <2>2, WeightBound, ReaderAssumption DEF MAX_NO_OF_REMAINING_LENGTH_BYTES
<1>8. k \in Nat /\ k >= 1 /\ k <= rem_len /\ pos + k <= Len(stream.bytes)
  BY <1>4, <1>6, <1>7
<1> DEFINE z == Size(current.body)
           body == current.body
<1> HIDE DEF z, body
<1>8a. /\ z \in 1..4 /\ body \in Nat /\ rem_len \in Nat /\ rem_len <= body
       /\ len + rem_len = 1 + z + body /\ body + 1 + z <= BufLen
       /\ pos + rem_len = offset + 1 + current.nl + body
  BY <1>3, <1>4, <1>5 DEF z, body, Fits, EndOf
<1>8b. 1 + z <= len /\ len + k <= BufLen /\ len <= BufLen
  BY <1>7, <1>8, <1>8a
<1>9. Size(current.body) \in 1..4 /\ 1 + Size(current.body) <= len /\ len + k <= BufLen
  BY <1>8a, <1>8b DEF z
<1>10. /\ pos' \in 0..Len(stream.bytes)
       /\ len' \in 0..BufLen
       /\ rem_len' \in 0..(LengthLimit - 1)
       /\ rem_len' \in 0..current.body
       /\ pos' + rem_len' = pos + rem_len
       /\ len' + rem_len' = len + rem_len
  BY <1>3, <1>4, <1>5, <1>6, <1>7, <1>8, <1>9
<1>11. buf' \in Buffer
  <2>1. \A i \in len..(len + k - 1) : pos + 1 + i - len \in 1..Len(stream.bytes)
    BY <1>4, <1>7, <1>8
  <2>2. \A i \in len..(len + k - 1) : stream.bytes[pos + 1 + i - len] \in Byte
    BY <1>4, <2>1
  <2>3. \A i \in 0..(BufLen - 1) : buf[i] \in Byte BY DEF ReaderInv, TypeOK, Buffer
  <2> QED BY <1>6, <2>2, <2>3 DEF Buffer
<1>12. \A i \in 0..(len - 1) : buf'[i] = buf[i]
  <2>1. \A i \in 0..(len - 1) : i \in 0..(BufLen - 1) /\ ~(i \in len..(len + k - 1))
    BY <1>7, <1>8, <1>9
  <2> QED BY <1>6, <2>1
<1>13. buf'[0] = stream.bytes[offset + 1]
  <2>1. 0 \in 0..(len - 1) BY <1>7, <1>9
  <2> QED BY <1>3, <1>12, <2>1
<1>14. \A i \in 1..Size(current.body) : buf'[i] = encode(current.body, i - 1)
  <2>1. \A i \in 1..Size(current.body) : i \in 0..(len - 1) BY <1>5, <1>7, <1>9
  <2> QED BY <1>3, <1>12, <2>1
<1>15. ASSUME NEW i \in 1..(current.body - rem_len')
       PROVE  buf'[Size(current.body) + i] = stream.bytes[offset + 1 + current.nl + i]
  <2>1. current.body - rem_len' = current.body - rem_len + k BY <1>3, <1>5, <1>6, <1>7, <1>8
  <2>2. CASE i <= current.body - rem_len
    <3>1. i \in 1..(current.body - rem_len) BY <1>3, <1>5, <2>2
    <3>2. z + i \in 0..(len - 1)
      <4>1. i \in Nat /\ i <= body - rem_len BY <1>8a, <3>1 DEF body
      <4> QED BY <1>7, <1>8a, <4>1
    <3> QED BY <1>3, <1>12, <3>1, <3>2 DEF z
  <2>3. CASE i > current.body - rem_len
    <3> DEFINE a == z + i
    <3>0. i \in Nat /\ i > body - rem_len /\ i <= body - rem_len + k
      BY <1>8, <1>8a, <2>1, <2>3 DEF body
    <3>1. a \in len..(len + k - 1) /\ a \in 0..(BufLen - 1)
      BY <1>7, <1>8, <1>8a, <1>8b, <3>0
    <3>2. buf'[a] = stream.bytes[pos + 1 + a - len] BY <1>6, <3>1
    <3>3. current.nl \in Nat /\ offset \in Nat BY <1>4, <1>5
    <3>4. pos + 1 + a - len = offset + 1 + current.nl + i
      BY <1>7, <1>8a, <3>3, <3>0
    <3> QED BY <3>2, <3>4 DEF z
  <2> QED BY <1>3, <1>5, <2>2, <2>3
<1> QED BY <1>1, <1>2, <1>3, <1>4, <1>5, <1>10, <1>11, <1>13, <1>14, <1>15

LEMMA ReadBodyKeeps ==
    ASSUME ReaderInv, ReadBody
    PROVE  ReaderInv'
<1>1. /\ count < Len(stream.packets)
      /\ current \in PacketAt
      /\ result # "error" /\ calling
      /\ Fits(current.body)
      /\ pos' \in 0..Len(stream.bytes)
      /\ len' \in 0..BufLen
      /\ rem_len' \in 0..(LengthLimit - 1)
      /\ rem_len' \in 0..current.body
      /\ pos' + rem_len' = EndOf(current)
      /\ len' + rem_len' = 1 + Size(current.body) + current.body
      /\ buf' \in Buffer
      /\ buf'[0] = stream.bytes[offset + 1]
      /\ \A i \in 1..Size(current.body) : buf'[i] = encode(current.body, i - 1)
      /\ \A i \in 1..(current.body - rem_len') :
           buf'[Size(current.body) + i] = stream.bytes[offset + 1 + current.nl + i]
      /\ Start(stream, count + 2) = EndOf(current)
  BY BodyBytes
<1>2. UNCHANGED <<stream, multiplier, readFailed, connections>> BY DEF ReadBody
<1>3. count \in Nat /\ Len(stream.packets) \in Nat /\ Len(stream.bytes) \in Nat
  BY StreamFacts DEF ReaderInv, TypeOK
<1>4. CASE rem_len' = 0 /\ Return
  <2>1. calling' \in BOOLEAN BY <1>4, Zenon DEF Return
  <2>2. count' \in 0..Len(stream.packets) BY <1>1, <1>3, <1>4 DEF Return
  <2>3. TypeOK' BY <1>1, <1>2, <1>4, <2>1, <2>2 DEF ReaderInv, TypeOK, Return
  <2>4. pos' = EndOf(current) BY <1>1, <1>3, <1>4
  <2>5. count' + 1 = count + 2 BY <1>3, <1>4 DEF Return
  <2>6. InFrame' BY <1>1, <1>2, <2>4, <2>5 DEF InFrame
  <2> QED BY <1>4, <2>3, <2>6 DEF ReaderInv, Return, InLength, InBody, OnlyRealErrors, Stopped
<1>5. CASE rem_len' # 0 /\ Again
  <2>1. calling' \in BOOLEAN BY <1>5, Zenon DEF Again
  <2>2. TypeOK' BY <1>1, <1>2, <1>5, <2>1 DEF ReaderInv, TypeOK, Again
  <2>3. offset' = offset /\ current' = current BY <1>2, <1>5 DEF Again, offset, current
  <2>4. state' = 2 BY <1>5 DEF ReadBody, Again
  <2>5. rem_len' \in 1..current.body BY <1>1, <1>5
  <2>6. InBody' BY <1>1, <1>2, <1>5, <2>3, <2>5 DEF InBody, Again
  <2> QED BY <1>5, <2>2, <2>4, <2>6 DEF ReaderInv, Again, InFrame, InLength, OnlyRealErrors, Stopped
<1> QED BY <1>4, <1>5 DEF ReadBody

LEMMA NextKeeps ==
    ASSUME ReaderInv, [Next]_vars
    PROVE  ReaderInv'
<1>1. CASE Call BY <1>1, CallKeeps
<1>2. CASE ReadHeader BY <1>2, ReadHeaderKeeps
<1>3. CASE ReadLength BY <1>3, ReadLengthKeeps
<1>4. CASE ReadBody BY <1>4, ReadBodyKeeps
<1>5. CASE LengthTooLong BY <1>5, LengthTooLongKeeps
<1>6. CASE NothingYet BY <1>6, NothingYetKeeps
<1>7. CASE GetFails BY <1>7, GetFailsKeeps
<1>8. CASE Reconnect BY <1>8, ReconnectKeeps
<1>9. CASE UNCHANGED vars
  BY <1>9 DEF vars, transport, ReaderInv, TypeOK, InFrame, InLength, InBody, OnlyRealErrors,
              Stopped, offset, current
<1> QED BY <1>1, <1>2, <1>3, <1>4, <1>5, <1>6, <1>7, <1>8, <1>9 DEF Next, ReadSome

-----------------------------------------------------------------------------
(* The theorems *)

LEMMA ReaderInvariant == Spec => []ReaderInv
<1>1. Init => ReaderInv BY InitReader
<1>2. ReaderInv /\ [Next]_vars => ReaderInv' BY NextKeeps
<1> QED BY <1>1, <1>2, PTL DEF Spec

(***************************************************************************)
(* The variables keep their types: the buffer is never written past its    *)
(* end, and the length never exceeds what four bytes can hold.             *)
(***************************************************************************)
THEOREM ReaderTypeCorrect == Spec => []TypeOK
<1>1. ReaderInv => TypeOK BY DEF ReaderInv
<1> QED BY <1>1, ReaderInvariant, PTL

(***************************************************************************)
(* Between two packets the reader is at a packet's start, for every stream *)
(* and every way its bytes may be cut up (MQTTPacket_readnb).              *)
(***************************************************************************)
THEOREM StaysInFrame == Spec => []InFrame
<1>1. ReaderInv => InFrame BY DEF ReaderInv
<1> QED BY <1>1, ReaderInvariant, PTL

(***************************************************************************)
(* No packet that fits is refused, and no stream of packets is taken for   *)
(* an error (MQTTPacket_readnb, MQTTPacket_decodenb).                      *)
(***************************************************************************)
THEOREM ErrorsAreReal == Spec => []OnlyRealErrors
<1>1. ReaderInv => OnlyRealErrors BY DEF ReaderInv
<1> QED BY <1>1, ReaderInvariant, PTL

(***************************************************************************)
(* What a call returns is the next packet of the stream, whole, whatever   *)
(* calls and pieces it took (MQTTPacket_readnb).                           *)
(***************************************************************************)
THEOREM PacketsAreWhole == Spec => WholePackets
<1>1. ASSUME ReaderInv, [Next]_vars
      PROVE  [count' = count + 1 => Holds(buf', stream, count + 1)]_vars
  <2> SUFFICES ASSUME Next, count' = count + 1
               PROVE  Holds(buf', stream, count + 1)
    BY <1>1
  <2>1. count \in Nat BY <1>1, StreamFacts DEF ReaderInv, TypeOK
  <2>2. count' # count BY <2>1
  <2>3. CASE ReadLength
    <3>1. ~more(stream.bytes[pos + 1]) /\ rem_len' = 0
      BY <2>2, <2>3 DEF ReadLength
    <3>2. /\ rem_len' = current.body
          /\ current \in PacketAt /\ current.at = offset
          /\ buf'[0] = stream.bytes[offset + 1]
          /\ \A i \in 1..Size(current.body) : buf'[i] = encode(current.body, i - 1)
      BY <2>3, <3>1, <1>1, LengthEnds, StreamFacts DEF ReaderInv
    <3> QED BY <3>1, <3>2 DEF Holds, current
  <2>4. CASE ReadBody
    <3>1. rem_len' = 0 BY <2>2, <2>4 DEF ReadBody, Again
    <3>2. /\ current \in PacketAt /\ current.at = offset
          /\ buf'[0] = stream.bytes[offset + 1]
          /\ \A i \in 1..Size(current.body) : buf'[i] = encode(current.body, i - 1)
          /\ \A i \in 1..(current.body - rem_len') :
               buf'[Size(current.body) + i] = stream.bytes[offset + 1 + current.nl + i]
      BY <2>4, <1>1, BodyBytes
    <3>3. current.body - rem_len' = current.body BY <3>1, <3>2 DEF PacketAt
    <3> QED BY <3>2, <3>3 DEF Holds, current
  <2>5. CASE Reconnect BY <2>1, <2>5 DEF Reconnect
  <2>6. CASE Call \/ ReadHeader \/ LengthTooLong \/ NothingYet \/ GetFails
    BY <2>2, <2>6 DEF Call, ReadHeader, LengthTooLong, NothingYet, GetFails, Again
  <2> QED BY <2>3, <2>4, <2>5, <2>6 DEF Next, ReadSome
<1> QED BY <1>1, ReaderInvariant, PTL DEF Spec, WholePackets
=============================================================================
