----------------------------- MODULE PortsProofs -----------------------------
(***************************************************************************)
(* readPacket and sendPacket keep their promises over every port, for all  *)
(* packets, buffers and timeouts, and readPacket implements PacketSource.  *)
(***************************************************************************)
EXTENDS Ports, SequenceProofs, FiniteSetTheorems

-----------------------------------------------------------------------------
(* The bytes of a stream and the ends of its packets *)

LEMMA Numbers ==
    /\ Base \in Nat \ {0} /\ Timeout \in Nat \ {0}
    /\ SendLength \in Nat \ {0} /\ max_tries \in Nat \ {0}
    /\ Horizon \in Nat /\ Horizon > 4 * Timeout
    /\ ClockSize \in Nat /\ ClockSize > 2 * Horizon
    /\ MAX_MQTT_PACKET_SIZE \in Nat \ {0, 1} /\ MaxCalls \in Nat
BY PortsAssumption

LEMMA EmptyIsSeq == << >> \in Seq(Nat) /\ Len(<< >>) = 0
OBVIOUS

LEMMA Concatenated ==
    \A u, v \in Seq(Nat) :
        /\ u \o v \in Seq(Nat) /\ Len(u \o v) = Len(u) + Len(v)
        /\ \A i \in 1..Len(u) : (u \o v)[i] = u[i]
OBVIOUS

LEMMA ConcatenatedRest ==
    \A u, v \in Seq(Nat) : \A i \in 1..Len(v) : (u \o v)[Len(u) + i] = v[i]
OBVIOUS

LEMMA SeqOfNat ==
    ASSUME NEW n \in Nat, NEW l \in Seq(0..n)
    PROVE  l \in Seq(Nat)
<1>1. Len(l) \in Nat /\ l = [i \in 1..Len(l) |-> l[i]] OBVIOUS
<1>2. \A i \in 1..Len(l) : l[i] \in Nat OBVIOUS
<1> QED BY <1>1, <1>2

LEMMA ElementOf ==
    ASSUME NEW A, NEW l \in Seq(A), NEW k \in DOMAIN l
    PROVE  l[k] \in A
OBVIOUS

LEMMA PacketFacts ==
    ASSUME NEW s \in Streams, NEW k \in 1..Len(s)
    PROVE  /\ s[k].length \in Seq(Nat) /\ Len(s[k].length) \in 1..4 /\ s[k].rem \in Nat
           /\ IsPacket(s[k])
           /\ Bytes(s[k]) \in Seq(Nat)
           /\ Len(Bytes(s[k])) = 1 + Len(s[k].length) + s[k].rem
           /\ \A i \in 1..Len(s[k].length) : Bytes(s[k])[1 + i] = s[k].length[i]
<1>1. s \in Seq([length : Seq(0..(2 * Base - 1)), rem : Nat]) BY PortsAssumption
<1>2. k \in DOMAIN s BY <1>1
<1>3. IsPacket(s[k]) BY <1>2, PortsAssumption
<1>4. s[k] \in [length : Seq(0..(2 * Base - 1)), rem : Nat] BY <1>1, <1>2, ElementOf
<1> DEFINE l == s[k].length
           r == s[k].rem
           z == [i \in 1..r |-> 0]
<1>5. l \in Seq(0..(2 * Base - 1)) /\ r \in Nat BY <1>4
<1>6. 2 * Base - 1 \in Nat BY Numbers
<1>7. l \in Seq(Nat) BY <1>5, <1>6, SeqOfNat
<1>8. Len(l) \in 1..4 BY <1>3 DEF IsPacket
<1>9. z \in Seq(Nat) /\ Len(z) = r BY <1>5
<1>10. Bytes(s[k]) = <<0>> \o l \o z BY DEF Bytes
<1> HIDE DEF l, r, z
<1> DEFINE h == <<0>> \o l
<1>11. h \in Seq(Nat) /\ Len(h) = 1 + Len(l) /\ \A i \in 1..Len(l) : h[1 + i] = l[i]
  <2>1. <<0>> \in Seq(Nat) /\ Len(<<0>>) = 1 OBVIOUS
  <2> QED BY <1>7, <2>1
<1>12. Bytes(s[k]) = h \o z BY <1>10
<1> HIDE DEF h
<1>13. h \o z \in Seq(Nat) /\ Len(h \o z) = Len(h) + r BY <1>9, <1>11, Concatenated
<1>14. \A i \in 1..Len(l) : (h \o z)[1 + i] = l[i]
  <2>1. \A i \in 1..Len(l) : 1 + i \in 1..Len(h) BY <1>7, <1>11
  <2>2. \A i \in 1..Len(h) : (h \o z)[i] = h[i] BY <1>9, <1>11, Concatenated
  <2> QED BY <1>11, <2>1, <2>2
<1> QED BY <1>3, <1>5, <1>7, <1>8, <1>11, <1>12, <1>13, <1>14 DEF l, r

\* the bytes of the first k packets
UpTo(s, k) == FlattenSeq([i \in 1..k |-> Bytes(s[i])])

LEMMA UpToStep ==
    ASSUME NEW s \in Streams, NEW k \in Nat, k < Len(s)
    PROVE  /\ UpTo(s, k) \in Seq(Nat)
           /\ UpTo(s, k + 1) = UpTo(s, k) \o Bytes(s[k + 1])
           /\ UpTo(s, k + 1) \in Seq(Nat)
<1> DEFINE b == [i \in 1..Len(s) |-> Bytes(s[i])]
<1>0. s \in Seq([length : Seq(0..(2 * Base - 1)), rem : Nat]) BY PortsAssumption
<1>1. Len(s) \in Nat BY <1>0
<1>2. \A i \in 1..Len(s) : Bytes(s[i]) \in Seq(Nat) BY PacketFacts
<1>3. b \in Seq(Seq(Nat)) /\ Len(b) = Len(s) BY <1>1, <1>2
<1>4. /\ [i \in 1..k |-> b[i]] = [i \in 1..k |-> Bytes(s[i])]
      /\ [i \in 1..(k + 1) |-> b[i]] = [i \in 1..(k + 1) |-> Bytes(s[i])]
      /\ b[k + 1] = Bytes(s[k + 1]) /\ b[k + 1] \in Seq(Nat)
  BY <1>1, <1>2
<1> HIDE DEF b
<1>5. k + 1 <= Len(b) BY <1>1, <1>3
<1>6. /\ FlattenSeq([i \in 1..k |-> b[i]]) \in Seq(Nat)
      /\ FlattenSeq([i \in 1..(k + 1) |-> b[i]]) = FlattenSeq([i \in 1..k |-> b[i]]) \o b[k + 1]
  BY <1>3, <1>5, FlattenStep
<1>7. /\ UpTo(s, k) \in Seq(Nat)
      /\ UpTo(s, k + 1) = UpTo(s, k) \o Bytes(s[k + 1])
  BY <1>4, <1>6 DEF UpTo
<1>8. Bytes(s[k + 1]) \in Seq(Nat) BY <1>4
<1>9. \A u, v \in Seq(Nat) : u \o v \in Seq(Nat) OBVIOUS
<1>10. UpTo(s, k + 1) \in Seq(Nat) BY <1>7, <1>8, <1>9
<1> QED BY <1>7, <1>10

LEMMA NoBytes == \A s : UpTo(s, 0) = << >>
<1> SUFFICES ASSUME NEW s PROVE UpTo(s, 0) = << >> OBVIOUS
<1>1. [i \in 1..0 |-> Bytes(s[i])] = << >> OBVIOUS
<1>2. FlattenSeq(<< >>) = << >> BY DEF FlattenSeq
<1> QED BY <1>1, <1>2 DEF UpTo

\* Bytes that have come stay as they are.
LEMMA UpToPrefix ==
    ASSUME NEW s \in Streams, NEW j \in Nat, NEW k \in Nat, j <= k, k <= Len(s)
    PROVE  /\ UpTo(s, j) \in Seq(Nat) /\ UpTo(s, k) \in Seq(Nat)
           /\ Len(UpTo(s, j)) <= Len(UpTo(s, k))
           /\ j < k => Len(UpTo(s, j)) < Len(UpTo(s, k))
           /\ \A i \in 1..Len(UpTo(s, j)) : UpTo(s, j)[i] = UpTo(s, k)[i]
<1>0. s \in Seq([length : Seq(0..(2 * Base - 1)), rem : Nat]) BY PortsAssumption
<1>1. Len(s) \in Nat BY <1>0
<1>2. ASSUME NEW n \in Nat, n <= Len(s) PROVE UpTo(s, n) \in Seq(Nat)
  <2>1. CASE n = 0
    <3>1. UpTo(s, 0) \in Seq(Nat)
      <4>1. UpTo(s, 0) = << >> BY NoBytes
      <4> QED BY <4>1, EmptyIsSeq, Zenon
    <3> QED BY <2>1, <3>1
  <2>2. CASE n # 0
    <3>1. n - 1 \in Nat /\ n - 1 < Len(s) /\ (n - 1) + 1 = n BY <1>1, <1>2, <2>2
    <3> QED BY <3>1, UpToStep
  <2> QED BY <2>1, <2>2
<1> DEFINE Pre(n) == /\ Len(UpTo(s, j)) <= Len(UpTo(s, n))
                     /\ j < n => Len(UpTo(s, j)) < Len(UpTo(s, n))
                     /\ \A i \in 1..Len(UpTo(s, j)) : UpTo(s, j)[i] = UpTo(s, n)[i]
           S == {d \in Nat : j + d <= Len(s) => Pre(j + d)}
<1>3. UpTo(s, j) \in Seq(Nat) /\ Len(UpTo(s, j)) \in Nat
  <2>1. j <= Len(s) BY <1>1
  <2>2. UpTo(s, j) \in Seq(Nat) BY <1>2, <2>1
  <2> QED BY <2>2
<1>4. 0 \in S
  <2>1. Pre(j) BY <1>3
  <2>2. j + 0 = j OBVIOUS
  <2> HIDE DEF Pre
  <2> QED BY <2>1, <2>2
<1>5. ASSUME NEW d \in Nat, d \in S PROVE d + 1 \in S
  <2> SUFFICES ASSUME j + (d + 1) <= Len(s) PROVE Pre(j + (d + 1)) OBVIOUS
  <2> DEFINE u == UpTo(s, j + d)
             b == Bytes(s[(j + d) + 1])
             v == UpTo(s, j + (d + 1))
  <2>1. j + d \in Nat /\ j + d < Len(s) /\ j + (d + 1) = (j + d) + 1 /\ (j + d) + 1 \in 1..Len(s)
        /\ j < j + (d + 1) /\ j + d <= Len(s)
    BY <1>1
  <2>2. u \in Seq(Nat) /\ v = u \o b BY <2>1, UpToStep
  <2>3. b \in Seq(Nat) /\ Len(b) >= 1 BY <2>1, PacketFacts
  <2>4. Pre(j + d) BY <1>5, <2>1
  <2>5. Len(UpTo(s, j)) <= Len(u) /\ \A i \in 1..Len(UpTo(s, j)) : UpTo(s, j)[i] = u[i]
    BY <2>4
  <2> HIDE DEF u, b, v, Pre
  <2>6. Len(v) = Len(u) + Len(b) /\ \A i \in 1..Len(u) : v[i] = u[i] BY <2>2, <2>3
  <2>7. Len(UpTo(s, j)) < Len(v) /\ \A i \in 1..Len(UpTo(s, j)) : UpTo(s, j)[i] = v[i]
    <3>1. PICK x, y, z, m :
            x = Len(UpTo(s, j)) /\ y = Len(u) /\ z = Len(v) /\ m = Len(b)
      OBVIOUS
    <3>2. y \in Nat /\ m \in Nat BY <2>2, <2>3, <3>1
    <3>3. x \in Nat BY <1>3, <3>1
    <3>4. z = y + m /\ m >= 1 /\ x <= y BY <2>3, <2>5, <2>6, <3>1
    <3>5. x < z /\ 1..x \subseteq 1..y BY <3>2, <3>3, <3>4
    <3>6. \A i \in 1..x : UpTo(s, j)[i] = u[i] /\ u[i] = v[i] BY <2>5, <2>6, <3>1, <3>5
    <3> QED BY <3>1, <3>5, <3>6
  <2>8. Len(UpTo(s, j)) < Len(UpTo(s, j + (d + 1)))
        /\ \A i \in 1..Len(UpTo(s, j)) : UpTo(s, j)[i] = UpTo(s, j + (d + 1))[i]
    BY <2>7 DEF v
  <2>9. Len(UpTo(s, j)) <= Len(UpTo(s, j + (d + 1)))
    BY <1>3, <2>2, <2>3, <2>6, <2>7 DEF v
  <2> QED BY <2>8, <2>9 DEF Pre
<1> HIDE DEF S
<1>6. k - j \in S
  <2>1. k - j \in Nat OBVIOUS
  <2>2. Nat \subseteq S BY <1>4, <1>5, SetInduction
  <2> QED BY <2>1, <2>2
<1>7. Pre(k)
  <2>1. j + (k - j) = k OBVIOUS
  <2> HIDE DEF Pre
  <2> QED BY <1>6, <2>1 DEF S
<1>8. UpTo(s, k) \in Seq(Nat) BY <1>2
<1> QED BY <1>3, <1>7, <1>8

LEMMA StreamBytes ==
    ASSUME NEW s \in Streams
    PROVE  /\ Len(s) \in Nat
           /\ BytesOf[s] = UpTo(s, Len(s)) /\ BytesOf[s] \in Seq(Nat)
           /\ EndsOf[s][0] = 0 /\ EndsOf[s][Len(s)] = Len(BytesOf[s])
           /\ DOMAIN EndsOf[s] = 0..Len(s)
           /\ \A k \in 0..Len(s) : EndsOf[s][k] = Len(UpTo(s, k)) /\ EndsOf[s][k] \in Nat
<1>0. s \in Seq([length : Seq(0..(2 * Base - 1)), rem : Nat]) BY PortsAssumption
<1>1. Len(s) \in Nat /\ DOMAIN s = 1..Len(s) BY <1>0
<1>2. BytesOf[s] = UpTo(s, Len(s)) BY <1>1 DEF BytesOf, UpTo
<1>3. EndsOf[s] = [k \in 0..Len(s) |-> Len(UpTo(s, k))] BY DEF EndsOf, UpTo
<1>4. ASSUME NEW k \in 0..Len(s) PROVE EndsOf[s][k] = Len(UpTo(s, k)) /\ EndsOf[s][k] \in Nat
  <2>1. k \in Nat /\ k <= k /\ k <= Len(s) BY <1>1
  <2>2. UpTo(s, k) \in Seq(Nat) BY <2>1, UpToPrefix
  <2> QED BY <1>3, <2>2
<1>5. UpTo(s, Len(s)) \in Seq(Nat)
  <2>1. Len(s) <= Len(s) BY <1>1
  <2> QED BY <1>1, <2>1, UpToPrefix
<1>6. 0 \in 0..Len(s) /\ Len(s) \in 0..Len(s) BY <1>1
<1>7. EndsOf[s][0] = 0 BY <1>4, <1>6, NoBytes
<1> QED BY <1>1, <1>2, <1>3, <1>4, <1>5, <1>6, <1>7

EndsIn(s) == Range(EndsOf[s])
CountTo(s, p) == Cardinality({e \in EndsIn(s) : e <= p})

LEMMA StreamEnds ==
    ASSUME NEW s \in Streams
    PROVE  /\ Len(s) \in Nat /\ BytesOf[s] \in Seq(Nat)
           /\ EndsOf[s][0] = 0 /\ EndsOf[s][Len(s)] = Len(BytesOf[s])
           /\ EndsIn(s) = {EndsOf[s][k] : k \in 0..Len(s)}
           /\ \A k \in 0..Len(s) : EndsOf[s][k] \in Nat /\ EndsOf[s][k] <= Len(BytesOf[s])
           /\ \A j, k \in 0..Len(s) : j < k => EndsOf[s][j] < EndsOf[s][k]
           /\ \A k \in 1..Len(s) :
                /\ EndsOf[s][k] = EndsOf[s][k - 1] + 1 + Len(s[k].length) + s[k].rem
                /\ \A i \in 1..Len(s[k].length) :
                     BytesOf[s][EndsOf[s][k - 1] + 1 + i] = s[k].length[i]
<1>1. /\ Len(s) \in Nat /\ BytesOf[s] = UpTo(s, Len(s)) /\ BytesOf[s] \in Seq(Nat)
      /\ EndsOf[s][0] = 0 /\ EndsOf[s][Len(s)] = Len(BytesOf[s])
      /\ DOMAIN EndsOf[s] = 0..Len(s)
      /\ \A k \in 0..Len(s) : EndsOf[s][k] = Len(UpTo(s, k)) /\ EndsOf[s][k] \in Nat
  BY StreamBytes
<1>2. EndsIn(s) = {EndsOf[s][k] : k \in 0..Len(s)} BY <1>1 DEF EndsIn, Range
<1>3. ASSUME NEW k \in 0..Len(s) PROVE EndsOf[s][k] <= Len(BytesOf[s])
  <2>1. k \in Nat /\ k <= Len(s) /\ Len(s) <= Len(s) BY <1>1
  <2>2. Len(UpTo(s, k)) <= Len(UpTo(s, Len(s))) BY <1>1, <2>1, UpToPrefix
  <2> QED BY <1>1, <2>2
<1>4. ASSUME NEW j \in 0..Len(s), NEW k \in 0..Len(s), j < k PROVE EndsOf[s][j] < EndsOf[s][k]
  <2>1. j \in Nat /\ k \in Nat /\ j <= k /\ k <= Len(s) BY <1>1, <1>4
  <2>2. Len(UpTo(s, j)) < Len(UpTo(s, k)) BY <1>4, <2>1, UpToPrefix
  <2> QED BY <1>1, <2>2
<1>5. ASSUME NEW k \in 1..Len(s)
      PROVE  /\ EndsOf[s][k] = EndsOf[s][k - 1] + 1 + Len(s[k].length) + s[k].rem
             /\ \A i \in 1..Len(s[k].length) :
                  BytesOf[s][EndsOf[s][k - 1] + 1 + i] = s[k].length[i]
  <2> DEFINE u == UpTo(s, k - 1)
             b == Bytes(s[k])
             v == UpTo(s, k)
             w == UpTo(s, Len(s))
             n == Len(s[k].length)
  <2>1. k - 1 \in Nat /\ k \in Nat /\ k - 1 < Len(s) /\ (k - 1) + 1 = k /\ k <= Len(s)
        /\ k - 1 \in 0..Len(s) /\ k \in 0..Len(s) /\ Len(s) <= Len(s)
    BY <1>1
  <2>2. u \in Seq(Nat) /\ v = u \o b
    <3>1. /\ UpTo(s, k - 1) \in Seq(Nat)
          /\ UpTo(s, (k - 1) + 1) = UpTo(s, k - 1) \o Bytes(s[(k - 1) + 1])
      BY <2>1, UpToStep
    <3> QED BY <2>1, <3>1
  <2>3. /\ b \in Seq(Nat) /\ n \in 1..4 /\ s[k].rem \in Nat
        /\ Len(b) = 1 + n + s[k].rem
        /\ \A i \in 1..n : b[1 + i] = s[k].length[i]
    BY PacketFacts
  <2>4. \A i \in 1..Len(v) : v[i] = w[i] BY <1>1, <2>1, UpToPrefix
  <2>5. EndsOf[s][k - 1] = Len(u) /\ EndsOf[s][k] = Len(v) BY <1>1, <2>1
  <2> HIDE DEF u, b, v, w, n
  <2>6. Len(v) = Len(u) + Len(b) BY <2>2, <2>3
  <2>7. ASSUME NEW i \in 1..n PROVE w[Len(u) + 1 + i] = s[k].length[i]
    <3>1. 1 + i \in 1..Len(b) BY <2>3
    <3>2. v[Len(u) + (1 + i)] = b[1 + i] BY <2>2, <2>3, <3>1, ConcatenatedRest
    <3>3. Len(u) + (1 + i) \in 1..Len(v) /\ Len(u) + (1 + i) = Len(u) + 1 + i
      BY <2>2, <2>3, <2>6, <3>1
    <3>4. v[Len(u) + 1 + i] = w[Len(u) + 1 + i] BY <2>4, <3>3
    <3> QED BY <2>3, <3>2, <3>3, <3>4
  <2>8. Len(u) \in Nat BY <2>2
  <2>9. Len(v) = Len(u) + 1 + n + s[k].rem
    <3> DEFINE r == s[k].rem
    <3>1. n \in Nat /\ r \in Nat /\ Len(b) = 1 + n + r BY <2>3
    <3> HIDE DEF r
    <3>2. Len(v) = Len(u) + 1 + n + r BY <2>6, <2>8, <3>1
    <3> QED BY <3>2 DEF r
  <2>10. EndsOf[s][k] = EndsOf[s][k - 1] + 1 + Len(s[k].length) + s[k].rem
    BY <2>5, <2>9 DEF n
  <2>11. \A i \in 1..Len(s[k].length) :
           BytesOf[s][EndsOf[s][k - 1] + 1 + i] = s[k].length[i]
    BY <1>1, <2>5, <2>7 DEF n, w
  <2> QED BY <2>10, <2>11
<1> QED BY <1>1, <1>2, <1>3, <1>4, <1>5

\* Up to a place in packet k + 1 there are the ends of k packets, and the start.
LEMMA EndsCounted ==
    ASSUME NEW s \in Streams, NEW k \in 0..Len(s), NEW p \in Int, EndsOf[s][k] <= p,
           k < Len(s) => p < EndsOf[s][k + 1]
    PROVE  /\ CountTo(s, p) = k + 1
           /\ p \in EndsIn(s) <=> p = EndsOf[s][k]
<1> DEFINE E == {e \in EndsIn(s) : e <= p}
           f == [j \in 0..k |-> EndsOf[s][j]]
<1>1. /\ Len(s) \in Nat
      /\ EndsIn(s) = {EndsOf[s][j] : j \in 0..Len(s)}
      /\ \A j \in 0..Len(s) : EndsOf[s][j] \in Nat
      /\ \A i, j \in 0..Len(s) : i < j => EndsOf[s][i] < EndsOf[s][j]
  BY StreamEnds
<1>2. ASSUME NEW j \in 0..Len(s) PROVE EndsOf[s][j] <= p <=> j <= k
  <2>1. CASE j < k BY <1>1, <2>1
  <2>2. CASE j = k BY <2>2
  <2>3. CASE j = k + 1 BY <1>1, <2>3
  <2>4. CASE j > k + 1
    <3>1. k + 1 \in 0..Len(s) /\ k < Len(s) BY <1>1, <2>4
    <3>2. EndsOf[s][k + 1] < EndsOf[s][j] BY <1>1, <2>4, <3>1
    <3>3. EndsOf[s][k + 1] \in Nat /\ EndsOf[s][j] \in Nat BY <1>1, <3>1
    <3> QED BY <2>4, <3>1, <3>2, <3>3
  <2> QED BY <2>1, <2>2, <2>3, <2>4
<1>3. f \in Surjection(0..k, E) /\ f \in Injection(0..k, E)
  <2>1. \A j \in 0..k : j \in 0..Len(s) BY <1>1
  <2>2. f \in [0..k -> E] BY <1>1, <1>2, <2>1
  <2>3. ASSUME NEW i \in 0..k, NEW j \in 0..k, f[i] = f[j] PROVE i = j
    <3>1. EndsOf[s][i] = EndsOf[s][j] BY <2>3
    <3>2. ~(i < j) /\ ~(j < i) BY <1>1, <2>1, <3>1
    <3> QED BY <3>2
  <2>4. ASSUME NEW e \in E PROVE \E j \in 0..k : f[j] = e
    <3>1. PICK j \in 0..Len(s) : e = EndsOf[s][j] BY <1>1
    <3>2. j \in 0..k BY <1>2, <3>1
    <3> QED BY <3>1, <3>2
  <2>5. \A i, j \in 0..k : f[i] = f[j] => i = j BY <2>3
  <2> HIDE DEF E, f
  <2>6. IsInjective(f) BY <2>2, <2>5 DEF IsInjective
  <2> QED BY <2>2, <2>4, <2>6 DEF Injection, Surjection
<1>4. IsFiniteSet(0..k) /\ Cardinality(0..k) = k + 1
  <2>1. k \in Int /\ 0 \in Int /\ ~(0 > k) /\ k - 0 + 1 = k + 1 OBVIOUS
  <2>2. IsFiniteSet(0..k) /\ Cardinality(0..k) = IF 0 > k THEN 0 ELSE k - 0 + 1
    BY <2>1, FS_Interval
  <2> QED BY <2>1, <2>2
<1>5. Cardinality(E) = k + 1
  <2> HIDE DEF E, f
  <2> QED BY <1>3, <1>4, FS_Surjection
<1>6. p \in EndsIn(s) <=> p = EndsOf[s][k]
  <2>1. ASSUME p \in EndsIn(s) PROVE p = EndsOf[s][k]
    <3>1. PICK j \in 0..Len(s) : p = EndsOf[s][j] BY <1>1, <2>1
    <3>2. j <= k BY <1>2, <3>1
    <3>3. ~(j < k) BY <1>1, <3>1
    <3>4. j = k BY <3>2, <3>3
    <3> QED BY <3>1, <3>4
  <2> QED BY <1>1, <2>1
<1> QED BY <1>5, <1>6 DEF CountTo

LEMMA EndsFinite ==
    ASSUME NEW s \in Streams, NEW k \in 0..Len(s), NEW p \in Int, EndsOf[s][k] <= p
    PROVE  CountTo(s, p) \in Nat /\ CountTo(s, p) >= k + 1
<1> DEFINE E == {e \in EndsIn(s) : e <= p}
           D == {e \in EndsIn(s) : e <= EndsOf[s][k]}
           f == [j \in 0..Len(s) |-> EndsOf[s][j]]
<1>1. /\ Len(s) \in Nat
      /\ EndsIn(s) = {EndsOf[s][j] : j \in 0..Len(s)}
      /\ \A j \in 0..Len(s) : EndsOf[s][j] \in Nat
      /\ \A i, j \in 0..Len(s) : i < j => EndsOf[s][i] < EndsOf[s][j]
  BY StreamEnds
<1>2. IsFiniteSet(EndsIn(s))
  <2>1. f \in Surjection(0..Len(s), EndsIn(s)) BY <1>1 DEF Surjection
  <2>2. IsFiniteSet(0..Len(s)) BY <1>1, FS_Interval
  <2> HIDE DEF f
  <2> QED BY <2>1, <2>2, FS_Surjection
<1>3. IsFiniteSet(E) BY <1>2, FS_Subset
<1>4. D \in SUBSET E BY <1>1
<1>5. Cardinality(D) <= Cardinality(E) BY <1>3, <1>4, FS_Subset
<1>6. Cardinality(E) \in Nat BY <1>3, FS_CardinalityType
<1>7. Cardinality(D) = k + 1
  <2>1. EndsOf[s][k] \in Int /\ EndsOf[s][k] <= EndsOf[s][k] BY <1>1
  <2>2. k < Len(s) => k + 1 \in 0..Len(s) BY <1>1
  <2>3. k < Len(s) => EndsOf[s][k] < EndsOf[s][k + 1] BY <1>1, <2>2
  <2>4. CountTo(s, EndsOf[s][k]) = k + 1 BY <2>1, <2>3, EndsCounted
  <2> QED BY <2>4 DEF CountTo
<1> QED BY <1>5, <1>6, <1>7 DEF CountTo

-----------------------------------------------------------------------------
(* Timers *)

LEMMA Wraps ==
    ASSUME NEW c \in Nat \ {0}, NEW a \in Int, -c <= a, a < 2 * c
    PROVE  a % c = IF a < 0 THEN a + c ELSE IF a < c THEN a ELSE a - c
<1>1. a % c \in 0..(c - 1) /\ a = c * (a \div c) + (a % c) OBVIOUS
<1> DEFINE q == a \div c
           r == a % c
<1>2. q \in Int OBVIOUS
<1> HIDE DEF q, r
<1>3. q = 0 \/ q = 1 \/ q = -1 \/ q >= 2 \/ q <= -2 BY <1>2
<1>4. r \in 0..(c - 1) /\ a = c * q + r BY <1>1 DEF q, r
<1>5. CASE q = 0 BY <1>4, <1>5 DEF r
<1>6. CASE q = 1 BY <1>4, <1>6 DEF r
<1>7. CASE q = -1 BY <1>4, <1>7 DEF r
<1>8. CASE q >= 2
  <2>1. c * q >= c * 2 BY <1>2, <1>8
  <2> QED BY <1>2, <1>4, <2>1
<1>9. CASE q <= -2
  <2>1. c * q <= c * (-2) BY <1>2, <1>9
  <2> QED BY <1>2, <1>4, <2>1
<1> QED BY <1>3, <1>5, <1>6, <1>7, <1>8, <1>9

LEMMA ClockTypes ==
    ASSUME TypeOK
    PROVE  /\ start \in 0..(ClockSize - 1) /\ elapsed \in 0..Horizon
           /\ now = (IF start + elapsed < ClockSize THEN start + elapsed
                     ELSE start + elapsed - ClockSize)
           /\ end_time = (IF start + Timeout < ClockSize THEN start + Timeout
                          ELSE start + Timeout - ClockSize)
<1>1. start \in 0..(ClockSize - 1) /\ elapsed \in 0..Horizon
  <2>1. Starts \subseteq 0..(ClockSize - 1) BY PortsAssumption
  <2> QED BY <2>1 DEF TypeOK
<1>2. ClockSize \in Nat \ {0} /\ ClockSize > 2 * Horizon /\ Horizon \in Nat
      /\ Timeout \in Nat /\ Horizon > Timeout
  BY Numbers
<1> DEFINE a == start + elapsed
           b == start + Timeout
<1>3. /\ a \in Int /\ -ClockSize <= a /\ a < 2 * ClockSize /\ ~(a < 0)
      /\ b \in Int /\ -ClockSize <= b /\ b < 2 * ClockSize /\ ~(b < 0)
  BY <1>1, <1>2
<1>4. now = a % ClockSize /\ end_time = b % ClockSize BY DEF now, end_time
<1> HIDE DEF a, b
<1>5. a % ClockSize = IF a < 0 THEN a + ClockSize ELSE IF a < ClockSize THEN a ELSE a - ClockSize
  BY <1>2, <1>3, Wraps
<1>6. b % ClockSize = IF b < 0 THEN b + ClockSize ELSE IF b < ClockSize THEN b ELSE b - ClockSize
  BY <1>2, <1>3, Wraps
<1>7. now = IF a < ClockSize THEN a ELSE a - ClockSize BY <1>3, <1>4, <1>5
<1>8. end_time = IF b < ClockSize THEN b ELSE b - ClockSize BY <1>3, <1>4, <1>6
<1>9. now = IF start + elapsed < ClockSize THEN start + elapsed
            ELSE start + elapsed - ClockSize
  BY <1>1, <1>2, <1>7 DEF a
<1>10. end_time = IF start + Timeout < ClockSize THEN start + Timeout
                  ELSE start + Timeout - ClockSize
  BY <1>1, <1>2, <1>8 DEF b
<1> QED BY <1>1, <1>9, <1>10

\* The difference of two times on a clock that wraps is the time between them.
LEMMA LeftIsWhatIsLeft ==
    ASSUME TypeOK
    PROVE  Left = Timeout - elapsed
<1> DEFINE d == end_time - now
<1>1. /\ start \in 0..(ClockSize - 1) /\ elapsed \in 0..Horizon
      /\ now = (IF start + elapsed < ClockSize THEN start + elapsed
                ELSE start + elapsed - ClockSize)
      /\ end_time = (IF start + Timeout < ClockSize THEN start + Timeout
                     ELSE start + Timeout - ClockSize)
  BY ClockTypes
<1>2. ClockSize \in Nat \ {0} /\ ClockSize > 2 * Horizon /\ Horizon \in Nat
      /\ Timeout \in Nat /\ Horizon > Timeout
  BY Numbers
<1>3. d \in Int /\ -ClockSize <= d /\ d < 2 * ClockSize
      /\ d \in {Timeout - elapsed, Timeout - elapsed - ClockSize, Timeout - elapsed + ClockSize}
  BY <1>1, <1>2
<1> HIDE DEF d
<1>4. d % ClockSize = IF d < 0 THEN d + ClockSize ELSE IF d < ClockSize THEN d ELSE d - ClockSize
  BY <1>2, <1>3, Wraps
<1> DEFINE m == d % ClockSize
<1>5. m = IF Timeout - elapsed < 0 THEN Timeout - elapsed + ClockSize ELSE Timeout - elapsed
  <2>1. m \in 0..(ClockSize - 1) BY <1>2, <1>3
  <2> QED BY <1>1, <1>2, <1>3, <1>4, <2>1
<1> DEFINE h == ClockSize \div 2
<1>6. h \in Nat /\ 2 * h <= ClockSize /\ ClockSize <= 2 * h + 1 BY <1>2
<1> HIDE DEF m, h
<1>7. (IF m >= h THEN m - ClockSize ELSE m) = Timeout - elapsed BY <1>1, <1>2, <1>5, <1>6
<1> QED BY <1>7 DEF Left, d, m, h

\* A timer of any port has expired at its end or a tick later.
LEMMA ExpiresInTime ==
    ASSUME TypeOK, ClockFits
    PROVE  (expired => elapsed >= Timeout) /\ (elapsed > Timeout => expired)
<1>1. start \in 0..(ClockSize - 1) /\ elapsed \in 0..Horizon /\ Timeout \in Nat \ {0}
      /\ ClockSize \in Nat
  BY ClockTypes, Numbers
<1>2. CASE port = "arduino"
  <2>1. Max({Timeout, elapsed}) = IF Timeout >= elapsed THEN Timeout ELSE elapsed
    BY <1>1, MaxOfTwo
  <2>2. start + elapsed < ClockSize /\ start + Timeout < ClockSize
    BY <1>1, <1>2, <2>1 DEF ClockFits
  <2>3. now = start + elapsed /\ end_time = start + Timeout BY <2>2, ClockTypes
  <2>4. expired <=> CountdownExpired BY <1>2 DEF expired
  <2>5. CountdownExpired <=> elapsed >= Timeout BY <1>1, <2>3 DEF CountdownExpired
  <2> QED BY <1>1, <2>4, <2>5
<1>3. CASE port = "cc3200"
  <2>1. expired <=> Left < 0 BY <1>3 DEF expired
  <2> QED BY <1>1, <2>1, LeftIsWhatIsLeft
<1>4. CASE port \notin {"arduino", "cc3200"}
  <2>1. expired <=> elapsed >= Timeout BY <1>4 DEF expired, TimerIsExpired
  <2> QED BY <1>1, <2>1
<1> QED BY <1>2, <1>3, <1>4

-----------------------------------------------------------------------------
(***************************************************************************)
(* Where readPacket is: how far it is in packet k of the stream, and what  *)
(* it knows of it.                                                         *)
(***************************************************************************)
Reading == call.op = "read"
Length(k) == stream[k].length

BodyInv ==
    Reading =>
        /\ call.stage # "body" => body = <<>>
        /\ call.stage = "body" /\ port # "mbed" => Len(body) = call.bytes

AtStart ==
    /\ pos = last.pos
    /\ call.want = 1 /\ call.bytes = 0
    /\ call.digits = 0 /\ call.value = 0 /\ ~call.short

AtLength(k) ==
    /\ pos = last.pos + 1 + call.digits
    /\ call.want = 1 /\ call.bytes = 0 /\ ~call.short
    /\ call.digits < Len(Length(k))
    /\ call.value = Decoded(Length(k), call.digits)

AtBody(k) ==
    /\ pos = last.pos + 1 + call.digits + call.bytes
    /\ call.want = call.value /\ call.value > 0
    /\ call.value = Decoded(Length(k), call.digits)
    /\ call.digits <= Len(Length(k))
    /\ call.short <=> call.digits < Len(Length(k))
    /\ ~call.short /\ port # "mbed" =>
         \A i \in 1..call.bytes : body[i] = last.pos + 1 + call.digits + i

FrameInv ==
    /\ ~Reading => last.pos = pos
    /\ Reading =>
         /\ last.pos \in Ends
         /\ call.stage = "header" => AtStart
         /\ call.stage # "header" =>
              \E k \in 1..Len(stream) :
                /\ last.pos = EndOf(k - 1)
                /\ IF call.stage = "length" THEN AtLength(k) ELSE AtBody(k)

IntactInv ==
    ~Reading /\ last.rc = Type /\ ~last.short /\ port # "mbed" =>
        \E k \in DOMAIN stream :
            /\ EndOf(k) = last.pos
            /\ body = [i \in 1..stream[k].rem |-> last.pos - stream[k].rem + i]

PortsInv == TypeOK /\ BodyInv /\ FrameInv /\ IntactInv

-----------------------------------------------------------------------------
(* The length of a packet *)

LEMMA Multipliers ==
    /\ \A n \in 0..4 : Multiplier(n) \in Nat \ {0}
    /\ Multiplier(0) = 1
<1>1. Base \in Nat \ {0} BY Numbers
<1>2. Multiplier(0) = 1 /\ Multiplier(1) = Base /\ Multiplier(2) = Base * Base
      /\ Multiplier(3) = (Base * Base) * Base /\ Multiplier(4) = ((Base * Base) * Base) * Base
  BY DEF Multiplier
<1>3. \A x, y \in Nat \ {0} : x * y \in Nat \ {0} OBVIOUS
<1>4. Base * Base \in Nat \ {0} BY <1>1, <1>3
<1>5. (Base * Base) * Base \in Nat \ {0} BY <1>1, <1>3, <1>4
<1>6. ((Base * Base) * Base) * Base \in Nat \ {0} BY <1>1, <1>3, <1>5
<1> QED BY <1>1, <1>2, <1>4, <1>5, <1>6

LEMMA DecodedStep ==
    ASSUME NEW l, NEW n \in 0..3, \A i \in 1..4 : i <= n + 1 => l[i] \in Nat
    PROVE  /\ Decoded(l, 0) = 0
           /\ Decoded(l, n) \in Nat
           /\ (l[n + 1] % Base) * Multiplier(n) \in Nat
           /\ Decoded(l, n + 1) = Decoded(l, n) + (l[n + 1] % Base) * Multiplier(n)
           /\ Decoded(l, n + 1) \in Nat
<1> DEFINE d(i) == (l[i] % Base) * Multiplier(i - 1)
<1>1. ASSUME NEW i \in 1..4, i <= n + 1 PROVE d(i) \in Nat
  <2>1. l[i] \in Nat /\ Base \in Nat \ {0} BY <1>1, Numbers
  <2>2. l[i] % Base \in Nat BY <2>1
  <2>3. Multiplier(i - 1) \in Nat BY Multipliers
  <2>4. \A x, y \in Nat : x * y \in Nat OBVIOUS
  <2> QED BY <2>2, <2>3, <2>4
<1>2. /\ Decoded(l, 0) = 0 /\ Decoded(l, 1) = d(1) /\ Decoded(l, 2) = d(1) + d(2)
      /\ Decoded(l, 3) = d(1) + d(2) + d(3) /\ Decoded(l, 4) = d(1) + d(2) + d(3) + d(4)
  BY DEF Decoded
<1>3. d(n + 1) = (l[n + 1] % Base) * Multiplier(n)
  <2>1. (n + 1) - 1 = n OBVIOUS
  <2> QED BY <2>1
<1> HIDE DEF d
<1>4. n = 0 \/ n = 1 \/ n = 2 \/ n = 3 OBVIOUS
<1>5. Decoded(l, n + 1) = Decoded(l, n) + d(n + 1) /\ Decoded(l, n) \in Nat /\ d(n + 1) \in Nat
  <2>1. CASE n = 0 BY <1>1, <1>2, <2>1
  <2>2. CASE n = 1 BY <1>1, <1>2, <2>2
  <2>3. CASE n = 2 BY <1>1, <1>2, <2>3
  <2>4. CASE n = 3 BY <1>1, <1>2, <2>4
  <2> QED BY <1>4, <2>1, <2>2, <2>3, <2>4
<1>6. Decoded(l, n + 1) \in Nat BY <1>5
<1> QED BY <1>2, <1>3, <1>5, <1>6

\* The part of a length that was read is no larger than the whole.
LEMMA DecodedGrows ==
    ASSUME NEW l, NEW m \in 0..4, NEW n \in 0..4, n <= m,
           \A i \in 1..4 : i <= m => l[i] \in Nat
    PROVE  Decoded(l, n) \in Nat /\ Decoded(l, m) \in Nat /\ Decoded(l, n) <= Decoded(l, m)
<1>0. Decoded(l, 0) = 0 BY DEF Decoded
<1>1. ASSUME NEW k \in 0..3, k < m
      PROVE  /\ Decoded(l, k) \in Nat
             /\ Decoded(l, k + 1) \in Nat
             /\ Decoded(l, k) <= Decoded(l, k + 1)
  <2>1. \A i \in 1..4 : i <= k + 1 => l[i] \in Nat BY <1>1
  <2>2. /\ Decoded(l, k) \in Nat /\ (l[k + 1] % Base) * Multiplier(k) \in Nat
        /\ Decoded(l, k + 1) = Decoded(l, k) + (l[k + 1] % Base) * Multiplier(k)
        /\ Decoded(l, k + 1) \in Nat
    BY <2>1, DecodedStep
  <2> QED BY <2>2
<1>2. 0 < m => Decoded(l, 0) \in Nat /\ Decoded(l, 1) \in Nat /\ Decoded(l, 0) <= Decoded(l, 1)
  BY <1>1
<1>3. 1 < m => Decoded(l, 1) \in Nat /\ Decoded(l, 2) \in Nat /\ Decoded(l, 1) <= Decoded(l, 2)
  BY <1>1
<1>4. 2 < m => Decoded(l, 2) \in Nat /\ Decoded(l, 3) \in Nat /\ Decoded(l, 2) <= Decoded(l, 3)
  BY <1>1
<1>5. 3 < m => Decoded(l, 3) \in Nat /\ Decoded(l, 4) \in Nat /\ Decoded(l, 3) <= Decoded(l, 4)
  BY <1>1
<1>6. m \in {0, 1, 2, 3, 4} /\ n \in {0, 1, 2, 3, 4} OBVIOUS
<1> QED BY <1>0, <1>2, <1>3, <1>4, <1>5, <1>6

\* a length needs at least one byte, and that of 0 only one
LEMMA LengthBytesOfZero == LengthBytes(0) = 1
<1> DEFINE D == {d \in 1..4 : 0 < Multiplier(d)}
<1>1. 1 \in D /\ \A d \in D : 1 <= d
  <2>1. Multiplier(1) \in Nat \ {0} BY Multipliers
  <2> QED BY <2>1
<1>2. \A x \in D : (\A y \in D : x <= y) => x = 1 BY <1>1
<1> HIDE DEF D
<1>3. Min(D) = 1 BY <1>1, <1>2 DEF Min
<1> QED BY <1>3 DEF D, LengthBytes

-----------------------------------------------------------------------------
(***************************************************************************)
(* readPacket, once a read has returned r with the stream read up to p and *)
(* the body b in the buffer.                                               *)
(***************************************************************************)
ReadOne(c, r, p, q) == \/ r = 1 /\ p = q + 1
                       \/ r \in {0, -1} /\ p = q

HeaderReceived(c, r, p, b) ==
    /\ c.want = 1 /\ c.digits = 0 /\ c.value = 0 /\ ~c.short /\ b = << >>
    /\ ReadOne(c, r, p, last.pos)
    /\ r = 1 => \E k \in 1..Len(stream) : last.pos = EndOf(k - 1)

LengthReceived(c, r, p, b, k) ==
    /\ last.pos = EndOf(k - 1)
    /\ c.want = 1 /\ ~c.short /\ b = << >>
    /\ c.digits < Len(Length(k))
    /\ c.value = Decoded(Length(k), c.digits)
    /\ ReadOne(c, r, p, last.pos + 1 + c.digits)

BodyReceived(c, r, p, b, k) ==
    /\ last.pos = EndOf(k - 1)
    /\ p = last.pos + 1 + c.digits + c.bytes
    /\ c.want = c.value /\ c.value > 0
    /\ c.value = Decoded(Length(k), c.digits)
    /\ c.digits <= Len(Length(k))
    /\ c.short <=> c.digits < Len(Length(k))
    /\ ~c.short /\ port # "mbed" =>
         Len(b) = c.bytes /\ \A i \in 1..c.bytes : b[i] = last.pos + 1 + c.digits + i
    /\ r \in {c.bytes, 0, -1} /\ (c.bytes < c.want \/ r = c.bytes)
    /\ port # "mbed" => c.bytes <= c.want

Received(c, r, p, b) ==
    /\ last.pos \in Ends
    /\ c.stage = "header" => HeaderReceived(c, r, p, b)
    /\ c.stage = "length" => \E k \in 1..Len(stream) : LengthReceived(c, r, p, b, k)
    /\ c.stage = "body" => \E k \in 1..Len(stream) : BodyReceived(c, r, p, b, k)

LastType == [rc : {Type, 1, SUCCESS, FAILURE, BUFFER_OVERFLOW}, short : BOOLEAN, pos : Nat]

\* The call of readPacket goes on, or what it returned.
Goes == last' = last
ReturnsNothing == last'.pos = last.pos /\ last'.short /\ last'.rc \in {0, -1}
ReturnsPacket(k) == last'.pos = EndOf(k) /\ ~last'.short /\ last'.rc = Type
ReturnsPart(k) ==
    /\ last.pos < last'.pos /\ last'.pos < EndOf(k)
    /\ last'.rc = BUFFER_OVERFLOW \/ (last'.short /\ last'.rc \in {Type, 0, 1})
ReturnsMore(k) ==
    port = "mbed" /\ last'.pos >= EndOf(k) /\ last'.short /\ last'.rc \in {0, 1}

ReadOutcome ==
    \/ Goes
    \/ ReturnsNothing
    \/ \E k \in 1..Len(stream) :
         last.pos = EndOf(k - 1) /\ (ReturnsPacket(k) \/ ReturnsPart(k) \/ ReturnsMore(k))

ReadResult ==
    /\ call' \in {Idle} \cup ReadCall
    /\ call'.op = "read" => call'.bytes < call'.want
    /\ last' \in LastType
    /\ ReadOutcome
    /\ BodyInv' /\ FrameInv' /\ IntactInv'

Unread == UNCHANGED <<port, stream>>

\* Packet k of the stream and where it is.
LEMMA InStream ==
    ASSUME stream \in Streams, NEW k \in 1..Len(stream)
    PROVE  /\ Length(k) \in Seq(Nat) /\ Len(Length(k)) \in 1..4 /\ stream[k].rem \in Nat
           /\ stream[k].rem = Decoded(Length(k), Len(Length(k)))
           /\ \A i \in 1..Len(Length(k)) : Length(k)[i] >= Base <=> i < Len(Length(k))
           /\ \A i \in 1..Len(Length(k)) : bytes[EndOf(k - 1) + 1 + i] = Length(k)[i]
           /\ EndOf(k - 1) \in Nat /\ EndOf(k) \in Nat
           /\ EndOf(k) = EndOf(k - 1) + 1 + Len(Length(k)) + stream[k].rem
           /\ k \in DOMAIN stream
<1>1. Len(stream) \in Nat BY StreamEnds
<1>2. k - 1 \in 0..Len(stream) /\ k \in 0..Len(stream) BY <1>1
<1>3. EndOf(k - 1) \in Nat /\ EndOf(k) \in Nat BY <1>2, StreamEnds DEF EndOf
<1>4. /\ EndOf(k) = EndOf(k - 1) + 1 + Len(Length(k)) + stream[k].rem
      /\ \A i \in 1..Len(Length(k)) : bytes[EndOf(k - 1) + 1 + i] = Length(k)[i]
  BY StreamEnds DEF EndOf, bytes, Length
<1>5. /\ Length(k) \in Seq(Nat) /\ Len(Length(k)) \in 1..4 /\ stream[k].rem \in Nat
      /\ IsPacket(stream[k])
  BY PacketFacts DEF Length
<1>6. /\ stream[k].rem = Decoded(Length(k), Len(Length(k)))
      /\ \A i \in 1..Len(Length(k)) : Length(k)[i] >= Base <=> i < Len(Length(k))
  BY <1>5 DEF IsPacket, Length
<1>7. k \in DOMAIN stream
  <2>1. stream \in Seq([length : Seq(0..(2 * Base - 1)), rem : Nat]) BY PortsAssumption
  <2> QED BY <2>1
<1> QED BY <1>3, <1>4, <1>5, <1>6, <1>7

\* What has been read of a length is no more than the length, and makes a place in the packet.
LEMMA InLength ==
    ASSUME stream \in Streams, NEW k \in 1..Len(stream), NEW d \in 0..4, d <= Len(Length(k))
    PROVE  /\ Decoded(Length(k), d) \in Nat /\ Decoded(Length(k), d) <= stream[k].rem
           /\ Decoded(Length(k), 0) = 0
           /\ d < Len(Length(k)) =>
                /\ d + 1 \in 1..4
                /\ Length(k)[d + 1] \in Nat
                /\ Decoded(Length(k), d + 1)
                     = Decoded(Length(k), d) + (Length(k)[d + 1] % Base) * Multiplier(d)
                /\ Decoded(Length(k), d + 1) \in Nat
<1> DEFINE l == Length(k)
           n == Len(l)
<1>1. l \in Seq(Nat) /\ n \in 1..4 /\ stream[k].rem = Decoded(l, n) BY InStream
<1>2. \A i \in 1..4 : i <= n => l[i] \in Nat BY <1>1
<1> HIDE DEF l, n
<1>3. n \in 0..4 /\ d <= n BY <1>1 DEF n, l
<1>4. Decoded(l, d) \in Nat /\ Decoded(l, d) <= Decoded(l, n) BY <1>2, <1>3, DecodedGrows
<1>5. Decoded(l, 0) = 0 BY DEF Decoded
<1>6. ASSUME d < n
      PROVE  /\ d + 1 \in 1..4 /\ l[d + 1] \in Nat
             /\ Decoded(l, d + 1) = Decoded(l, d) + (l[d + 1] % Base) * Multiplier(d)
             /\ Decoded(l, d + 1) \in Nat
  <2>1. d \in 0..3 /\ d + 1 \in 1..4 /\ d + 1 <= n BY <1>1, <1>6
  <2>2. \A i \in 1..4 : i <= d + 1 => l[i] \in Nat
    <3>1. n \in Int /\ d \in Int BY <1>1 DEF n, l
    <3>2. \A i \in 1..4 : i <= d + 1 => i <= n BY <2>1, <3>1
    <3> QED BY <1>2, <3>2
  <2>3. l[d + 1] \in Nat
    <3>1. d + 1 <= d + 1 BY <2>1
    <3> QED BY <2>1, <2>2, <3>1
  <2>4. /\ Decoded(l, d + 1) = Decoded(l, d) + (l[d + 1] % Base) * Multiplier(d)
        /\ Decoded(l, d + 1) \in Nat
    BY <2>1, <2>2, DecodedStep
  <2> QED BY <2>1, <2>3, <2>4
<1>7. Decoded(l, d) <= stream[k].rem BY <1>1, <1>4 DEF l, n
<1> QED BY <1>4, <1>5, <1>6, <1>7 DEF l, n

\* Another read is asked for.
LEMMA Asked ==
    ASSUME NEW c \in ReadCall, NEW stage \in {"header", "length", "body"}, NEW want \in Nat \ {0},
           NEW timeout \in Int, Asks(c, stage, want, timeout)
    PROVE  /\ call' \in ReadCall /\ call'.op = "read" /\ call'.stage = stage
           /\ call'.want = want /\ call'.bytes = 0 /\ call'.bytes < call'.want
           /\ call'.timeout = timeout /\ call'.waited = 0
           /\ call'.digits = c.digits /\ call'.value = c.value /\ call'.short = c.short
<1>1. call' = [c EXCEPT !.stage = stage, !.want = want, !.timeout = timeout,
                        !.bytes = 0, !.tries = 0, !.waited = 0]
  BY DEF Asks
<1>2. 0 \in 0..Timeout BY Numbers
<1>3. call' \in ReadCall BY <1>1, <1>2 DEF ReadCall
<1>4. /\ call'.op = "read" /\ call'.stage = stage /\ call'.want = want /\ call'.bytes = 0
      /\ call'.timeout = timeout /\ call'.waited = 0
      /\ call'.digits = c.digits /\ call'.value = c.value /\ call'.short = c.short
  BY <1>1 DEF ReadCall
<1>5. 0 < want OBVIOUS
<1> QED BY <1>3, <1>4, <1>5

LEMMA LeftIsInt == ASSUME TypeOK PROVE left_ms \in Int
<1>1. Timeout \in Nat /\ elapsed \in 0..Horizon BY Numbers DEF TypeOK
<1>2. Max({0, Timeout - elapsed}) \in Int
  <2>1. 0 \in Int /\ Timeout - elapsed \in Int BY <1>1
  <2> QED BY <2>1, MaxOfTwo
<1> QED BY <1>1, <1>2 DEF left_ms, TimerLeftMS

\* readPacket returns with the stream read up to pos'.
LEMMA Returned ==
    ASSUME NEW rc \in {Type, 1, SUCCESS, FAILURE, BUFFER_OVERFLOW}, NEW short \in BOOLEAN,
           ReadEnds(rc, short, pos'), pos' \in Nat
    PROVE  /\ call' \in {Idle} \cup ReadCall /\ call'.op # "read"
           /\ last' \in LastType
           /\ last'.rc = rc /\ last'.short = short /\ last'.pos = pos'
           /\ BodyInv' /\ FrameInv'
           /\ rc # Type \/ short \/ port' = "mbed" => IntactInv'
<1>1. call' = Idle /\ last' = [rc |-> rc, short |-> short, pos |-> pos'] BY DEF ReadEnds
<1>2. last'.rc = rc /\ last'.short = short /\ last'.pos = pos' BY <1>1
<1>3. last' \in LastType BY <1>1 DEF LastType
<1>4. call'.op # "read" BY <1>1 DEF Idle
<1>5. ~Reading' BY <1>4 DEF Reading
<1>6. BodyInv' /\ FrameInv' BY <1>2, <1>5 DEF BodyInv, FrameInv
<1>7. rc # Type \/ short \/ port' = "mbed" => IntactInv' BY <1>2 DEF IntactInv
<1> QED BY <1>1, <1>2, <1>3, <1>4, <1>6, <1>7

LEMMA HeaderStep ==
    ASSUME TypeOK, NEW c \in ReadCall, c.stage = "header", NEW r \in Int, NEW p \in Nat, NEW b,
           last.pos \in Ends, HeaderReceived(c, r, p, b), readPacket(c, r, p),
           pos' = p, body' = b, Unread
    PROVE  ReadResult
<1> DEFINE d == [c EXCEPT !.short = @ \/ r # c.want]
<1>1. d \in ReadCall /\ d.op = "read" /\ d.stage = "header"
      /\ d.digits = 0 /\ d.value = 0 /\ (d.short <=> r # 1) /\ d.short \in BOOLEAN
  BY DEF ReadCall, HeaderReceived
<1>2. last.pos \in Nat BY DEF TypeOK
<1>3. CASE r = 1
  <2>1. Asks(d, "length", 1, left_ms) /\ last' = last BY <1>1, <1>3 DEF readPacket
  <2>2. PICK k \in 1..Len(stream) : last.pos = EndOf(k - 1) BY <1>3 DEF HeaderReceived
  <2>3. p = last.pos + 1 BY <1>3 DEF HeaderReceived, ReadOne
  <2> HIDE DEF d
  <2>4. /\ call' \in ReadCall /\ call'.op = "read" /\ call'.stage = "length" /\ call'.want = 1
        /\ call'.bytes = 0 /\ call'.bytes < call'.want
        /\ ~call'.short /\ call'.digits = 0 /\ call'.value = 0
    BY <1>1, <1>3, <2>1, LeftIsInt, Asked
  <2>5. Len(Length(k)) \in 1..4 /\ Decoded(Length(k), 0) = 0
    BY InStream DEF TypeOK, Decoded
  <2>6. AtLength(k)'
    <3>1. pos' = last'.pos + 1 + call'.digits
      <4>1. pos' = last.pos + 1 /\ last'.pos = last.pos /\ call'.digits = 0 BY <2>1, <2>3, <2>4
      <4> QED BY <1>2, <4>1
    <3>2. Length(k)' = Length(k) BY DEF Length, Unread
    <3>3. call'.digits < Len(Length(k)')
      <4> DEFINE n == Len(Length(k))
      <4>1. n \in 1..4 BY <2>5
      <4>2. Len(Length(k)') = n BY <3>2
      <4> HIDE DEF n
      <4>3. 0 < n BY <4>1
      <4> QED BY <2>4, <4>2, <4>3
    <3>4. call'.value = Decoded(Length(k)', call'.digits)
      <4>1. call'.value = Decoded(Length(k), 0) BY <2>4, <2>5
      <4> QED BY <2>4, <3>2, <4>1
    <3> QED BY <2>4, <3>1, <3>3, <3>4 DEF AtLength
  <2>7. FrameInv'
    BY <2>1, <2>2, <2>4, <2>6 DEF FrameInv, Reading, Ends, EndOf, Unread
  <2>8. BodyInv' /\ IntactInv' BY <2>4 DEF BodyInv, IntactInv, Reading, HeaderReceived
  <2>9. last' \in LastType BY <2>1 DEF TypeOK, LastType
  <2> QED BY <2>1, <2>4, <2>7, <2>8, <2>9 DEF ReadResult, ReadOutcome, Goes
<1>4. CASE r # 1
  <2>1. ReadEnds(r, d.short, pos') BY <1>1, <1>4 DEF readPacket
  <2>2. r \in {0, -1} /\ p = last.pos BY <1>4 DEF HeaderReceived, ReadOne
  <2> HIDE DEF d
  <2>3. r \in {Type, 1, SUCCESS, FAILURE, BUFFER_OVERFLOW} /\ r # Type
    BY <2>2 DEF SUCCESS, FAILURE, Type
  <2>4. /\ call' \in {Idle} \cup ReadCall /\ call'.op # "read" /\ last' \in LastType
        /\ last'.rc = r /\ last'.short /\ last'.pos = p
        /\ BodyInv' /\ FrameInv' /\ IntactInv'
    BY <1>1, <1>4, <2>1, <2>3, Returned
  <2> QED BY <2>2, <2>4 DEF ReadResult, ReadOutcome, ReturnsNothing
<1> QED BY <1>3, <1>4

\* decodePacket has returned, with the whole length or a part of it.
LEMMA LengthReadStep ==
    ASSUME TypeOK, NEW c \in ReadCall, NEW p \in Nat, NEW k \in 1..Len(stream),
           last.pos \in Ends, last.pos = EndOf(k - 1),
           c.digits <= Len(Length(k)), c.value = Decoded(Length(k), c.digits),
           c.short <=> c.digits < Len(Length(k)),
           p = last.pos + 1 + c.digits,
           LengthRead(c, p), pos' = p, body' = << >>, Unread
    PROVE  ReadResult
<1> DEFINE L == Len(Length(k))
           D == c.digits
           v == c.value
           m == stream[k].rem
           e == EndOf(k)
           q == last.pos
<1>1. L \in 1..4 /\ D \in 0..4 /\ D <= L /\ q \in Nat /\ e = q + 1 + L + m /\ p = q + 1 + D
      /\ v \in Nat /\ m \in Nat /\ v <= m /\ (D = L => v = m) /\ (c.short <=> D < L)
      /\ c.short \in BOOLEAN
  <2>1. stream \in Streams BY DEF TypeOK
  <2>2. /\ L \in 1..4 /\ m \in Nat /\ m = Decoded(Length(k), L)
        /\ EndOf(k - 1) \in Nat /\ e = EndOf(k - 1) + 1 + L + m
    BY <2>1, InStream
  <2>3. D \in 0..4 /\ v \in Nat /\ c.short \in BOOLEAN BY DEF ReadCall
  <2>4. v <= m BY <2>1, <2>3, InLength
  <2> QED BY <2>2, <2>3, <2>4
<1>2. pos' \in Nat OBVIOUS
<1> HIDE DEF L, D, v, m, e, q
<1>3. CASE v > MAX_MQTT_PACKET_SIZE - (1 + LengthBytes(v))
  <2>1. v # 0
    <3>1. SUFFICES ASSUME v = 0 PROVE FALSE OBVIOUS
    <3>2. LengthBytes(v) = 1 /\ MAX_MQTT_PACKET_SIZE \in Nat \ {0, 1}
      BY <3>1, LengthBytesOfZero, PortsAssumption
    <3> QED BY <1>3, <3>1, <3>2
  <2>2. q < p /\ p < e BY <1>1, <2>1
  <2>3. ReadEnds(BUFFER_OVERFLOW, c.short, pos') BY <1>3 DEF LengthRead, v
  <2>4. /\ call' \in {Idle} \cup ReadCall /\ call'.op # "read" /\ last' \in LastType
        /\ last'.rc = BUFFER_OVERFLOW /\ last'.pos = p
        /\ BodyInv' /\ FrameInv' /\ IntactInv'
    BY <1>1, <1>2, <2>3, Returned DEF BUFFER_OVERFLOW, Type
  <2>5. ReturnsPart(k) BY <2>2, <2>4 DEF ReturnsPart, q, e
  <2> QED BY <2>4, <2>5 DEF ReadResult, ReadOutcome
<1>4. CASE ~(v > MAX_MQTT_PACKET_SIZE - (1 + LengthBytes(v))) /\ v = 0
  <2>1. ReadEnds(Type, c.short, pos') BY <1>4 DEF LengthRead, v
  <2>2. /\ call' \in {Idle} \cup ReadCall /\ call'.op # "read" /\ last' \in LastType
        /\ last'.rc = Type /\ last'.short = c.short /\ last'.pos = p
        /\ BodyInv' /\ FrameInv' /\ (c.short => IntactInv')
    BY <1>1, <1>2, <2>1, Returned
  <2>3. CASE D = L
    <3>1. m = 0 /\ ~c.short /\ p = e BY <1>1, <1>4, <2>3
    <3>2. ReturnsPacket(k) BY <2>2, <3>1 DEF ReturnsPacket, e
    <3>3. IntactInv'
      <4>1. k \in DOMAIN stream BY InStream DEF TypeOK
      <4>2. stream'[k].rem = 0 BY <3>1 DEF Unread, m
      <4>3. EndOf(k)' = last'.pos BY <2>2, <3>1 DEF e, EndOf, Unread
      <4>4. body' = [i \in 1..0 |-> last'.pos - 0 + i] BY SMT
      <4>5. \A n : n = 0 => body' = [i \in 1..n |-> last'.pos - n + i] BY <4>4
      <4>6. body' = [i \in 1..stream'[k].rem |-> last'.pos - stream'[k].rem + i] BY <4>2, <4>5
      <4> QED BY <4>1, <4>3, <4>6 DEF IntactInv, Unread
    <3> QED BY <2>2, <3>2, <3>3 DEF ReadResult, ReadOutcome
  <2>4. CASE D # L
    <3>1. c.short /\ q < p /\ p < e BY <1>1, <2>4
    <3>2. ReturnsPart(k) BY <2>2, <3>1 DEF ReturnsPart, q, e
    <3> QED BY <2>2, <3>1, <3>2 DEF ReadResult, ReadOutcome
  <2> QED BY <2>3, <2>4
<1>5. CASE ~(v > MAX_MQTT_PACKET_SIZE - (1 + LengthBytes(v))) /\ v # 0
  <2>1. Asks(c, "body", v, left_ms) /\ last' = last BY <1>5 DEF LengthRead, v
  <2>2. v \in Nat \ {0} /\ left_ms \in Int BY <1>1, <1>5, LeftIsInt
  <2>3. /\ call' \in ReadCall /\ call'.op = "read" /\ call'.stage = "body"
        /\ call'.want = v /\ call'.bytes = 0 /\ call'.bytes < call'.want
        /\ call'.digits = D /\ call'.value = v /\ call'.short = c.short
    BY <2>1, <2>2, Asked DEF D, v
  <2>4. Length(k)' = Length(k) BY DEF Length, Unread
  <2>5. AtBody(k)'
    <3>1. pos' = last'.pos + 1 + call'.digits + call'.bytes
      <4>1. pos' = q + 1 + D /\ last'.pos = q BY <1>1, <2>1 DEF q
      <4> QED BY <1>1, <2>3, <4>1
    <3>2. call'.want = call'.value /\ call'.value > 0 BY <2>2, <2>3
    <3>3. call'.value = Decoded(Length(k)', call'.digits) BY <2>3, <2>4 DEF D, v
    <3>4. /\ call'.digits <= Len(Length(k)')
          /\ call'.short <=> call'.digits < Len(Length(k)')
      BY <1>1, <2>3, <2>4 DEF L
    <3>5. \A i \in 1..call'.bytes : body'[i] = last'.pos + 1 + call'.digits + i BY <2>3
    <3> QED BY <3>1, <3>2, <3>3, <3>4, <3>5 DEF AtBody
  <2>6. FrameInv'
    <3>1. last'.pos \in Ends' BY <2>1 DEF Ends, Unread
    <3>2. k \in 1..Len(stream') /\ last'.pos = EndOf(k - 1)' BY <2>1 DEF EndOf, Unread
    <3> QED BY <2>3, <2>5, <3>1, <3>2 DEF FrameInv, Reading
  <2>7. BodyInv' /\ IntactInv' BY <2>3 DEF BodyInv, IntactInv, Reading
  <2>8. last' \in LastType BY <2>1 DEF TypeOK, LastType
  <2> QED BY <2>1, <2>3, <2>6, <2>7, <2>8 DEF ReadResult, ReadOutcome, Goes
<1> QED BY <1>3, <1>4, <1>5

LEMMA LengthStep ==
    ASSUME TypeOK, NEW c \in ReadCall, c.stage = "length", NEW r \in Int, NEW p \in Nat, NEW b,
           NEW k \in 1..Len(stream), last.pos \in Ends,
           LengthReceived(c, r, p, b, k), readPacket(c, r, p), pos' = p, body' = b, Unread
    PROVE  ReadResult
<1> DEFINE l == Length(k)
           L == Len(l)
           D == c.digits
           d == [c EXCEPT !.short = @ \/ r # c.want]
           x == bytes[p]
           g == Digit(d, x)
<1>1. /\ L \in 1..4 /\ D \in 0..4 /\ D < L /\ last.pos \in Nat
      /\ \A i \in 1..L : l[i] >= Base <=> i < L
      /\ \A i \in 1..L : bytes[last.pos + 1 + i] = l[i]
  <2>1. stream \in Streams BY DEF TypeOK
  <2>2. last.pos = EndOf(k - 1) /\ D < L BY DEF LengthReceived
  <2>3. D \in 0..4 BY DEF ReadCall
  <2> QED BY <2>1, <2>2, <2>3, InStream
<1>2. d \in ReadCall /\ d.digits = D /\ d.value = c.value /\ d.timeout = c.timeout
      /\ d.stage = "length" /\ (d.short <=> r # 1)
  BY DEF ReadCall, LengthReceived
<1>3. decodePacket(d, r, p) BY <1>2 DEF readPacket
<1>4. b = << >> /\ last.pos = EndOf(k - 1) /\ c.value = Decoded(l, D)
      /\ ReadOne(c, r, p, last.pos + 1 + D)
  BY DEF LengthReceived
<1>5. CASE r # 1
  <2>1. LengthRead(d, p) BY <1>3, <1>5 DEF decodePacket
  <2>2. p = last.pos + 1 + D BY <1>4, <1>5 DEF ReadOne
  <2> HIDE DEF d
  <2>3. d.digits <= L /\ (d.short <=> d.digits < L) /\ d.value = Decoded(l, d.digits)
        /\ p = last.pos + 1 + d.digits
    <3> HIDE DEF L, D, l
    <3>1. d.digits <= L /\ d.digits < L BY <1>1, <1>2
    <3> QED BY <1>2, <1>4, <1>5, <2>2, <3>1
  <2> QED BY <1>2, <1>4, <2>1, <2>3, LengthReadStep
<1>6. CASE r = 1
  <2>1. p = last.pos + 1 + (D + 1) /\ p \in Nat BY <1>1, <1>4, <1>6 DEF ReadOne
  <2>2. D + 1 \in 1..L /\ D + 1 \in 1..4
    <3> HIDE DEF L, D
    <3> QED BY <1>1
  <2>3. x = l[D + 1] /\ (x >= Base <=> D + 1 < L) BY <1>1, <2>1, <2>2
  <2>4. /\ Decoded(l, D + 1) = Decoded(l, D) + (l[D + 1] % Base) * Multiplier(D)
        /\ Decoded(l, D + 1) \in Nat
    <3>1. stream \in Streams BY DEF TypeOK
    <3>2. D <= L
      <4> HIDE DEF L, D
      <4> QED BY <1>1
    <3> QED BY <1>1, <3>1, <3>2, InLength
  <2>5. g = [d EXCEPT !.digits = D + 1, !.value = Decoded(l, D + 1)]
    <3>1. g = [d EXCEPT !.digits = d.digits + 1,
                        !.value = d.value + (x % Base) * Multiplier(d.digits)]
      BY <1>2 DEF Digit, ReadCall
    <3> HIDE DEF d, x, g
    <3> QED BY <1>2, <1>4, <2>3, <2>4, <3>1
  <2> HIDE DEF d, g
  <2>6. /\ g \in ReadCall /\ g.digits = D + 1 /\ g.value = Decoded(l, D + 1) /\ ~g.short
    <3>1. D + 1 \in 0..4 BY <2>2
    <3> QED BY <1>2, <1>6, <2>4, <2>5, <3>1 DEF ReadCall
  <2>7. IF x >= Base /\ g.digits < 4
          THEN Asks(g, "length", 1, d.timeout) /\ UNCHANGED last
          ELSE LengthRead(g, p)
    BY <1>3, <1>6 DEF decodePacket, g
  <2>8. CASE x >= Base /\ g.digits < 4
    <3>1. Asks(g, "length", 1, c.timeout) /\ last' = last BY <1>2, <2>7, <2>8
    <3>2. c.timeout \in Int BY DEF ReadCall
    <3>3. /\ call' \in ReadCall /\ call'.op = "read" /\ call'.stage = "length"
          /\ call'.want = 1 /\ call'.bytes = 0 /\ call'.bytes < call'.want
          /\ call'.digits = D + 1 /\ call'.value = Decoded(l, D + 1) /\ ~call'.short
      BY <2>6, <3>1, <3>2, Asked
    <3>4. Length(k)' = l BY DEF Length, Unread
    <3>5. AtLength(k)'
      <4>1. pos' = last'.pos + 1 + call'.digits BY <2>1, <3>1, <3>3
      <4>2. call'.digits < Len(Length(k)') BY <2>3, <2>8, <3>3, <3>4
      <4>3. call'.value = Decoded(Length(k)', call'.digits) BY <3>3, <3>4
      <4> QED BY <3>3, <4>1, <4>2, <4>3 DEF AtLength
    <3>6. FrameInv'
      <4>1. last'.pos \in Ends' BY <3>1 DEF Ends, Unread
      <4>2. k \in 1..Len(stream') /\ last'.pos = EndOf(k - 1)' BY <1>4, <3>1 DEF EndOf, Unread
      <4> QED BY <3>3, <3>5, <4>1, <4>2 DEF FrameInv, Reading
    <3>7. BodyInv' /\ IntactInv' BY <1>4, <3>3 DEF BodyInv, IntactInv, Reading
    <3>8. last' \in LastType BY <3>1 DEF TypeOK, LastType
    <3> QED BY <3>1, <3>3, <3>6, <3>7, <3>8 DEF ReadResult, ReadOutcome, Goes
  <2>9. CASE ~(x >= Base /\ g.digits < 4)
    <3>1. LengthRead(g, p) BY <2>7, <2>9
    <3>2. D + 1 = L
      <4>1. ~(D + 1 < L) \/ ~(D + 1 < 4) BY <2>3, <2>6, <2>9
      <4> HIDE DEF D, L
      <4> QED BY <1>1, <2>2, <4>1
    <3>3. /\ g.digits <= Len(Length(k)) /\ (g.short <=> g.digits < Len(Length(k)))
          /\ p = last.pos + 1 + g.digits
      <4> HIDE DEF D, L
      <4>1. g.digits = L BY <2>6, <3>2
      <4>2. g.digits <= L /\ ~(g.digits < L) BY <1>1, <4>1
      <4> QED BY <2>1, <2>6, <4>2 DEF L
    <3> QED BY <1>4, <2>6, <3>1, <3>3, LengthReadStep
  <2> QED BY <2>8, <2>9
<1> QED BY <1>5, <1>6

LEMMA BodyStep ==
    ASSUME TypeOK, NEW c \in ReadCall, c.stage = "body", NEW r \in Int, NEW p \in Nat, NEW b,
           NEW k \in 1..Len(stream), last.pos \in Ends,
           BodyReceived(c, r, p, b, k), b \in Seq(Nat),
           readPacket(c, r, p), pos' = p, body' = b, Unread
    PROVE  ReadResult
<1> DEFINE L == Len(Length(k))
           D == c.digits
           n == c.bytes
           v == c.value
           m == stream[k].rem
           e == EndOf(k)
           q == last.pos
           short == c.short \/ r # c.want
           rc == IF r = c.want THEN Type ELSE BodyShort
<1>1. /\ L \in 1..4 /\ D \in 0..4 /\ D <= L /\ q \in Nat /\ e = q + 1 + L + m
      /\ p = q + 1 + D + n /\ n \in Nat
      /\ v \in Nat /\ v > 0 /\ m \in Nat /\ v <= m /\ (D = L => v = m)
      /\ c.short \in BOOLEAN /\ (c.short <=> D < L) /\ c.want = v
  <2>1. stream \in Streams BY DEF TypeOK
  <2>2. /\ L \in 1..4 /\ m \in Nat /\ m = Decoded(Length(k), L)
        /\ EndOf(k - 1) \in Nat /\ e = EndOf(k - 1) + 1 + L + m
    BY <2>1, InStream
  <2>3. D \in 0..4 /\ v \in Nat /\ c.short \in BOOLEAN /\ n \in Nat BY DEF ReadCall
  <2>4. D <= L /\ v = Decoded(Length(k), D) BY DEF BodyReceived
  <2>5. v <= m BY <2>1, <2>3, <2>4, InLength
  <2> QED BY <2>2, <2>3, <2>4, <2>5 DEF BodyReceived
<1>2. /\ r \in {n, 0, -1} /\ (n < v \/ r = n) /\ (port # "mbed" => n <= v)
      /\ ~c.short /\ port # "mbed" => Len(b) = n /\ \A i \in 1..n : b[i] = q + 1 + D + i
  BY DEF BodyReceived
<1>3. ReadEnds(rc, short, pos')
  <2> DEFINE d == [c EXCEPT !.short = @ \/ r # c.want]
  <2>1. d.short = short /\ d.want = c.want /\ d.stage = "body" BY DEF ReadCall
  <2>2. ReadEnds(IF r = d.want THEN Type ELSE BodyShort, d.short, p)
    <3> HIDE DEF d
    <3> QED BY <2>1 DEF readPacket, d
  <2> QED BY <2>1, <2>2
<1>4. rc \in {Type, 0, 1} /\ short \in BOOLEAN /\ (rc = Type => r = v)
      /\ (r # v => rc \in {0, 1})
  BY <1>1 DEF BodyShort, Type
<1>5. /\ call' \in {Idle} \cup ReadCall /\ call'.op # "read" /\ last' \in LastType
      /\ last'.rc = rc /\ last'.short = short /\ last'.pos = p
      /\ BodyInv' /\ FrameInv' /\ (short \/ port' = "mbed" => IntactInv')
  <2>1. rc \in {Type, 1, SUCCESS, FAILURE, BUFFER_OVERFLOW} BY <1>4 DEF SUCCESS
  <2> HIDE DEF rc, short
  <2> QED BY <1>3, <1>4, <2>1, Returned
<1>6. port' = port /\ (short <=> c.short \/ r # v) BY <1>1 DEF Unread
<1> HIDE DEF L, D, n, v, m, e, q, rc, short
<1>7. CASE ~short
  <2>1. r = v /\ D = L /\ v = m /\ r = n /\ n = m /\ p = e BY <1>1, <1>2, <1>6, <1>7
  <2>2. rc = Type BY <1>1, <2>1 DEF rc
  <2>3. ReturnsPacket(k) BY <1>5, <1>7, <2>1, <2>2 DEF ReturnsPacket, e
  <2>4. IntactInv'
    <3>1. CASE port = "mbed" BY <1>5, <1>6, <3>1
    <3>2. CASE port # "mbed"
      <4>1. Len(b) = m /\ \A i \in 1..m : b[i] = p - m + i
        <5>1. Len(b) = n /\ \A i \in 1..n : b[i] = q + 1 + D + i BY <1>2, <1>6, <1>7, <3>2
        <5>2. \A i \in 1..m : q + 1 + D + i = p - m + i BY <1>1, <2>1
        <5> QED BY <2>1, <5>1, <5>2
      <4>2. b = [i \in 1..m |-> p - m + i]
        <5>1. b = [i \in 1..Len(b) |-> b[i]] OBVIOUS
        <5> QED BY <4>1, <5>1
      <4>3. k \in DOMAIN stream' BY InStream DEF TypeOK, Unread
      <4>4. EndOf(k)' = last'.pos BY <1>5, <2>1 DEF e, EndOf, Unread
      <4>5. stream'[k].rem = m BY DEF Unread, m
      <4>6. body' = [i \in 1..stream'[k].rem |-> last'.pos - stream'[k].rem + i]
        BY <1>5, <4>2, <4>5
      <4> QED BY <4>3, <4>4, <4>6 DEF IntactInv
    <3> QED BY <3>1, <3>2
  <2> QED BY <1>5, <2>3, <2>4 DEF ReadResult, ReadOutcome, BodyReceived
<1>8. CASE short /\ p < e
  <2>1. q < p BY <1>1
  <2>2. ReturnsPart(k) BY <1>4, <1>5, <1>8, <2>1 DEF ReturnsPart, q, e
  <2> QED BY <1>4, <1>5, <1>8, <2>2 DEF ReadResult, ReadOutcome, BodyReceived
<1>9. CASE short /\ ~(p < e)
  <2>1. p >= e /\ e \in Nat BY <1>1, <1>9
  <2>2. r # v /\ port = "mbed"
    <3>1. n >= v /\ (D = L \/ n > v)
      <4>1. D + n >= L + m BY <1>1, <2>1
      <4> QED BY <1>1, <4>1
    <3>2. r = n BY <1>1, <1>2, <3>1
    <3> QED BY <1>1, <1>2, <1>6, <1>9, <3>1, <3>2
  <2>3. ReturnsMore(k) BY <1>4, <1>5, <1>9, <2>1, <2>2 DEF ReturnsMore, e
  <2> QED BY <1>4, <1>5, <1>9, <2>3 DEF ReadResult, ReadOutcome, BodyReceived
<1> QED BY <1>7, <1>8, <1>9

LEMMA ReadPacketStep ==
    ASSUME TypeOK, NEW c \in ReadCall, NEW r \in Int, NEW p \in Nat, NEW b \in Seq(Nat),
           Received(c, r, p, b), readPacket(c, r, p), pos' = p, body' = b, Unread
    PROVE  ReadResult
<1>1. c.stage \in {"header", "length", "body"} BY DEF ReadCall
<1>2. CASE c.stage = "header" BY <1>2, HeaderStep DEF Received
<1>3. CASE c.stage = "length" BY <1>3, LengthStep DEF Received
<1>4. CASE c.stage = "body" BY <1>4, BodyStep DEF Received
<1> QED BY <1>1, <1>2, <1>3, <1>4

-----------------------------------------------------------------------------
(* The recvs of a read *)

LEMMA ReadReturned ==
    ASSUME TypeOK, NEW c \in ReadCall, NEW e \in {"bytes", "nothing", "end", "error"}
    PROVE  /\ Returns(c, e) \in {c.bytes, 0, -1, More} /\ Returns(c, e) \in Int
           /\ More # 0 /\ More # -1 /\ More # c.bytes
           /\ e = "bytes" => /\ Returns(c, e) \in {c.bytes, More}
                             /\ Returns(c, e) = More => c.bytes < c.want
           /\ port = "FreeRTOS" /\ Returns(c, e) = More => c.waited < c.timeout
           /\ port = "arduino" /\ Returns(c, e) = More => c.waited < c.timeout /\ e # "bytes"
<1>1. c.bytes \in Nat /\ c.want \in Nat /\ c.waited \in Int /\ c.timeout \in Int
  <2>1. 0..Timeout \subseteq Int BY Numbers
  <2> QED BY <2>1 DEF ReadCall
<1>2. port \in {"linux.cpp", "arduino", "mbed", "MQTTLinux", "FreeRTOS", "cc3200"}
  BY PortsAssumption DEF TypeOK, CppPorts, CPorts
<1>3. CASE port = "linux.cpp"
  <2>1. Returns(c, e) = linux_cpp_read(c, e) BY <1>3 DEF Returns
  <2> QED BY <1>1, <1>3, <2>1 DEF linux_cpp_read, More
<1>4. CASE port = "MQTTLinux"
  <2>1. Returns(c, e) = linux_read(c, e) BY <1>4 DEF Returns
  <2> QED BY <1>1, <1>4, <2>1 DEF linux_read, More
<1>5. CASE port = "FreeRTOS"
  <2>1. Returns(c, e) = FreeRTOS_read(c, e) BY <1>5 DEF Returns
  <2> QED BY <1>1, <1>5, <2>1 DEF FreeRTOS_read, More
<1>6. CASE port = "cc3200"
  <2>1. Returns(c, e) = cc3200_read(c, e) BY <1>6 DEF Returns
  <2> QED BY <1>1, <1>6, <2>1 DEF cc3200_read, More
<1>7. CASE port = "arduino"
  <2>1. Returns(c, e) = arduino_read(c, e) BY <1>7 DEF Returns
  <2> QED BY <1>1, <1>7, <2>1 DEF arduino_read, More
<1>8. CASE port = "mbed"
  <2>1. Returns(c, e) = mbed_common(c, e) BY <1>8 DEF Returns
  <2> QED BY <1>1, <1>8, <2>1 DEF mbed_common, More
<1> QED BY <1>2, <1>3, <1>4, <1>5, <1>6, <1>7, <1>8

LEMMA ReadCallTypes ==
    ASSUME TypeOK, Reading
    PROVE  /\ call \in ReadCall /\ call.bytes < call.want
           /\ call.bytes \in Nat /\ call.want \in Nat
           /\ call.digits \in 0..4 /\ call.value \in Nat /\ call.short \in BOOLEAN
           /\ call.timeout \in Int /\ call.waited \in 0..Timeout
           /\ call.stage \in {"header", "length", "body"}
<1>1. call \notin {Idle} \cup SendCall BY DEF Reading, Idle, SendCall
<1>2. call \in ReadCall /\ call.bytes < call.want BY <1>1 DEF TypeOK, Reading
<1> QED BY <1>2 DEF ReadCall

LEMMA EventFacts ==
    ASSUME TypeOK, Reading
    PROVE  /\ Event \in {"bytes", "nothing", "end", "error"}
           /\ Event = "bytes" =>
                available >= 1 /\ (port = "arduino" => available >= call.want)
<1>1. available \in Int BY DEF TypeOK, available
<1>2. call.want \in Nat /\ call.want >= 1 BY ReadCallTypes
<1> DEFINE a == IF port = "arduino" THEN call.want ELSE 1
<1>3. a \in Int /\ a >= 1 /\ (port = "arduino" => a = call.want) BY <1>2
<1> HIDE DEF a
<1>4. peer \in {"up", "closed", "broken", "none"} BY DEF TypeOK
<1>5. Event = CASE peer \in {"up", "closed"} /\ available >= a -> "bytes"
                [] peer = "up" /\ available < a -> "nothing"
                [] peer = "closed" /\ available < a -> "end"
                [] peer \in {"broken", "none"} -> "error"
  BY DEF Event, a
<1>6. CASE peer \in {"broken", "none"}
  <2>1. Event = "error" BY <1>5, <1>6
  <2> QED BY <2>1
<1>7. CASE peer \in {"up", "closed"} /\ available >= a
  <2>1. Event = "bytes" BY <1>1, <1>3, <1>5, <1>7
  <2> QED BY <1>1, <1>3, <1>7, <2>1
<1>8. CASE peer \in {"up", "closed"} /\ ~(available >= a)
  <2>1. available < a BY <1>1, <1>3, <1>8
  <2>2. peer = "up" => Event = "nothing" BY <1>5, <1>8, <2>1
  <2>3. peer = "closed" => Event = "end" BY <1>5, <1>8, <2>1
  <2> QED BY <1>8, <2>2, <2>3
<1> QED BY <1>4, <1>6, <1>7, <1>8

LEMMA AmountFacts ==
    ASSUME TypeOK, Reading, Event = "bytes"
    PROVE  /\ Amount \in Nat /\ Amount >= 1 /\ Amount <= available /\ Amount <= call.want
           /\ port # "mbed" => Amount <= call.want - call.bytes
           /\ pos + Amount \in 0..arrived /\ pos + Amount \in Nat
<1>1. /\ available \in Int /\ available = arrived - pos /\ pos \in Nat /\ arrived \in Nat
      /\ pos <= arrived /\ available >= 1
  BY EventFacts DEF TypeOK, available
<1>2. call.want \in Nat /\ call.bytes \in Nat /\ call.bytes < call.want BY ReadCallTypes
<1> DEFINE a == IF port = "mbed" THEN call.want ELSE call.want - call.bytes
<1>3. a \in Int /\ a >= 1 /\ a <= call.want /\ (port # "mbed" => a = call.want - call.bytes)
  BY <1>2
<1> HIDE DEF a
<1>4. Amount = Min({available, a}) BY DEF Amount, a
<1>5. Amount = IF available <= a THEN available ELSE a BY <1>1, <1>3, <1>4, MinOfTwo
<1>6. Amount \in Int /\ Amount >= 1 /\ Amount <= available /\ Amount <= a
  BY <1>1, <1>3, <1>5
<1> HIDE DEF Amount
<1> QED BY <1>1, <1>2, <1>3, <1>6

LEMMA StoredFacts ==
    ASSUME TypeOK, NEW m \in Nat, m >= 1, NEW n \in Nat, n <= Len(body)
    PROVE  /\ Stored(body, n, m) \in Seq(Nat)
           /\ n = Len(body) =>
                /\ Len(Stored(body, n, m)) = n + m
                /\ \A i \in 1..n : Stored(body, n, m)[i] = body[i]
                /\ \A i \in (n + 1)..(n + m) : Stored(body, n, m)[i] = pos + i - n
<1> DEFINE L == Len(body)
           M == Max({L, n + m})
           S == Stored(body, n, m)
<1>1. L \in Nat /\ body \in Seq(Nat) /\ pos \in Nat BY DEF TypeOK
<1>2. M \in Nat /\ M >= n + m /\ (n = L => M = n + m) /\ (M = L \/ M = n + m)
  BY <1>1, MaxOfTwo
<1>3. S = [i \in 1..M |-> IF i \in (n + 1)..(n + m) THEN pos + i - n ELSE body[i]]
  BY DEF Stored
<1>4. \A i \in 1..L : body[i] \in Nat BY <1>1
<1>0. n <= L OBVIOUS
<1> HIDE DEF L, M, S
<1>5. ASSUME NEW i \in 1..M PROVE S[i] \in Nat
  <2>1. CASE i \in (n + 1)..(n + m)
    <3>1. S[i] = pos + i - n BY <1>3, <2>1
    <3> QED BY <1>1, <2>1, <3>1
  <2>2. CASE i \notin (n + 1)..(n + m)
    <3>1. S[i] = body[i] BY <1>3, <2>2
    <3>2. i \in 1..L BY <1>0, <1>1, <1>2, <2>2
    <3> QED BY <1>4, <3>1, <3>2
  <2> QED BY <2>1, <2>2
<1>6. S \in Seq(Nat) /\ Len(S) = M
  <2>1. S = [i \in 1..M |-> S[i]] BY <1>3
  <2>2. [i \in 1..M |-> S[i]] \in Seq(Nat) BY <1>2, <1>5
  <2>3. Len([i \in 1..M |-> S[i]]) = M BY <1>2
  <2> QED BY <2>1, <2>2, <2>3
<1>7. ASSUME n = L
      PROVE  /\ Len(S) = n + m /\ \A i \in 1..n : S[i] = body[i]
             /\ \A i \in (n + 1)..(n + m) : S[i] = pos + i - n
  <2>1. M = n + m BY <1>2, <1>7
  <2>2. \A i \in 1..n : i \in 1..M /\ i \notin (n + 1)..(n + m) BY <2>1
  <2>3. \A i \in (n + 1)..(n + m) : i \in 1..M BY <2>1
  <2> QED BY <1>3, <1>6, <2>1, <2>2, <2>3
<1> QED BY <1>6, <1>7 DEF S, L

LEMMA NextPacket ==
    ASSUME stream \in Streams, NEW q \in Ends, q < Len(bytes)
    PROVE  \E k \in 1..Len(stream) : q = EndOf(k - 1)
<1>1. Len(stream) \in Nat /\ EndsOf[stream][Len(stream)] = Len(bytes) BY StreamEnds DEF bytes
<1>2. Ends = {EndsOf[stream][j] : j \in 0..Len(stream)} BY StreamEnds DEF Ends, EndsIn
<1>3. PICK j \in 0..Len(stream) : q = EndsOf[stream][j] BY <1>2
<1>4. Len(bytes) \in Nat BY <1>1, StreamEnds
<1>5. j # Len(stream) BY <1>1, <1>3, <1>4
<1>6. j + 1 \in 1..Len(stream) /\ (j + 1) - 1 = j BY <1>1, <1>5
<1> QED BY <1>3, <1>6 DEF EndOf

LEMMA Saturates == ASSUME NEW m \in Nat, NEW n \in 0..m PROVE Saturated(n, m) \in 0..m
<1>1. n + 1 \in Int /\ m \in Int OBVIOUS
<1>2. Saturated(n, m) = IF n + 1 <= m THEN n + 1 ELSE m BY <1>1, MinOfTwo DEF Saturated
<1> QED BY <1>2

LEMMA TimeTypes ==
    ASSUME TypeOK, TimePasses \/ UNCHANGED <<elapsed, spent>>
    PROVE  elapsed' \in 0..Horizon /\ spent' \in 0..Timeout
<1>1. elapsed \in 0..Horizon /\ spent \in 0..Timeout BY DEF TypeOK
<1>2. Saturated(elapsed, Horizon) \in 0..Horizon /\ Saturated(spent, Timeout) \in 0..Timeout
  BY <1>1, Numbers, Saturates
<1> QED BY <1>1, <1>2 DEF TimePasses

LEMMA ReadKeepsInv ==
    ASSUME TypeOK, ReadResult, Unread, UNCHANGED <<arrived, peer, open, start, out, calls>>,
           pos' \in 0..arrived, elapsed' \in 0..Horizon, spent' \in 0..Timeout,
           body' \in Seq(Nat)
    PROVE  PortsInv' /\ ReadOutcome /\ call'.op # "send"
<1>1. bytes' = bytes BY DEF bytes, Unread
<1>2. TypeOK' BY <1>1 DEF TypeOK, ReadResult, Unread, LastType
<1>3. call'.op # "send" BY DEF ReadResult, ReadCall, Idle
<1> QED BY <1>2, <1>3 DEF ReadResult, PortsInv

\* A recv that returned bytes leaves them where they belong.
LEMMA RecvStores ==
    ASSUME PortsInv, Recv
    PROVE  /\ body' \in Seq(Nat)
           /\ call.stage # "body" => body' = << >>
           /\ call.stage = "body" /\ port # "mbed" =>
                /\ Len(body') = call.bytes + Amount
                /\ \A i \in 1..call.bytes : body'[i] = body[i]
                /\ \A i \in (call.bytes + 1)..(call.bytes + Amount) :
                     body'[i] = pos + i - call.bytes
<1>0. TypeOK /\ Reading /\ Event = "bytes" BY DEF PortsInv, Recv, Reading
<1>1. body' = IF call.stage = "body" THEN Stored(body, Placed, Amount) ELSE body BY DEF Recv
<1>2. PICK a : a = Amount OBVIOUS
<1>3. a \in Nat /\ a >= 1 BY <1>0, <1>2, AmountFacts
<1>4. body \in Seq(Nat) BY <1>0 DEF TypeOK
<1>5. CASE call.stage # "body" BY <1>0, <1>1, <1>4, <1>5 DEF PortsInv, BodyInv
<1>6. CASE call.stage = "body" /\ port = "mbed"
  <2>1. body' = Stored(body, 0, a) BY <1>1, <1>2, <1>6 DEF Placed
  <2>2. 0 <= Len(body) BY <1>4
  <2>3. Stored(body, 0, a) \in Seq(Nat) BY <1>0, <1>3, <2>2, StoredFacts
  <2> QED BY <1>6, <2>1, <2>3
<1>7. CASE call.stage = "body" /\ port # "mbed"
  <2>1. PICK n : n = call.bytes OBVIOUS
  <2>2. n \in Nat /\ n = Len(body) /\ n <= Len(body)
    BY <1>0, <1>7, <2>1, ReadCallTypes DEF PortsInv, BodyInv
  <2>3. body' = Stored(body, n, a) BY <1>1, <1>2, <1>7, <2>1 DEF Placed
  <2>4. /\ Stored(body, n, a) \in Seq(Nat) /\ Len(Stored(body, n, a)) = n + a
        /\ \A i \in 1..n : Stored(body, n, a)[i] = body[i]
        /\ \A i \in (n + 1)..(n + a) : Stored(body, n, a)[i] = pos + i - n
    BY <1>0, <1>3, <2>2, StoredFacts
  <2> QED BY <1>2, <1>7, <2>1, <2>3, <2>4
<1> QED BY <1>5, <1>6, <1>7

LEMMA RecvStep ==
    ASSUME PortsInv, Recv
    PROVE  PortsInv' /\ ReadOutcome /\ call'.op # "send"
<1>0. TypeOK /\ Reading /\ Event = "bytes" BY DEF PortsInv, Recv, Reading
<1>1. PICK a : a = Amount OBVIOUS
<1>2. PICK c : c = [call EXCEPT !.bytes = @ + a, !.tries = @ + 1,
                                !.waited = IF port \in EachWaits THEN 0 ELSE @]
  OBVIOUS
<1>3. PICK r : r = Returns(c, "bytes") OBVIOUS
<1>4. /\ pos' = pos + a /\ Unread
      /\ IF r = More THEN call' = c /\ last' = last ELSE readPacket(c, r, pos + a)
      /\ TimePasses \/ UNCHANGED <<elapsed, spent>>
      /\ UNCHANGED <<arrived, peer, open, start, out, calls>>
  BY <1>1, <1>2, <1>3 DEF Recv, Unread
<1>5. /\ a \in Nat /\ a >= 1 /\ a <= call.want /\ (port # "mbed" => a <= call.want - call.bytes)
      /\ pos + a \in 0..arrived /\ pos + a \in Nat /\ a <= available
  BY <1>0, <1>1, AmountFacts
<1>6. /\ call \in ReadCall /\ call.bytes < call.want
      /\ call.bytes \in Nat /\ call.want \in Nat /\ call.digits \in 0..4
  BY <1>0, ReadCallTypes
<1>7. /\ c \in ReadCall /\ c.op = "read" /\ c.stage = call.stage /\ c.want = call.want
      /\ c.bytes = call.bytes + a /\ c.digits = call.digits /\ c.value = call.value
      /\ c.short = call.short /\ c.timeout = call.timeout
  <2>1. PICK w : w = IF port \in EachWaits THEN 0 ELSE call.waited OBVIOUS
  <2>2. w \in 0..Timeout
    <3>1. 0 \in 0..Timeout /\ call.waited \in 0..Timeout BY <1>6, Numbers DEF ReadCall
    <3> QED BY <2>1, <3>1
  <2>3. call.bytes + a \in Nat BY <1>5, <1>6
  <2>4. call.tries + 1 \in Nat BY <1>6 DEF ReadCall
  <2>5. c = [call EXCEPT !.bytes = call.bytes + a, !.tries = call.tries + 1, !.waited = w]
    BY <1>2, <2>1
  <2> QED BY <1>6, <2>2, <2>3, <2>4, <2>5 DEF ReadCall
<1>8. r \in {c.bytes, More} /\ r \in Int /\ More # c.bytes /\ (r = More => c.bytes < c.want)
  BY <1>0, <1>3, <1>7, ReadReturned
<1>9. /\ body' \in Seq(Nat) /\ (call.stage # "body" => body' = << >>)
      /\ call.stage = "body" /\ port # "mbed" =>
           /\ Len(body') = call.bytes + a
           /\ \A i \in 1..call.bytes : body'[i] = body[i]
           /\ \A i \in (call.bytes + 1)..(call.bytes + a) : body'[i] = pos + i - call.bytes
  BY <1>1, RecvStores
<1>10. PICK b : b = body' OBVIOUS
<1>11. PICK p : p = pos + a OBVIOUS
<1>12. elapsed' \in 0..Horizon /\ spent' \in 0..Timeout BY <1>0, <1>4, TimeTypes
<1>13. last.pos \in Ends /\ last.pos \in Nat /\ pos \in Nat /\ last \in LastType
  BY <1>0 DEF PortsInv, FrameInv, TypeOK, LastType
<1>14. ASSUME NEW k \in 1..Len(stream), call.stage = "body", AtBody(k)
       PROVE  /\ p = last.pos + 1 + c.digits + c.bytes
              /\ ~c.short /\ port # "mbed" =>
                   /\ Len(b) = c.bytes
                   /\ \A i \in 1..c.bytes : b[i] = last.pos + 1 + c.digits + i
  <2>1. pos = last.pos + 1 + call.digits + call.bytes BY <1>14 DEF AtBody
  <2>2. p = last.pos + 1 + c.digits + c.bytes
    <3> DEFINE q == last.pos
               m == call.bytes
               D == call.digits
    <3>1. q \in Int /\ m \in Int /\ D \in Int /\ a \in Int /\ pos = q + 1 + D + m
      BY <1>5, <1>6, <1>13, <2>1
    <3>2. c.digits = D /\ c.bytes = m + a BY <1>7
    <3> HIDE DEF q, m, D
    <3>3. p = q + 1 + D + (m + a) BY <1>11, <3>1
    <3> QED BY <3>2, <3>3 DEF q
  <2>3. ASSUME ~c.short, port # "mbed", NEW i \in 1..c.bytes
        PROVE  b[i] = last.pos + 1 + c.digits + i
    <3>1. CASE i <= call.bytes
      <4>1. i \in 1..call.bytes BY <1>6, <2>3, <3>1
      <4>2. body[i] = last.pos + 1 + call.digits + i BY <1>7, <1>14, <2>3, <4>1 DEF AtBody
      <4> QED BY <1>7, <1>9, <1>10, <1>14, <2>3, <4>1, <4>2
    <3>2. CASE i > call.bytes
      <4>1. i \in (call.bytes + 1)..(call.bytes + a) BY <1>5, <1>6, <1>7, <2>3, <3>2
      <4>2. b[i] = pos + i - call.bytes BY <1>9, <1>10, <1>14, <2>3, <4>1
      <4> DEFINE q == last.pos
                 m == call.bytes
                 D == call.digits
      <4>3. q \in Int /\ m \in Int /\ D \in Int /\ pos = q + 1 + D + m BY <1>6, <1>13, <2>1
      <4>4. c.digits = D /\ b[i] = pos + i - m BY <1>7, <4>2
      <4> HIDE DEF q, m, D
      <4>5. i \in Int OBVIOUS
      <4>6. b[i] = q + 1 + D + i BY <4>3, <4>4, <4>5
      <4> QED BY <4>4, <4>6 DEF q
    <3> QED BY <1>6, <3>1, <3>2
  <2>4. port # "mbed" => Len(b) = c.bytes BY <1>7, <1>9, <1>10, <1>14
  <2> QED BY <2>2, <2>3, <2>4
<1>15. CASE r = More
  <2>1. call' = c /\ last' = last /\ c.bytes < c.want BY <1>4, <1>8, <1>15
  <2>2. call.stage = "body"
    <3>1. call.want # 1 BY <1>5, <1>6, <1>7, <2>1
    <3>2. call.stage \in {"header", "length", "body"} BY <1>6 DEF ReadCall
    <3> QED BY <1>0, <3>1, <3>2 DEF PortsInv, FrameInv, AtStart, AtLength
  <2>3. PICK k \in 1..Len(stream) : last.pos = EndOf(k - 1) /\ AtBody(k)
    BY <1>0, <2>2 DEF PortsInv, FrameInv
  <2>4. Length(k)' = Length(k) BY <1>4 DEF Length, Unread
  <2>5. AtBody(k)'
    <3>1. /\ p = last.pos + 1 + c.digits + c.bytes
          /\ ~c.short /\ port # "mbed" =>
               \A i \in 1..c.bytes : b[i] = last.pos + 1 + c.digits + i
      BY <1>14, <2>2, <2>3
    <3>2. /\ c.want = c.value /\ c.value > 0 /\ c.value = Decoded(Length(k), c.digits)
          /\ c.digits <= Len(Length(k)) /\ (c.short <=> c.digits < Len(Length(k)))
      BY <1>7, <2>3 DEF AtBody
    <3> QED BY <1>4, <1>10, <1>11, <2>1, <2>4, <3>1, <3>2 DEF AtBody, Unread
  <2>6. FrameInv'
    <3>1. last'.pos \in Ends' BY <1>4, <1>13, <2>1 DEF Ends, Unread
    <3>2. k \in 1..Len(stream') /\ last'.pos = EndOf(k - 1)'
      BY <1>4, <2>1, <2>3 DEF EndOf, Unread
    <3> QED BY <1>7, <2>1, <2>2, <2>5, <3>1, <3>2 DEF FrameInv, Reading
  <2>7. BodyInv' /\ IntactInv'
    BY <1>4, <1>7, <1>9, <2>1, <2>2 DEF BodyInv, IntactInv, Reading, Unread
  <2>8. ReadResult
    BY <1>7, <1>13, <2>1, <2>6, <2>7 DEF ReadResult, ReadOutcome, Goes
  <2> QED BY <1>0, <1>4, <1>5, <1>9, <1>12, <2>8, ReadKeepsInv
<1>16. CASE r # More
  <2>1. readPacket(c, r, p) /\ r = c.bytes BY <1>4, <1>8, <1>11, <1>16
  <2>2. c.stage = "header" => HeaderReceived(c, r, p, b)
    <3>1. SUFFICES ASSUME c.stage = "header" PROVE HeaderReceived(c, r, p, b) OBVIOUS
    <3>2. AtStart BY <1>0, <1>7, <3>1 DEF PortsInv, FrameInv
    <3>3. r = 1 /\ p = last.pos + 1 BY <1>5, <1>7, <1>11, <2>1, <3>2 DEF AtStart
    <3>4. \E k \in 1..Len(stream) : last.pos = EndOf(k - 1)
      <4>1. arrived \in Nat /\ Len(bytes) \in Nat /\ arrived <= Len(bytes)
        <5>1. Len(bytes) \in Nat BY <1>0, StreamEnds DEF TypeOK, bytes
        <5> QED BY <1>0, <5>1 DEF TypeOK
      <4>2. last.pos < Len(bytes) BY <1>5, <1>13, <3>2, <4>1 DEF AtStart
      <4> QED BY <1>0, <1>13, <4>2, NextPacket DEF TypeOK
    <3> QED BY <1>7, <1>9, <1>10, <3>1, <3>2, <3>3, <3>4 DEF HeaderReceived, ReadOne, AtStart
  <2>3. c.stage = "length" => \E k \in 1..Len(stream) : LengthReceived(c, r, p, b, k)
    <3>1. SUFFICES ASSUME c.stage = "length"
                   PROVE  \E k \in 1..Len(stream) : LengthReceived(c, r, p, b, k)
      OBVIOUS
    <3>2. PICK k \in 1..Len(stream) : last.pos = EndOf(k - 1) /\ AtLength(k)
      BY <1>0, <1>7, <3>1 DEF PortsInv, FrameInv
    <3>3. r = 1 /\ p = (last.pos + 1 + c.digits) + 1
      BY <1>5, <1>6, <1>7, <1>11, <1>13, <2>1, <3>2 DEF AtLength
    <3> QED BY <1>7, <1>9, <1>10, <3>1, <3>2, <3>3 DEF LengthReceived, ReadOne, AtLength
  <2>4. c.stage = "body" => \E k \in 1..Len(stream) : BodyReceived(c, r, p, b, k)
    <3>1. SUFFICES ASSUME c.stage = "body"
                   PROVE  \E k \in 1..Len(stream) : BodyReceived(c, r, p, b, k)
      OBVIOUS
    <3>2. PICK k \in 1..Len(stream) : last.pos = EndOf(k - 1) /\ AtBody(k)
      BY <1>0, <1>7, <3>1 DEF PortsInv, FrameInv
    <3>3. /\ p = last.pos + 1 + c.digits + c.bytes
          /\ ~c.short /\ port # "mbed" =>
               Len(b) = c.bytes /\ \A i \in 1..c.bytes : b[i] = last.pos + 1 + c.digits + i
      BY <1>7, <1>14, <3>1, <3>2
    <3>4. port # "mbed" => c.bytes <= c.want BY <1>5, <1>6, <1>7
    <3>5. /\ c.want = c.value /\ c.value > 0 /\ c.value = Decoded(Length(k), c.digits)
          /\ c.digits <= Len(Length(k)) /\ (c.short <=> c.digits < Len(Length(k)))
      BY <1>7, <3>2 DEF AtBody
    <3> QED BY <2>1, <3>2, <3>3, <3>4, <3>5 DEF BodyReceived
  <2>5. Received(c, r, p, b) BY <1>13, <2>2, <2>3, <2>4 DEF Received
  <2>6. p \in Nat /\ b \in Seq(Nat) /\ pos' = p /\ body' = b
    BY <1>4, <1>5, <1>9, <1>10, <1>11
  <2>7. ReadResult BY <1>0, <1>4, <1>7, <1>8, <2>1, <2>5, <2>6, ReadPacketStep
  <2> QED BY <1>0, <1>4, <1>5, <1>9, <1>12, <2>7, ReadKeepsInv
<1> QED BY <1>15, <1>16

LEMMA RecvEndsStep ==
    ASSUME PortsInv, RecvEnds
    PROVE  PortsInv' /\ ReadOutcome /\ call'.op # "send"
<1>0. TypeOK /\ Reading BY DEF PortsInv, RecvEnds, Reading
<1>1. PICK c : c = call OBVIOUS
<1>2. PICK r : r = Returns(c, Event) OBVIOUS
<1>3. PICK p : p = pos OBVIOUS
<1>4. PICK b : b = body OBVIOUS
<1>5. /\ readPacket(c, r, p) /\ r # More /\ Unread /\ pos' = p /\ body' = b
      /\ UNCHANGED <<elapsed, spent>> /\ UNCHANGED <<arrived, peer, open, start, out, calls>>
  BY <1>1, <1>2, <1>3, <1>4 DEF RecvEnds, Unread, connection, timers
<1>6. /\ c \in ReadCall /\ c.op = "read" /\ c.bytes < c.want
      /\ c.bytes \in Nat /\ c.want \in Nat /\ c.digits \in 0..4
      /\ c.stage \in {"header", "length", "body"}
  BY <1>0, <1>1, ReadCallTypes DEF ReadCall
<1>7. r \in {c.bytes, 0, -1} /\ r \in Int
  <2>1. PICK e : e = Event OBVIOUS
  <2>2. e \in {"bytes", "nothing", "end", "error"} BY <1>0, <2>1, EventFacts
  <2>3. Returns(c, e) \in {c.bytes, 0, -1, More} /\ Returns(c, e) \in Int
    BY <1>0, <1>6, <2>2, ReadReturned
  <2> QED BY <1>2, <1>5, <2>1, <2>3
<1>8. p \in Nat /\ p \in 0..arrived /\ b \in Seq(Nat) /\ last.pos \in Ends
  BY <1>0, <1>3, <1>4 DEF TypeOK, PortsInv, FrameInv
<1>9. elapsed' \in 0..Horizon /\ spent' \in 0..Timeout BY <1>0, <1>5, TimeTypes
<1>10. c.stage = "header" => HeaderReceived(c, r, p, b)
  <2>1. SUFFICES ASSUME c.stage = "header" PROVE HeaderReceived(c, r, p, b) OBVIOUS
  <2>2. AtStart /\ b = << >> BY <1>0, <1>1, <1>4, <2>1 DEF PortsInv, FrameInv, BodyInv
  <2>3. r \in {0, -1} /\ p = last.pos BY <1>1, <1>3, <1>7, <2>2 DEF AtStart
  <2> QED BY <1>1, <2>2, <2>3 DEF HeaderReceived, ReadOne, AtStart
<1>11. c.stage = "length" => \E k \in 1..Len(stream) : LengthReceived(c, r, p, b, k)
  <2>1. SUFFICES ASSUME c.stage = "length"
                 PROVE  \E k \in 1..Len(stream) : LengthReceived(c, r, p, b, k)
    OBVIOUS
  <2>2. PICK k \in 1..Len(stream) : last.pos = EndOf(k - 1) /\ AtLength(k)
    BY <1>0, <1>1, <2>1 DEF PortsInv, FrameInv
  <2>3. b = << >> BY <1>0, <1>1, <1>4, <2>1 DEF PortsInv, BodyInv
  <2>4. r \in {0, -1} /\ p = last.pos + 1 + c.digits BY <1>1, <1>3, <1>7, <2>2 DEF AtLength
  <2> QED BY <1>1, <2>2, <2>3, <2>4 DEF LengthReceived, ReadOne, AtLength
<1>12. c.stage = "body" => \E k \in 1..Len(stream) : BodyReceived(c, r, p, b, k)
  <2>1. SUFFICES ASSUME c.stage = "body"
                 PROVE  \E k \in 1..Len(stream) : BodyReceived(c, r, p, b, k)
    OBVIOUS
  <2>2. PICK k \in 1..Len(stream) : last.pos = EndOf(k - 1) /\ AtBody(k)
    BY <1>0, <1>1, <2>1 DEF PortsInv, FrameInv
  <2>3. port # "mbed" => Len(b) = c.bytes BY <1>0, <1>1, <1>4, <2>1 DEF PortsInv, BodyInv
  <2>4. c.bytes <= c.want BY <1>6
  <2> QED BY <1>1, <1>3, <1>4, <1>6, <1>7, <2>2, <2>3, <2>4 DEF BodyReceived, AtBody
<1>13. Received(c, r, p, b) BY <1>8, <1>10, <1>11, <1>12 DEF Received
<1>14. ReadResult BY <1>0, <1>5, <1>6, <1>7, <1>8, <1>13, ReadPacketStep
<1> QED BY <1>0, <1>3, <1>4, <1>5, <1>8, <1>9, <1>14, ReadKeepsInv

LEMMA TickStep ==
    ASSUME PortsInv, Tick
    PROVE  PortsInv' /\ last' = last
<1>0. TypeOK /\ Reading BY DEF PortsInv, Tick, Reading
<1>1. PICK w : w = Saturated(call.waited, Timeout) OBVIOUS
<1>2. call' = [call EXCEPT !.waited = w] /\ TimePasses
  BY <1>1 DEF Tick
<1>3. UNCHANGED <<port, stream, arrived, pos, peer, open, start, body, out, last, calls>>
  BY DEF Tick, connection
<1>4. call \in ReadCall /\ call.bytes < call.want /\ w \in 0..Timeout
  <2>1. call.waited \in 0..Timeout /\ Timeout \in Nat BY <1>0, ReadCallTypes, Numbers
  <2> QED BY <1>0, <1>1, <2>1, ReadCallTypes, Saturates
<1>5. /\ call' \in ReadCall /\ call'.op = "read" /\ call'.stage = call.stage
      /\ call'.want = call.want /\ call'.bytes = call.bytes /\ call'.digits = call.digits
      /\ call'.value = call.value /\ call'.short = call.short
  BY <1>2, <1>4 DEF ReadCall
<1>6. elapsed' \in 0..Horizon /\ spent' \in 0..Timeout BY <1>0, <1>2, TimeTypes
<1>7. TypeOK'
  <2>1. bytes' = bytes BY <1>3 DEF bytes
  <2> QED BY <1>0, <1>3, <1>4, <1>5, <1>6, <2>1 DEF TypeOK
<1>8. BodyInv' BY <1>0, <1>3, <1>5 DEF PortsInv, BodyInv, Reading
<1>9. FrameInv'
  <2>1. AtStart' <=> AtStart BY <1>3, <1>5 DEF AtStart
  <2>2. \A k : AtLength(k)' <=> AtLength(k) BY <1>3, <1>5 DEF AtLength, Length
  <2>3. \A k : AtBody(k)' <=> AtBody(k) BY <1>3, <1>5 DEF AtBody, Length
  <2>4. /\ last'.pos = last.pos /\ Ends' = Ends /\ Len(stream') = Len(stream)
        /\ \A k : EndOf(k - 1)' = EndOf(k - 1)
    BY <1>3 DEF Ends, EndOf
  <2>5. /\ last.pos \in Ends /\ (call.stage = "header" => AtStart)
        /\ call.stage # "header" =>
             \E k \in 1..Len(stream) :
                last.pos = EndOf(k - 1) /\ IF call.stage = "length" THEN AtLength(k) ELSE AtBody(k)
    BY <1>0 DEF PortsInv, FrameInv
  <2> QED BY <1>5, <2>1, <2>2, <2>3, <2>4, <2>5 DEF FrameInv, Reading
<1>10. IntactInv' BY <1>5 DEF IntactInv, Reading
<1> QED BY <1>3, <1>7, <1>8, <1>9, <1>10 DEF PortsInv

\* What is not a step of readPacket leaves what readPacket returned.
LEMMA NotReading ==
    ASSUME PortsInv, ~Reading, ~Reading', UNCHANGED <<port, stream, pos, body, last>>
    PROVE  BodyInv' /\ FrameInv' /\ IntactInv'
<1>1. BodyInv' BY DEF BodyInv
<1>2. FrameInv' BY DEF PortsInv, FrameInv
<1>3. IntactInv' BY DEF PortsInv, IntactInv, EndOf
<1> QED BY <1>1, <1>2, <1>3

LEMMA IdleIsNoRead == ASSUME call = Idle PROVE ~Reading
BY DEF Idle, Reading

LEMMA FromFacts ==
    ASSUME TypeOK, call.op = "send", NEW n \in Nat
    PROVE  From(n) \in Seq(Nat) /\ Len(From(n)) = n /\ \A i \in 1..n : From(n)[i] = call.sent + i
<1>1. call.sent \in Nat
  <2>1. call \in SendCall BY DEF TypeOK, Idle, ReadCall
  <2> QED BY <2>1, Numbers DEF SendCall
<1>2. \A i \in 1..n : call.sent + i \in Nat BY <1>1
<1>3. From(n) = [i \in 1..n |-> call.sent + i] BY DEF From
<1> QED BY <1>2, <1>3

\* What a write may put on the wire and return.
LEMMA WriteFacts ==
    ASSUME TypeOK, call.op = "send",
           NEW w \in IF peer = "none" THEN {Wrote(-1, << >>, FALSE)} ELSE Written
    PROVE  /\ w.rc \in Int /\ w.put \in Seq(Nat) /\ w.late \in BOOLEAN
           /\ port # "mbed" =>
                /\ \A i \in 1..Len(w.put) : w.put[i] = call.sent + i
                /\ w.rc >= 0 => Len(w.put) = w.rc
                /\ port \in CppPorts => (IF w.rc < 0 THEN 0 ELSE w.rc) + call.sent <= SendLength
                /\ port \in CppPorts /\ w.rc < 0 => w.put = << >>
<1> DEFINE s == call.sent
           G(q) == /\ w.rc \in Int /\ w.put \in Seq(Nat) /\ w.late \in BOOLEAN
                   /\ \A i \in 1..Len(w.put) : w.put[i] = s + i
                   /\ w.rc >= 0 => Len(w.put) = w.rc
                   /\ w.rc <= q
<1>1. s \in 0..(SendLength - 1) /\ SendLength \in Nat \ {0}
  <2>1. call \in SendCall BY DEF TypeOK, Idle, ReadCall
  <2> QED BY <2>1, Numbers DEF SendCall
<1>2. \A n \in Nat : /\ From(n) \in Seq(Nat) /\ Len(From(n)) = n
                     /\ \A i \in 1..n : From(n)[i] = s + i
  BY FromFacts
<1>3. ASSUME NEW n \in Nat, NEW late \in BOOLEAN, NEW q \in Nat, n <= q, w = Wrote(n, From(n), late)
      PROVE  G(q)
  <2>1. w.rc = n /\ w.put = From(n) /\ w.late = late BY <1>3 DEF Wrote
  <2>2. w.put \in Seq(Nat) /\ Len(w.put) = n /\ \A i \in 1..n : w.put[i] = s + i
    BY <1>2, <2>1
  <2>3. \A i \in 1..Len(w.put) : w.put[i] = s + i BY <2>2
  <2>4. w.rc \in Int /\ w.rc <= q /\ Len(w.put) = w.rc BY <1>3, <2>1, <2>2
  <2> QED BY <2>1, <2>2, <2>3, <2>4
<1>4. ASSUME NEW n \in Nat, NEW q \in Nat, w = Wrote(-1, From(n), FALSE)
      PROVE  G(q)
  <2>1. w.rc = -1 /\ w.put = From(n) /\ w.late = FALSE BY <1>4 DEF Wrote
  <2>2. w.put \in Seq(Nat) /\ Len(w.put) = n /\ \A i \in 1..n : w.put[i] = s + i
    BY <1>2, <2>1
  <2>3. \A i \in 1..Len(w.put) : w.put[i] = s + i BY <2>2
  <2>4. w.rc \in Int /\ w.rc <= q /\ ~(w.rc >= 0) BY <2>1
  <2> QED BY <2>1, <2>2, <2>3, <2>4
<1>5. ASSUME NEW late \in BOOLEAN, NEW q \in Nat, w = Wrote(-1, << >>, late)
      PROVE  G(q) /\ w.put = << >>
  <2>1. w.rc = -1 /\ w.put = << >> /\ w.late = late BY <1>5 DEF Wrote
  <2> HIDE DEF s
  <2> QED BY <2>1, EmptyIsSeq
<1> HIDE DEF G
<1>6. SendLength - s \in Nat \ {0} /\ 0 + s <= SendLength BY <1>1
<1>7. ASSUME NEW q \in Nat \ {0}, w \in linux_write(q) PROVE G(q) /\ (w.rc < 0 => w.put = << >>)
  <2>1. CASE \E n \in 1..q, late \in BOOLEAN : w = Wrote(n, From(n), late)
    <3>1. PICK n \in 1..q, late \in BOOLEAN : w = Wrote(n, From(n), late) BY <2>1
    <3>2. n \in Nat /\ n <= q /\ ~(n < 0) /\ w.rc = n BY <3>1 DEF Wrote
    <3>3. G(q) BY <1>3, <3>1, <3>2
    <3> QED BY <3>2, <3>3
  <2>2. CASE \E late \in BOOLEAN : w = Wrote(-1, << >>, late) BY <1>5, <2>2
  <2> QED BY <1>7, <2>1, <2>2 DEF linux_write
<1>8. ASSUME NEW q \in Nat \ {0}, w \in cc3200_write(q) PROVE G(q)
  <2>1. CASE \E n \in 1..q, late \in BOOLEAN : w = Wrote(n, From(n), late)
    <3>1. PICK n \in 1..q, late \in BOOLEAN : w = Wrote(n, From(n), late) BY <2>1
    <3>2. n \in Nat /\ n <= q OBVIOUS
    <3> QED BY <1>3, <3>1, <3>2
  <2>2. CASE w = Wrote(-1, << >>, TRUE) BY <1>5, <2>2
  <2> DEFINE J(n, late) == Wrote(n, From(n), late)
             z == Wrote(-1, << >>, TRUE)
  <2>3. cc3200_write(q) = {J(n, late) : n \in 1..q, late \in BOOLEAN} \cup {z} BY DEF cc3200_write
  <2>4. (\E n \in 1..q, late \in BOOLEAN : w = J(n, late)) \/ w = z
    <3> HIDE DEF J, z
    <3> QED BY <1>8, <2>3
  <2> QED BY <2>1, <2>2, <2>4
<1>9. ASSUME NEW q \in Nat \ {0}, w \in FreeRTOS_write(q) PROVE G(q)
  <2>1. CASE w = Wrote(q, From(q), FALSE)
    <3>1. q \in Nat /\ q <= q OBVIOUS
    <3> QED BY <1>3, <2>1, <3>1
  <2>2. CASE \E n \in 0..(q - 1) : w = Wrote(n, From(n), TRUE) \/ w = Wrote(-1, From(n), FALSE)
    <3>1. PICK n \in 0..(q - 1) : w = Wrote(n, From(n), TRUE) \/ w = Wrote(-1, From(n), FALSE)
      BY <2>2
    <3>2. n \in Nat /\ n <= q OBVIOUS
    <3> QED BY <1>3, <1>4, <3>1, <3>2
  <2> QED BY <1>9, <2>1, <2>2 DEF FreeRTOS_write
<1>10. ASSUME NEW q \in Nat \ {0}, w \in arduino_write(q) PROVE G(q) /\ w.rc >= 0
  <2>0. \E n \in 0..q, late \in BOOLEAN : w = Wrote(n, From(n), late)
    <3> DEFINE J(n, late) == Wrote(n, From(n), late)
    <3>1. arduino_write(q) = {J(n, late) : n \in 0..q, late \in BOOLEAN} BY DEF arduino_write
    <3>2. SUFFICES \E n \in 0..q, late \in BOOLEAN : w = J(n, late) OBVIOUS
    <3> HIDE DEF J
    <3> QED BY <1>10, <3>1
  <2>1. PICK n \in 0..q, late \in BOOLEAN : w = Wrote(n, From(n), late) BY <2>0
  <2>2. n \in Nat /\ n <= q /\ n >= 0 /\ w.rc = n BY <2>1 DEF Wrote
  <2>3. G(q) BY <1>3, <2>1, <2>2
  <2> QED BY <2>2, <2>3
<1>11. ASSUME NEW q \in Nat \ {0}, w \in mbed_write(q)
       PROVE  w.rc \in Int /\ w.put \in Seq(Nat) /\ w.late \in BOOLEAN
  <2>1. CASE w \in FreeRTOS_write(q)
    <3>1. G(q) BY <1>9, <2>1
    <3> QED BY <3>1 DEF G
  <2>2. CASE w \notin FreeRTOS_write(q)
    <3>0. \E n \in 1..(q - 1), m \in 1..q : w = Wrote(n + m, From(n) \o From(m), FALSE)
      <4> DEFINE J(n, m) == Wrote(n + m, From(n) \o From(m), FALSE)
      <4>1. mbed_write(q) = FreeRTOS_write(q) \cup {J(n, m) : n \in 1..(q - 1), m \in 1..q}
        BY DEF mbed_write
      <4>2. SUFFICES \E n \in 1..(q - 1), m \in 1..q : w = J(n, m) OBVIOUS
      <4> HIDE DEF J
      <4> QED BY <1>11, <2>2, <4>1
    <3>1. PICK n \in 1..(q - 1), m \in 1..q : w = Wrote(n + m, From(n) \o From(m), FALSE)
      BY <3>0
    <3>2. n \in Nat /\ m \in Nat /\ n + m \in Int OBVIOUS
    <3>3. From(n) \o From(m) \in Seq(Nat) BY <1>2, <3>2, Concatenated
    <3> QED BY <3>1, <3>2, <3>3 DEF Wrote
  <2> QED BY <2>1, <2>2
<1>12. port \in {"linux.cpp", "arduino", "mbed", "MQTTLinux", "FreeRTOS", "cc3200"}
  BY PortsAssumption DEF TypeOK, CppPorts, CPorts
<1>13. CASE peer = "none"
  <2>1. w = Wrote(-1, << >>, FALSE) BY <1>13
  <2>2. G(0) /\ w.put = << >> /\ w.rc = -1 BY <1>5, <2>1 DEF Wrote
  <2> HIDE DEF s
  <2> QED BY <1>6, <2>2 DEF s, G
<1>14. CASE peer # "none"
  <2>1. w \in Written BY <1>14
  <2>2. CASE port = "linux.cpp"
    <3>1. w \in linux_write(SendLength - s) BY <2>1, <2>2 DEF Written
    <3>2. G(SendLength - s) /\ (w.rc < 0 => w.put = << >>) BY <1>6, <1>7, <3>1
    <3>3. (IF w.rc < 0 THEN 0 ELSE w.rc) + s <= SendLength
      <4> HIDE DEF s
      <4> QED BY <1>1, <3>2 DEF G
    <3> QED BY <3>2, <3>3 DEF G
  <2>3. CASE port = "arduino"
    <3>1. w \in arduino_write(SendLength - s) BY <2>1, <2>3 DEF Written
    <3>2. G(SendLength - s) /\ w.rc >= 0 BY <1>6, <1>10, <3>1
    <3>3. (IF w.rc < 0 THEN 0 ELSE w.rc) + s <= SendLength /\ ~(w.rc < 0)
      <4> HIDE DEF s
      <4> QED BY <1>1, <3>2 DEF G
    <3> QED BY <3>2, <3>3 DEF G
  <2>4. CASE port = "mbed"
    <3>1. w \in mbed_write(SendLength - s) BY <2>1, <2>4 DEF Written
    <3> QED BY <1>6, <1>11, <2>4, <3>1
  <2>5. CASE port = "MQTTLinux"
    <3>1. w \in linux_write(SendLength) BY <2>1, <2>5 DEF Written
    <3>2. G(SendLength) BY <1>1, <1>7, <3>1
    <3> QED BY <2>5, <3>2 DEF CppPorts, G
  <2>6. CASE port = "cc3200"
    <3>1. w \in cc3200_write(SendLength) BY <2>1, <2>6 DEF Written
    <3>2. G(SendLength) BY <1>1, <1>8, <3>1
    <3> QED BY <2>6, <3>2 DEF CppPorts, G
  <2>7. CASE port = "FreeRTOS"
    <3>1. w \in FreeRTOS_write(SendLength) BY <2>1, <2>7 DEF Written
    <3>2. G(SendLength) BY <1>1, <1>9, <3>1
    <3> QED BY <2>7, <3>2 DEF CppPorts, G
  <2> QED BY <1>12, <2>2, <2>3, <2>4, <2>5, <2>6, <2>7
<1> QED BY <1>13, <1>14

LEMMA WriteTypes ==
    ASSUME TypeOK, Write
    PROVE  /\ call' \in {Idle} \cup SendCall /\ call'.op # "read"
           /\ out' \in [put : Seq(Nat), rc : {SUCCESS, FAILURE}]
           /\ elapsed' \in 0..Horizon
<1>0. call.op = "send" BY DEF Write
<1>1. call \in SendCall /\ call.sent \in 0..(SendLength - 1) /\ SendLength \in Nat \ {0}
  <2>1. call \in SendCall BY <1>0 DEF TypeOK, Idle, ReadCall
  <2> QED BY <2>1, Numbers DEF SendCall
<1>2. PICK w \in IF peer = "none" THEN {Wrote(-1, << >>, FALSE)} ELSE Written :
        LET sent == IF w.rc < 0 THEN call.sent ELSE call.sent + w.rc
        IN /\ elapsed' = IF w.late THEN Max({elapsed, Timeout}) ELSE elapsed
           /\ LET ends == w.rc < 0 \/ sent >= SendLength \/ expired'
              IN /\ call' = IF ends THEN Idle ELSE [call EXCEPT !.sent = sent]
                 /\ out' = [put |-> out.put \o w.put,
                            rc |-> IF ends /\ sent = SendLength THEN SUCCESS ELSE FAILURE]
  BY DEF Write
<1> DEFINE sent == IF w.rc < 0 THEN call.sent ELSE call.sent + w.rc
           ends == w.rc < 0 \/ sent >= SendLength \/ expired'
<1>3. w.rc \in Int /\ w.put \in Seq(Nat) BY <1>0, WriteFacts
<1>4. sent \in Nat /\ (~ends => sent \in 0..(SendLength - 1))
  <2>1. sent \in Nat BY <1>1, <1>3
  <2> HIDE DEF sent
  <2> QED BY <1>1, <2>1
<1>5. /\ call' = IF ends THEN Idle ELSE [call EXCEPT !.sent = sent]
      /\ out' = [put |-> out.put \o w.put,
                 rc |-> IF ends /\ sent = SendLength THEN SUCCESS ELSE FAILURE]
  BY <1>2
<1> HIDE DEF sent, ends
<1>6. call' \in {Idle} \cup SendCall /\ call'.op # "read"
  BY <1>1, <1>4, <1>5 DEF SendCall, Idle
<1>7. out.put \o w.put \in Seq(Nat)
  <2>1. out.put \in Seq(Nat) BY DEF TypeOK
  <2> QED BY <1>3, <2>1, Concatenated
<1>8. out' \in [put : Seq(Nat), rc : {SUCCESS, FAILURE}] BY <1>5, <1>7
<1>9. elapsed' \in 0..Horizon
  <2>1. elapsed \in 0..Horizon /\ Timeout \in Nat /\ Horizon \in Nat /\ Timeout < Horizon
    BY Numbers DEF TypeOK
  <2>2. Max({elapsed, Timeout}) \in 0..Horizon
    <3>1. elapsed \in Int /\ Timeout \in Int BY <2>1
    <3> QED BY <2>1, <3>1, MaxOfTwo
  <2> QED BY <1>2, <2>1, <2>2
<1> QED BY <1>6, <1>8, <1>9

LEMMA WriteStep ==
    ASSUME PortsInv, Write
    PROVE  PortsInv' /\ last' = last
<1>0. TypeOK /\ ~Reading BY DEF PortsInv, Write, Reading
<1>1. UNCHANGED <<port, stream, arrived, pos, peer, open, start, spent, body, last, calls>>
  BY DEF Write, connection
<1>2. /\ call' \in {Idle} \cup SendCall /\ call'.op # "read"
      /\ out' \in [put : Seq(Nat), rc : {SUCCESS, FAILURE}] /\ elapsed' \in 0..Horizon
  BY <1>0, WriteTypes DEF PortsInv
<1>3. TypeOK'
  <2>1. bytes' = bytes BY <1>1 DEF bytes
  <2> QED BY <1>0, <1>1, <1>2, <2>1 DEF TypeOK
<1>4. ~Reading' BY <1>2 DEF Reading
<1> QED BY <1>0, <1>1, <1>3, <1>4, NotReading DEF PortsInv

LEMMA ConnectStep ==
    ASSUME PortsInv, Connect
    PROVE  PortsInv' /\ last'.pos = 0 /\ last'.rc = 0 /\ last'.short = FALSE /\ port' = port
<1>0. TypeOK /\ ~Reading BY IdleIsNoRead DEF PortsInv, Connect
<1>1. /\ UNCHANGED <<port, start, elapsed, spent, call, body, out, calls>>
      /\ stream' \in Streams /\ arrived' = 0 /\ pos' = 0 /\ call = Idle
      /\ last' = [rc |-> SUCCESS, short |-> FALSE, pos |-> 0]
  BY DEF Connect, timers
<1>2. last'.pos = 0 /\ last'.rc = 0 /\ last'.short = FALSE /\ last' \in LastType
  BY <1>1 DEF LastType, SUCCESS
<1>3. peer' \in {"up", "closed", "broken", "none"} /\ open' \in BOOLEAN
  <2>1. PICK c \in Connects : peer' = c.peer /\ open' = c.ok BY DEF Connect
  <2>2. port \in {"linux.cpp", "arduino", "mbed", "MQTTLinux", "FreeRTOS", "cc3200"}
    BY <1>0, PortsAssumption DEF TypeOK, CppPorts, CPorts
  <2>3. c.ok \in BOOLEAN /\ c.peer \in {"up", "none"}
    <3> DEFINE R == [ok : BOOLEAN, peer : {"up", "none"}]
    <3>1. /\ Success \in R /\ NoConnection \in R
          /\ [ok |-> TRUE, peer |-> "none"] \in R /\ [ok |-> FALSE, peer |-> "up"] \in R
      BY DEF Success, NoConnection
    <3>2. c \in R
      <4> HIDE DEF R
      <4>1. CASE port = "linux.cpp" BY <2>1, <3>1, <4>1 DEF Connects, linux_cpp_connect
      <4>2. CASE port = "MQTTLinux" BY <2>1, <3>1, <4>2 DEF Connects, NetworkConnect
      <4>3. CASE port = "FreeRTOS" BY <2>1, <3>1, <4>3 DEF Connects, FreeRTOS_connect
      <4>4. CASE port = "cc3200"
        BY <2>1, <3>1, <4>4 DEF Connects, ConnectNetwork, TLSConnectNetwork
      <4>5. CASE port = "arduino" BY <2>1, <3>1, <4>5 DEF Connects, Client_connect
      <4>6. CASE port = "mbed" BY <2>1, <3>1, <4>6 DEF Connects, MQTTSocket_connect
      <4> QED BY <2>2, <4>1, <4>2, <4>3, <4>4, <4>5, <4>6
    <3> QED BY <3>2
  <2> QED BY <2>1, <2>3
<1>4. TypeOK'
  <2>1. Len(bytes') \in Nat BY <1>1, StreamEnds DEF bytes
  <2>2. 0 \in 0..Len(bytes') /\ 0 \in 0..0 BY <2>1
  <2>3. pos' \in 0..arrived' /\ arrived' \in 0..Len(bytes') BY <1>1, <2>2
  <2>4. call' \in {Idle} \cup ReadCall \cup SendCall /\ call'.op # "read" BY <1>1 DEF Idle
  <2>5. last' \in [rc : {Type, 1, SUCCESS, FAILURE, BUFFER_OVERFLOW}, short : BOOLEAN, pos : Nat]
    BY <1>2 DEF LastType
  <2> QED BY <1>0, <1>1, <1>3, <2>3, <2>4, <2>5 DEF TypeOK
<1>5. ~Reading' BY <1>1 DEF Reading, Idle
<1>6. BodyInv' BY <1>5 DEF BodyInv
<1>7. FrameInv' BY <1>1, <1>2, <1>5 DEF FrameInv
<1>8. IntactInv' BY <1>2 DEF IntactInv, Type
<1> QED BY <1>1, <1>2, <1>4, <1>6, <1>7, <1>8 DEF PortsInv

LEMMA CountdownTypes ==
    ASSUME TypeOK, countdown_ms \/ UNCHANGED <<start, elapsed>>, port' = port
    PROVE  start' \in Starts /\ elapsed' \in 0..Horizon /\ left_ms' \in Int
<1>1. start' \in Starts /\ elapsed' \in 0..Horizon
  <2>1. 0 \in Starts /\ 0 \in 0..Horizon BY Numbers, PortsAssumption
  <2>2. StartsOf(port) \subseteq Starts BY <2>1 DEF StartsOf
  <2>3. start \in Starts /\ elapsed \in 0..Horizon BY DEF TypeOK
  <2> QED BY <2>1, <2>2, <2>3 DEF countdown_ms
<1>2. Timeout \in Nat /\ elapsed' \in Int BY <1>1, Numbers
<1>3. Max({0, Timeout - elapsed'}) \in Int
  <2>1. 0 \in Int /\ Timeout - elapsed' \in Int BY <1>2
  <2> QED BY <2>1, MaxOfTwo
<1>4. left_ms' \in Int BY <1>2, <1>3 DEF left_ms, TimerLeftMS
<1> QED BY <1>1, <1>4

LEMMA CallTypes ==
    ASSUME TypeOK, calls < MaxCalls, calls' = calls + 1
    PROVE  calls' \in 0..MaxCalls
BY Numbers DEF TypeOK

LEMMA ReadPacketCallStep ==
    ASSUME PortsInv, ReadPacket
    PROVE  PortsInv' /\ last' = last
<1>0. TypeOK /\ ~Reading BY IdleIsNoRead DEF PortsInv, ReadPacket
<1>1. /\ UNCHANGED <<port, stream, arrived, pos, peer, open, spent, last>>
      /\ pos \in Ends /\ calls < MaxCalls /\ calls' = calls + 1
      /\ countdown_ms \/ UNCHANGED <<start, elapsed>>
      /\ body' = << >> /\ out' = [put |-> << >>, rc |-> FAILURE]
      /\ call' = [op |-> "read", stage |-> "header", want |-> 1, timeout |-> left_ms', bytes |-> 0,
                  tries |-> 0, waited |-> 0, digits |-> 0, value |-> 0, short |-> FALSE]
  BY DEF ReadPacket, connection
<1>2. start' \in Starts /\ elapsed' \in 0..Horizon /\ left_ms' \in Int
  BY <1>0, <1>1, CountdownTypes
<1>3. calls' \in 0..MaxCalls BY <1>0, <1>1, CallTypes
<1>4. /\ call' \in ReadCall /\ call'.op = "read" /\ call'.stage = "header" /\ call'.want = 1
      /\ call'.bytes = 0 /\ call'.digits = 0 /\ call'.value = 0 /\ ~call'.short
  <2>1. 0 \in 0..Timeout BY Numbers
  <2> HIDE DEF left_ms
  <2> QED BY <1>1, <1>2, <2>1 DEF ReadCall
<1>5. call'.bytes < call'.want BY <1>4
<1>6. TypeOK'
  <2>1. bytes' = bytes BY <1>1 DEF bytes
  <2>2. out' \in [put : Seq(Nat), rc : {SUCCESS, FAILURE}] /\ body' \in Seq(Nat)
    BY <1>1, EmptyIsSeq
  <2> QED BY <1>0, <1>1, <1>2, <1>3, <1>4, <1>5, <2>1, <2>2 DEF TypeOK
<1>7. last.pos = pos BY <1>0 DEF PortsInv, FrameInv
<1>8. AtStart' BY <1>1, <1>4, <1>7 DEF AtStart
<1>9. FrameInv' BY <1>1, <1>4, <1>7, <1>8 DEF FrameInv, Reading, Ends
<1>10. BodyInv' /\ IntactInv' BY <1>1, <1>4 DEF BodyInv, IntactInv, Reading
<1> QED BY <1>1, <1>6, <1>9, <1>10 DEF PortsInv

LEMMA SendPacketStep ==
    ASSUME PortsInv, SendPacket
    PROVE  PortsInv' /\ last' = last
<1>0. TypeOK /\ ~Reading BY IdleIsNoRead DEF PortsInv, SendPacket
<1>1. /\ UNCHANGED <<port, stream, arrived, pos, peer, open, spent, body, last>>
      /\ calls < MaxCalls /\ calls' = calls + 1
      /\ countdown_ms \/ UNCHANGED <<start, elapsed>>
      /\ out' = [put |-> << >>, rc |-> FAILURE]
      /\ call' = Idle \/ call' = [op |-> "send", sent |-> 0]
  BY DEF SendPacket, connection
<1>2. start' \in Starts /\ elapsed' \in 0..Horizon BY <1>0, <1>1, CountdownTypes
<1>3. calls' \in 0..MaxCalls BY <1>0, <1>1, CallTypes
<1>4. call' \in {Idle} \cup SendCall /\ call'.op # "read"
  <2>1. 0 \in 0..(SendLength - 1) BY Numbers
  <2> QED BY <1>1, <2>1 DEF SendCall, Idle
<1>5. TypeOK'
  <2>1. bytes' = bytes BY <1>1 DEF bytes
  <2>2. out' \in [put : Seq(Nat), rc : {SUCCESS, FAILURE}] BY <1>1, EmptyIsSeq
  <2> QED BY <1>0, <1>1, <1>2, <1>3, <1>4, <2>1, <2>2 DEF TypeOK
<1>6. ~Reading' BY <1>4 DEF Reading
<1> QED BY <1>0, <1>1, <1>5, <1>6, NotReading DEF PortsInv

\* The network does what it does while the call goes on.
LEMMA ElsewhereStep ==
    ASSUME PortsInv, UNCHANGED <<port, stream, pos, call, body, last>>
    PROVE  BodyInv' /\ FrameInv' /\ IntactInv'
<1>1. BodyInv' BY DEF PortsInv, BodyInv, Reading
<1>2. FrameInv'
  BY DEF PortsInv, FrameInv, Reading, AtStart, AtLength, AtBody, Length, Ends, EndOf
<1>3. IntactInv' BY DEF PortsInv, IntactInv, Reading, EndOf
<1> QED BY <1>1, <1>2, <1>3

LEMMA ArriveStep ==
    ASSUME PortsInv, Arrive
    PROVE  PortsInv' /\ last' = last
<1>1. /\ UNCHANGED <<port, stream, pos, peer, open, start, elapsed, spent, call, body, out, last,
                     calls>>
      /\ arrived' \in (arrived + 1)..Len(bytes)
  BY DEF Arrive, timers
<1>2. TypeOK'
  <2>1. bytes' = bytes BY <1>1 DEF bytes
  <2>2. Len(bytes) \in Nat BY StreamEnds DEF PortsInv, TypeOK, bytes
  <2>3. pos \in 0..arrived /\ arrived \in 0..Len(bytes) BY DEF PortsInv, TypeOK
  <2>4. pos' \in 0..arrived' /\ arrived' \in 0..Len(bytes') BY <1>1, <2>1, <2>2, <2>3
  <2> QED BY <1>1, <2>4 DEF PortsInv, TypeOK
<1> QED BY <1>1, <1>2, ElsewhereStep DEF PortsInv

LEMMA BreakStep ==
    ASSUME PortsInv, Break
    PROVE  PortsInv' /\ last' = last
<1>1. /\ UNCHANGED <<port, stream, arrived, pos, open, start, elapsed, spent, call, body, out, last,
                     calls>>
      /\ peer' \in {"closed", "broken"}
  BY DEF Break, timers
<1>2. TypeOK'
  <2>1. bytes' = bytes BY <1>1 DEF bytes
  <2> QED BY <1>1, <2>1 DEF PortsInv, TypeOK
<1> QED BY <1>1, <1>2, ElsewhereStep DEF PortsInv

LEMMA StutterStep ==
    ASSUME PortsInv, UNCHANGED vars
    PROVE  PortsInv' /\ last' = last
<1>1. UNCHANGED <<port, stream, arrived, pos, peer, open, start, elapsed, spent, call, body, out,
                  last, calls>>
  BY DEF vars, connection, timers
<1>2. TypeOK'
  <2>1. bytes' = bytes BY <1>1 DEF bytes
  <2> QED BY <1>1, <2>1 DEF PortsInv, TypeOK
<1> QED BY <1>1, <1>2, ElsewhereStep DEF PortsInv

LEMMA PortsInit == Init => PortsInv
<1> SUFFICES ASSUME Init PROVE PortsInv OBVIOUS
<1>1. ~Reading BY IdleIsNoRead DEF Init
<1>2. last.pos = 0 /\ last.rc = 0 /\ last.short = FALSE /\ last \in LastType
  BY DEF Init, LastType, SUCCESS
<1>3. TypeOK
  <2>1. stream \in Streams /\ Len(bytes) \in Nat BY StreamEnds DEF Init, bytes
  <2>2. 0 \in 0..Len(bytes) /\ 0 \in 0..0 /\ 0 \in Starts /\ Timeout \in 0..Horizon
        /\ 0 \in 0..Timeout /\ 0 \in 0..MaxCalls
    BY <2>1, Numbers, PortsAssumption
  <2>3. pos \in 0..arrived /\ arrived \in 0..Len(bytes) BY <2>2 DEF Init
  <2>4. call \in {Idle} \cup ReadCall \cup SendCall /\ call.op # "read" BY DEF Init, Idle
  <2>5. out \in [put : Seq(Nat), rc : {SUCCESS, FAILURE}] /\ body \in Seq(Nat)
    BY EmptyIsSeq DEF Init
  <2>6. last \in [rc : {Type, 1, SUCCESS, FAILURE, BUFFER_OVERFLOW}, short : BOOLEAN, pos : Nat]
    BY <1>2 DEF LastType
  <2> QED BY <2>2, <2>3, <2>4, <2>5, <2>6 DEF Init, TypeOK
<1>4. BodyInv BY <1>1 DEF BodyInv
<1>5. FrameInv BY <1>1, <1>2 DEF FrameInv, Init
<1>6. IntactInv BY <1>2 DEF IntactInv, Type
<1> QED BY <1>3, <1>4, <1>5, <1>6 DEF PortsInv

LEMMA PortsStep == PortsInv /\ [Next]_vars => PortsInv'
<1> SUFFICES ASSUME PortsInv, [Next]_vars PROVE PortsInv' OBVIOUS
<1>1. CASE Recv BY <1>1, RecvStep
<1>2. CASE RecvEnds BY <1>2, RecvEndsStep
<1>3. CASE Tick BY <1>3, TickStep
<1>4. CASE Write BY <1>4, WriteStep
<1>5. CASE Connect BY <1>5, ConnectStep
<1>6. CASE ReadPacket BY <1>6, ReadPacketCallStep
<1>7. CASE SendPacket BY <1>7, SendPacketStep
<1>8. CASE Arrive BY <1>8, ArriveStep
<1>9. CASE Break BY <1>9, BreakStep
<1>10. CASE UNCHANGED vars BY <1>10, StutterStep
<1> QED
  BY <1>1, <1>2, <1>3, <1>4, <1>5, <1>6, <1>7, <1>8, <1>9, <1>10 DEF Next

LEMMA PortsInvariant == Spec => []PortsInv
BY PortsInit, PortsStep, PTL DEF Spec

\* Every call of readPacket and sendPacket, the timers and the places in the streams
\* keep their ranges; a recv is always for at least one byte.
THEOREM PortsTypeCorrect == Spec => []TypeOK
<1>1. PortsInv => TypeOK BY DEF PortsInv
<1> QED BY <1>1, PortsInvariant, PTL

\* What readPacket returns as a whole packet is in the read buffer byte for byte: over every
\* port but mbed, for all streams of packets and however their bytes arrive.
THEOREM PacketsAreIntact == Spec => []ReadIntact
<1>1. PortsInv => ReadIntact
  <2> SUFFICES ASSUME PortsInv, call = Idle, last.rc = Type, ~last.short, port # "mbed"
               PROVE  \E k \in DOMAIN stream :
                        /\ EndOf(k) = last.pos
                        /\ body = [i \in 1..stream[k].rem |-> last.pos - stream[k].rem + i]
    BY DEF ReadIntact
  <2>1. ~Reading BY IdleIsNoRead
  <2> QED BY <2>1 DEF PortsInv, IntactInv
<1> QED BY <1>1, PortsInvariant, PTL

\* A timer has expired only when its time is over, and is seen to have expired a tick later,
\* for every size of the clock and every time to set it, also when the clock wraps.
THEOREM TimersTellTheTime == Spec => []TimerTellsTime
<1>1. TypeOK => TimerTellsTime BY ExpiresInTime DEF TimerTellsTime
<1> QED BY <1>1, PortsTypeCorrect, PTL

-----------------------------------------------------------------------------
(***************************************************************************)
(* What sendPacket puts on the wire.  Between its writes `sent' counts     *)
(* what is there.                                                          *)
(***************************************************************************)
SendInv ==
    port # "mbed" =>
        /\ \A i \in 1..Len(out.put) : out.put[i] = i
        /\ call.op = "send" => call.sent = Len(out.put) /\ out.rc = FAILURE
        /\ out.rc = SUCCESS => Len(out.put) = SendLength
        /\ port \in CppPorts => Len(out.put) <= SendLength

LEMMA SendWrites ==
    ASSUME TypeOK, SendInv, Write
    PROVE  SendInv'
<1> SUFFICES ASSUME port # "mbed"
             PROVE  /\ \A i \in 1..Len(out'.put) : out'.put[i] = i
                    /\ call'.op = "send" => call'.sent = Len(out'.put) /\ out'.rc = FAILURE
                    /\ out'.rc = SUCCESS => Len(out'.put) = SendLength
                    /\ port \in CppPorts => Len(out'.put) <= SendLength
  BY DEF SendInv, Write
<1>0. call.op = "send" BY DEF Write
<1>1. call \in SendCall /\ call.sent \in 0..(SendLength - 1) /\ SendLength \in Nat \ {0}
  <2>1. call \in SendCall BY <1>0 DEF TypeOK, Idle, ReadCall
  <2> QED BY <2>1, Numbers DEF SendCall
<1>2. PICK w \in IF peer = "none" THEN {Wrote(-1, << >>, FALSE)} ELSE Written :
        LET sent == IF w.rc < 0 THEN call.sent ELSE call.sent + w.rc
            ends == w.rc < 0 \/ sent >= SendLength \/ expired'
        IN /\ call' = IF ends THEN Idle ELSE [call EXCEPT !.sent = sent]
           /\ out' = [put |-> out.put \o w.put,
                      rc |-> IF ends /\ sent = SendLength THEN SUCCESS ELSE FAILURE]
  BY DEF Write
<1>3. PICK u, v, r, n, m : u = out.put /\ v = w.put /\ r = w.rc /\ n = Len(u) /\ m = Len(v) OBVIOUS
<1>4. PICK sent : sent = IF r < 0 THEN n ELSE n + r OBVIOUS
<1>5. PICK ends : ends = (r < 0 \/ sent >= SendLength \/ expired') OBVIOUS
<1>6. u \in Seq(Nat) /\ v \in Seq(Nat) /\ r \in Int /\ n \in Nat /\ m \in Nat
  <2>1. u \in Seq(Nat) BY <1>3 DEF TypeOK
  <2>2. v \in Seq(Nat) /\ r \in Int BY <1>0, <1>3, WriteFacts
  <2> QED BY <1>3, <2>1, <2>2
<1>7. call.sent = n /\ n < SendLength /\ \A i \in 1..n : u[i] = i
  <2>1. call.sent = n /\ \A i \in 1..n : u[i] = i BY <1>0, <1>3 DEF SendInv
  <2> QED BY <1>1, <2>1
<1>8. /\ \A i \in 1..m : v[i] = n + i
      /\ r >= 0 => m = r
      /\ port \in CppPorts => (IF r < 0 THEN 0 ELSE r) + n <= SendLength
      /\ port \in CppPorts /\ r < 0 => m = 0
  <2>1. /\ \A i \in 1..Len(w.put) : w.put[i] = call.sent + i
        /\ w.rc >= 0 => Len(w.put) = w.rc
        /\ port \in CppPorts => (IF w.rc < 0 THEN 0 ELSE w.rc) + call.sent <= SendLength
        /\ port \in CppPorts /\ w.rc < 0 => w.put = << >>
    BY <1>0, WriteFacts
  <2> QED BY <1>3, <1>7, <2>1, EmptyIsSeq
<1>9. /\ call' = IF ends THEN Idle ELSE [call EXCEPT !.sent = sent]
      /\ out' = [put |-> u \o v, rc |-> IF ends /\ sent = SendLength THEN SUCCESS ELSE FAILURE]
  BY <1>2, <1>3, <1>4, <1>5, <1>7
<1>10. out'.put = u \o v /\ out'.rc = IF ends /\ sent = SendLength THEN SUCCESS ELSE FAILURE
  BY <1>9
<1>11. Len(out'.put) = n + m BY <1>3, <1>6, <1>10
<1>12. ASSUME NEW i \in 1..(n + m) PROVE out'.put[i] = i
  <2>1. CASE i <= n
    <3>1. i \in 1..n BY <1>6, <2>1
    <3>2. (u \o v)[i] = u[i] BY <1>3, <1>6, <3>1, Concatenated
    <3> QED BY <1>7, <1>10, <3>1, <3>2
  <2>2. CASE i > n
    <3>1. i - n \in 1..m /\ n + (i - n) = i BY <1>6, <2>2
    <3>2. (u \o v)[i] = v[i - n] BY <1>3, <1>6, <2>2
    <3>3. v[i - n] = n + (i - n) BY <1>8, <3>1
    <3> QED BY <1>10, <3>1, <3>2, <3>3
  <2> QED BY <1>6, <2>1, <2>2
<1>13. sent \in Int /\ (r < 0 => sent < SendLength) /\ (~(r < 0) => sent = n + m)
  BY <1>4, <1>6, <1>7, <1>8
<1>14. port \in CppPorts => n + m <= SendLength
  BY <1>1, <1>6, <1>7, <1>8
<1>15. call'.op = "send" => call'.sent = Len(out'.put) /\ out'.rc = FAILURE
  <2>1. SUFFICES ASSUME call'.op = "send" PROVE call'.sent = n + m /\ out'.rc = FAILURE BY <1>11
  <2>2. ~ends BY <1>9, <2>1 DEF Idle
  <2>3. call'.sent = sent BY <1>1, <1>9, <2>2 DEF SendCall
  <2> QED BY <1>5, <1>10, <1>13, <2>2, <2>3
<1>16. out'.rc = SUCCESS => Len(out'.put) = SendLength
  <2>1. SUFFICES ASSUME out'.rc = SUCCESS PROVE n + m = SendLength BY <1>11
  <2>2. sent = SendLength BY <1>10, <2>1 DEF SUCCESS, FAILURE
  <2> QED BY <1>1, <1>13, <2>2
<1> QED BY <1>11, <1>12, <1>14, <1>15, <1>16

LEMMA SendElsewhere ==
    ASSUME SendInv, port' = port, out' = out, call'.op = "send" => call' = call
    PROVE  SendInv'
BY DEF SendInv

LEMMA SendStarts ==
    ASSUME port' = port, out' = [put |-> << >>, rc |-> FAILURE], call'.op = "send" => call'.sent = 0
    PROVE  SendInv'
<1>1. out'.put = << >> /\ out'.rc = FAILURE /\ Len(<< >>) = 0 OBVIOUS
<1>2. FAILURE # SUCCESS BY DEF FAILURE, SUCCESS
<1>3. 0 <= SendLength BY Numbers
<1> QED BY <1>1, <1>2, <1>3 DEF SendInv

LEMMA SendStep == PortsInv /\ SendInv /\ [Next]_vars => SendInv'
<1> SUFFICES ASSUME PortsInv, SendInv, [Next]_vars PROVE SendInv' OBVIOUS
<1>0. TypeOK BY DEF PortsInv
<1>1. CASE Recv
  <2>1. call'.op # "send" BY <1>1, RecvStep
  <2> QED BY <1>1, <2>1, SendElsewhere DEF Recv
<1>2. CASE RecvEnds
  <2>1. call'.op # "send" BY <1>2, RecvEndsStep
  <2> QED BY <1>2, <2>1, SendElsewhere DEF RecvEnds
<1>3. CASE Tick
  <2>1. call \in ReadCall BY <1>0, <1>3, ReadCallTypes DEF Tick, Reading
  <2>2. call'.op # "send" BY <1>3, <2>1 DEF Tick, ReadCall
  <2> QED BY <1>3, <2>2, SendElsewhere DEF Tick
<1>4. CASE Write BY <1>0, <1>4, SendWrites
<1>5. CASE Connect BY <1>5, SendElsewhere DEF Connect
<1>6. CASE ReadPacket BY <1>6, SendStarts DEF ReadPacket
<1>7. CASE SendPacket BY <1>7, SendStarts DEF SendPacket, Idle
<1>8. CASE Arrive BY <1>8, SendElsewhere DEF Arrive
<1>9. CASE Break BY <1>9, SendElsewhere DEF Break
<1>10. CASE UNCHANGED vars BY <1>10, SendElsewhere DEF vars
<1> QED
  BY <1>1, <1>2, <1>3, <1>4, <1>5, <1>6, <1>7, <1>8, <1>9, <1>10 DEF Next

\* SUCCESS of sendPacket says that the packet is on the wire, all of it and nothing else, in
\* however many parts it was written, for a packet of any length; over the C++ ports nothing but
\* the packet, or its beginning, ever is.  (Not over mbed.)
THEOREM SuccessMeansSent == Spec => []SentIsWritten
<1>1. Init => SendInv
  <2> SUFFICES ASSUME Init PROVE SendInv OBVIOUS
  <2>1. out.put = << >> /\ out.rc = FAILURE /\ Len(<< >>) = 0 /\ call.op # "send"
    BY DEF Init, Idle
  <2>2. FAILURE # SUCCESS BY DEF FAILURE, SUCCESS
  <2>3. 0 <= SendLength BY Numbers
  <2> QED BY <2>1, <2>2, <2>3 DEF SendInv
<1>2. TypeOK /\ SendInv => SentIsWritten
  <2> SUFFICES ASSUME TypeOK, SendInv, port # "mbed"
               PROVE  /\ out.rc = SUCCESS => out.put = [i \in 1..SendLength |-> i]
                      /\ port \in CppPorts =>
                           out.put = [i \in 1..Len(out.put) |-> i] /\ Len(out.put) <= SendLength
    BY DEF SentIsWritten
  <2>1. out.put \in Seq(Nat) BY DEF TypeOK
  <2>2. out.put = [i \in 1..Len(out.put) |-> out.put[i]] BY <2>1
  <2>3. out.put = [i \in 1..Len(out.put) |-> i] BY <2>2 DEF SendInv
  <2> QED BY <2>3 DEF SendInv
<1>3. Spec => []SendInv BY <1>1, SendStep, PortsInvariant, PTL DEF Spec
<1> QED BY <1>2, <1>3, PortsTypeCorrect, PTL

-----------------------------------------------------------------------------
(***************************************************************************)
(* The time readPacket takes over the ports that take the timeout for the  *)
(* whole read: what has passed is what the timer had passed when the read  *)
(* began, the whole timeout of each byte of the length before, and what    *)
(* this read has waited.                                                   *)
(***************************************************************************)
Reads(c) == c.digits + IF c.stage = "length" \/ c.short THEN 1 ELSE 0

OnTime(c, e) ==
    /\ c.timeout <= Timeout
    /\ c.stage \in {"header", "length"} => c.waited <= c.timeout
    /\ c.stage = "header" => e <= Timeout - c.timeout + c.waited
    /\ c.stage = "length" => e <= Timeout - c.timeout + c.digits * c.timeout + c.waited
    /\ c.stage = "body" =>
         /\ e <= Timeout * Max({1, Reads(c)})
         /\ c.waited < c.timeout => e <= Timeout - c.timeout + c.waited

WholeRead == port \in {"FreeRTOS", "arduino"} /\ ClockFits /\ Reading
TimeInv == WholeRead => OnTime(call, elapsed)

\* The reads of a length byte by byte, each in the same timeout.
LEMMA LengthTime ==
    ASSUME NEW T \in Nat, NEW t \in Int, NEW d \in 0..4, NEW w \in Nat, w <= t, t <= T
    PROVE  /\ T - t + d * t + w <= T - t + (d + 1) * t
           /\ T - t + d * t + w <= T * (d + 1)
           /\ T <= T * (d + 1)
<1>1. d = 0 \/ d = 1 \/ d = 2 \/ d = 3 \/ d = 4 OBVIOUS
<1>2. CASE d = 0 BY <1>2
<1>3. CASE d = 1 BY <1>3
<1>4. CASE d = 2 BY <1>4
<1>5. CASE d = 3 BY <1>5
<1>6. CASE d = 4 BY <1>6
<1> QED BY <1>1, <1>2, <1>3, <1>4, <1>5, <1>6

LEMMA ReadsFacts ==
    ASSUME NEW c \in ReadCall, NEW T \in Nat
    PROVE  /\ Reads(c) \in 0..5
           /\ Max({1, Reads(c)}) = IF Reads(c) = 0 THEN 1 ELSE Reads(c)
           /\ T <= T * Max({1, Reads(c)})
<1> DEFINE n == Reads(c)
<1>1. c.digits \in 0..4 BY DEF ReadCall
<1>2. n \in 0..5 BY <1>1 DEF Reads
<1> HIDE DEF n
<1>3. Max({1, n}) = IF n = 0 THEN 1 ELSE n
  <2>1. 1 \in Int /\ n \in Int BY <1>2
  <2> QED BY <1>2, <2>1, MaxOfTwo
<1>4. T <= T * Max({1, n})
  <2>1. n = 0 \/ n = 1 \/ n = 2 \/ n = 3 \/ n = 4 \/ n = 5 BY <1>2
  <2>2. CASE n = 0 BY <1>3, <2>2
  <2>3. CASE n = 1 BY <1>3, <2>3
  <2>4. CASE n = 2 BY <1>3, <2>4
  <2>5. CASE n = 3 BY <1>3, <2>5
  <2>6. CASE n = 4 BY <1>3, <2>6
  <2>7. CASE n = 5 BY <1>3, <2>7
  <2> QED BY <2>1, <2>2, <2>3, <2>4, <2>5, <2>6, <2>7
<1> QED BY <1>2, <1>3, <1>4 DEF n

\* What is left on the timer when a read begins.
LEMMA LeftInTime ==
    ASSUME TypeOK, port \in {"FreeRTOS", "arduino"}
    PROVE  /\ left_ms <= Timeout
           /\ elapsed <= Timeout => left_ms = Timeout - elapsed
           /\ 0 < left_ms => elapsed <= Timeout - left_ms
<1>1. Timeout \in Nat /\ elapsed \in 0..Horizon BY Numbers DEF TypeOK
<1>2. Max({0, Timeout - elapsed}) = IF 0 >= Timeout - elapsed THEN 0 ELSE Timeout - elapsed
  <2>1. 0 \in Int /\ Timeout - elapsed \in Int BY <1>1
  <2> QED BY <2>1, MaxOfTwo
<1>3. left_ms = Timeout - elapsed
      \/ left_ms = IF 0 >= Timeout - elapsed THEN 0 ELSE Timeout - elapsed
  BY <1>2 DEF left_ms, TimerLeftMS
<1> HIDE DEF left_ms
<1> QED BY <1>1, <1>3

\* The read of readPacket after the one of c.
LEMMA NextRead ==
    ASSUME TypeOK, NEW c \in ReadCall, NEW r \in Int, NEW p \in Nat,
           c.stage = "length" => c.want = 1 /\ c.digits < 4 /\ ~c.short,
           readPacket(c, r, p), call'.op = "read"
    PROVE  \/ /\ c.stage = "header" /\ call'.stage = "length" /\ call'.timeout = left_ms
              /\ call'.digits = c.digits /\ call'.waited = 0
           \/ /\ c.stage = "length" /\ call'.stage = "length" /\ call'.timeout = c.timeout
              /\ call'.digits = c.digits + 1 /\ call'.waited = 0
           \/ /\ c.stage = "length" /\ call'.stage = "body" /\ call'.timeout = left_ms
              /\ Reads(call') = c.digits + 1 /\ call'.waited = 0
<1> DEFINE d == [c EXCEPT !.short = @ \/ r # c.want]
<1>1. /\ d \in ReadCall /\ d.stage = c.stage /\ d.digits = c.digits /\ d.timeout = c.timeout
      /\ d.value = c.value /\ (d.short <=> c.short \/ r # c.want)
  BY DEF ReadCall
<1>2. c.stage \in {"header", "length", "body"} /\ c.digits \in 0..4 /\ c.timeout \in Int
  BY DEF ReadCall
<1>3. left_ms \in Int BY LeftIsInt
<1>4. ASSUME NEW rc, NEW short, NEW q, ReadEnds(rc, short, q) PROVE FALSE
  BY <1>4 DEF ReadEnds, Idle
<1> HIDE DEF d
<1>5. ASSUME NEW D, NEW v, NEW g, g = [d EXCEPT !.digits = D, !.value = v],
             NEW stage, NEW want, NEW timeout, Asks(g, stage, want, timeout)
      PROVE  /\ call'.stage = stage /\ call'.timeout = timeout /\ call'.waited = 0
             /\ call'.digits = D /\ call'.short = d.short
  BY <1>1, <1>5 DEF Asks, ReadCall
<1>10. ASSUME NEW D, NEW v, NEW g, g = [d EXCEPT !.digits = D, !.value = v], LengthRead(g, p)
       PROVE  /\ call'.stage = "body" /\ call'.timeout = left_ms /\ call'.waited = 0
              /\ call'.digits = D /\ call'.short = d.short
  <2>1. Asks(g, "body", g.value, left_ms) BY <1>4, <1>10 DEF LengthRead
  <2> QED BY <1>5, <1>10, <2>1
<1>11. d = [d EXCEPT !.digits = c.digits, !.value = c.value] BY <1>1 DEF ReadCall
<1>6. /\ c.stage = "header" /\ r = 1 => Asks(d, "length", 1, left_ms)
      /\ c.stage = "header" /\ r # 1 => ReadEnds(r, d.short, p)
      /\ c.stage = "length" => decodePacket(d, r, p)
      /\ c.stage = "body" => ReadEnds(IF r = d.want THEN Type ELSE BodyShort, d.short, p)
  BY <1>1 DEF readPacket, d
<1>7. CASE c.stage = "header"
  <2>1. Asks(d, "length", 1, left_ms) BY <1>4, <1>6, <1>7
  <2> QED BY <1>1, <1>7, <2>1 DEF Asks, ReadCall
<1>8. CASE c.stage = "length"
  <2>1. decodePacket(d, r, p) /\ (d.short <=> r # 1) /\ d.digits = c.digits BY <1>1, <1>6, <1>8
  <2>2. CASE r # 1
    <3>1. LengthRead(d, p) BY <2>1, <2>2 DEF decodePacket
    <3>2. call'.digits = c.digits /\ call'.short BY <1>10, <1>11, <2>1, <2>2, <3>1
    <3>3. Reads(call') = c.digits + 1 BY <3>2 DEF Reads
    <3> QED BY <1>8, <1>10, <1>11, <3>1, <3>3
  <2>3. CASE r = 1
    <3>1. PICK x : x = bytes[p] OBVIOUS
    <3>2. PICK v : v = d.value + (x % Base) * Multiplier(d.digits) OBVIOUS
    <3>3. PICK g : g = [d EXCEPT !.digits = c.digits + 1, !.value = v] OBVIOUS
    <3>4. Digit(d, bytes[p]) = g
      <4>1. Digit(d, bytes[p]) = [d EXCEPT !.digits = d.digits + 1,
                                    !.value = d.value + (x % Base) * Multiplier(d.digits)]
        BY <1>1, <3>1 DEF Digit, ReadCall
      <4> QED BY <1>1, <3>2, <3>3, <4>1
    <3>5. IF bytes[p] >= Base /\ g.digits < 4
            THEN Asks(g, "length", 1, d.timeout) /\ UNCHANGED last
            ELSE LengthRead(g, p)
      BY <2>1, <2>3, <3>4 DEF decodePacket
    <3>6. ~d.short BY <2>1, <2>3
    <3>9. CASE bytes[p] >= Base /\ g.digits < 4
      <4>1. Asks(g, "length", 1, c.timeout) BY <1>1, <3>5, <3>9
      <4> QED BY <1>1, <1>8, <3>3, <4>1 DEF Asks, ReadCall
    <3>10. CASE ~(bytes[p] >= Base /\ g.digits < 4)
      <4>1. LengthRead(g, p) BY <3>5, <3>10
      <4>2. call'.digits = c.digits + 1 /\ ~call'.short /\ call'.stage = "body"
        BY <1>10, <3>3, <3>6, <4>1
      <4>3. Reads(call') = c.digits + 1
        <5>1. Reads(call') = (c.digits + 1) + 0 BY <4>2 DEF Reads
        <5> QED BY <1>2, <5>1
      <4> QED BY <1>8, <1>10, <3>3, <4>1, <4>3
    <3> QED BY <3>9, <3>10
  <2> QED BY <2>2, <2>3
<1>9. CASE c.stage = "body" BY <1>4, <1>6, <1>9
<1> QED BY <1>2, <1>7, <1>8, <1>9

LEMMA WhereReading ==
    ASSUME PortsInv, Reading
    PROVE  /\ call.stage = "header" => call.want = 1 /\ call.digits = 0 /\ ~call.short
           /\ call.stage = "length" => call.want = 1 /\ call.digits < 4 /\ ~call.short
<1>1. call.stage = "header" => call.want = 1 /\ call.digits = 0 /\ ~call.short
  BY DEF PortsInv, FrameInv, AtStart
<1>2. ASSUME call.stage = "length" PROVE call.want = 1 /\ call.digits < 4 /\ ~call.short
  <2>1. PICK k \in 1..Len(stream) : AtLength(k) BY <1>2 DEF PortsInv, FrameInv
  <2>2. PICK n : n = Len(Length(k)) OBVIOUS
  <2>3. n \in 1..4 BY <2>2, InStream DEF PortsInv, TypeOK
  <2>4. call.digits \in 0..4 BY ReadCallTypes DEF PortsInv
  <2>5. call.want = 1 /\ ~call.short /\ call.digits < n BY <2>1, <2>2 DEF AtLength
  <2> QED BY <2>3, <2>4, <2>5
<1> QED BY <1>1, <1>2

LEMMA StillReading == ASSUME TypeOK', call'.op = "read" PROVE call' \in ReadCall
<1>1. call' \in {Idle} \cup ReadCall \cup SendCall BY DEF TypeOK
<1>2. call' \notin {Idle} \cup SendCall BY DEF Idle, SendCall
<1> QED BY <1>1, <1>2

\* A read that returned in time leaves time to the next.
LEMMA NextInTime ==
    ASSUME TypeOK, port \in {"FreeRTOS", "arduino"}, NEW c \in ReadCall, OnTime(c, elapsed),
           NEW r \in Int, NEW p \in Nat,
           c.stage = "header" => c.digits = 0,
           c.stage = "length" => c.want = 1 /\ c.digits < 4 /\ ~c.short,
           readPacket(c, r, p), call'.op = "read", call' \in ReadCall
    PROVE  OnTime(call', elapsed)
<1>1. PICK T, e, t, w, D :
      T = Timeout /\ e = elapsed /\ t = c.timeout /\ w = c.waited /\ D = c.digits
  OBVIOUS
<1>2. T \in Nat /\ e \in Nat /\ t \in Int /\ w \in Nat /\ D \in 0..4
  <2>1. Timeout \in Nat /\ elapsed \in 0..Horizon /\ Horizon \in Nat BY Numbers DEF TypeOK
  <2>2. elapsed \in Nat BY <2>1
  <2>3. c.timeout \in Int /\ c.digits \in 0..4 /\ c.waited \in 0..Timeout BY DEF ReadCall
  <2> QED BY <1>1, <2>1, <2>2, <2>3
<1>3. PICK l : l = left_ms OBVIOUS
<1>4. l \in Int /\ l <= T /\ (e <= T => l = T - e) /\ (0 < l => e <= T - l)
  BY <1>1, <1>3, LeftIsInt, LeftInTime
<1>5. CASE /\ c.stage = "header" /\ call'.stage = "length" /\ call'.timeout = left_ms
           /\ call'.digits = c.digits /\ call'.waited = 0
  <2>1. w <= t /\ e <= T - t + w /\ D = 0 BY <1>1, <1>5 DEF OnTime
  <2>2. e <= T BY <1>2, <2>1
  <2>3. l = T - e /\ l >= 0 BY <1>2, <1>4, <2>2
  <2>4. e <= T - l + 0 * l + 0 BY <1>2, <2>3
  <2>5. call'.timeout = l /\ call'.digits = 0 /\ call'.waited = 0 /\ call'.stage = "length"
    BY <1>1, <1>3, <1>5, <2>1
  <2>6. 0 <= l BY <2>3, <1>2
  <2> QED BY <1>1, <1>4, <2>4, <2>5, <2>6 DEF OnTime
<1>6. CASE /\ c.stage = "length" /\ call'.stage = "length" /\ call'.timeout = c.timeout
           /\ call'.digits = c.digits + 1 /\ call'.waited = 0
  <2>1. t <= T /\ w <= t /\ e <= T - t + D * t + w BY <1>1, <1>6 DEF OnTime
  <2>2. T - t + D * t + w <= T - t + (D + 1) * t BY <1>2, <2>1, LengthTime
  <2>3. e <= T - t + (D + 1) * t + 0
    <3>1. PICK x, y : x = D * t /\ y = (D + 1) * t OBVIOUS
    <3>2. x \in Int /\ y \in Int
      <4>1. \A i, j \in Int : i * j \in Int OBVIOUS
      <4>2. D \in Int /\ D + 1 \in Int BY <1>2
      <4> QED BY <1>2, <3>1, <4>1, <4>2
    <3> QED BY <1>2, <2>1, <2>2, <3>1, <3>2
  <2>4. 0 <= t BY <1>2, <2>1
  <2>5. call'.timeout = t /\ call'.digits = D + 1 /\ call'.waited = 0 /\ call'.stage = "length"
    BY <1>1, <1>6
  <2> QED BY <1>1, <2>1, <2>3, <2>4, <2>5 DEF OnTime
<1>7. CASE /\ c.stage = "length" /\ call'.stage = "body" /\ call'.timeout = left_ms
           /\ Reads(call') = c.digits + 1 /\ call'.waited = 0
  <2>1. t <= T /\ w <= t /\ e <= T - t + D * t + w BY <1>1, <1>7 DEF OnTime
  <2>2. T - t + D * t + w <= T * (D + 1) BY <1>2, <2>1, LengthTime
  <2>3. Max({1, Reads(call')}) = D + 1
    <3>1. Reads(call') = D + 1 BY <1>1, <1>7
    <3>2. D + 1 # 0 BY <1>2
    <3> QED BY <3>1, <3>2, <1>2, ReadsFacts
  <2>4. e <= T * (D + 1)
    <3>1. PICK x, y : x = D * t /\ y = T * (D + 1) OBVIOUS
    <3>2. x \in Int /\ y \in Int
      <4>1. \A i, j \in Int : i * j \in Int OBVIOUS
      <4>2. D \in Int /\ D + 1 \in Int BY <1>2
      <4> QED BY <1>2, <3>1, <4>1, <4>2
    <3> QED BY <1>2, <2>1, <2>2, <3>1, <3>2
  <2>5. 0 < l => e <= T - l + 0 BY <1>2, <1>4
  <2>6. call'.timeout = l /\ call'.waited = 0 /\ call'.stage = "body" BY <1>3, <1>7
  <2> QED BY <1>1, <1>4, <2>3, <2>4, <2>5, <2>6 DEF OnTime
<1> QED BY <1>5, <1>6, <1>7, NextRead

LEMMA TimeRecv ==
    ASSUME PortsInv, PortsInv', TimeInv, Recv
    PROVE  TimeInv'
<1> SUFFICES ASSUME WholeRead' PROVE OnTime(call', elapsed') BY DEF TimeInv
<1>0. TypeOK /\ TypeOK' /\ Reading /\ Event = "bytes" BY DEF PortsInv, Recv, Reading
<1>1. PICK a : a = Amount OBVIOUS
<1>2. PICK c : c = [call EXCEPT !.bytes = @ + a, !.tries = @ + 1,
                                !.waited = IF port \in EachWaits THEN 0 ELSE @]
  OBVIOUS
<1>3. PICK r : r = Returns(c, "bytes") OBVIOUS
<1>4. PICK p : p = pos + a OBVIOUS
<1>5. /\ IF r = More THEN call' = c /\ last' = last ELSE readPacket(c, r, p)
      /\ IF r = More /\ port = "mbed" THEN TimePasses ELSE UNCHANGED <<elapsed, spent>>
      /\ UNCHANGED <<port, start>>
  BY <1>1, <1>2, <1>3, <1>4 DEF Recv
<1>6. port \in {"FreeRTOS", "arduino"} /\ elapsed' = elapsed /\ call'.op = "read"
  BY <1>5 DEF WholeRead, Reading
<1>7. ClockFits BY <1>5, <1>6 DEF WholeRead, ClockFits
<1>8. OnTime(call, elapsed) BY <1>0, <1>6, <1>7 DEF TimeInv, WholeRead
<1>9. a \in Nat /\ p \in Nat BY <1>0, <1>1, <1>4, AmountFacts
<1>10. call \in ReadCall /\ call.bytes \in Nat BY <1>0, ReadCallTypes
<1>11. /\ c \in ReadCall /\ c.stage = call.stage /\ c.digits = call.digits /\ c.want = call.want
       /\ c.short = call.short /\ c.timeout = call.timeout /\ c.waited = call.waited
  <2>1. port \notin EachWaits BY <1>6 DEF EachWaits
  <2>2. call.bytes + a \in Nat /\ call.tries + 1 \in Nat BY <1>9, <1>10 DEF ReadCall
  <2>3. c = [call EXCEPT !.bytes = call.bytes + a, !.tries = call.tries + 1,
                         !.waited = call.waited]
    BY <1>2, <2>1
  <2> QED BY <1>10, <2>2, <2>3 DEF ReadCall
<1>12. OnTime(c, elapsed)
  <2>1. Reads(c) = Reads(call) BY <1>11 DEF Reads
  <2> QED BY <1>8, <1>11, <2>1 DEF OnTime
<1>13. r \in Int BY <1>0, <1>3, <1>11, ReadReturned
<1>14. CASE r = More BY <1>5, <1>6, <1>12, <1>14
<1>15. CASE r # More
  <2>1. call' \in ReadCall BY <1>0, <1>6, StillReading
  <2>2. /\ c.stage = "header" => c.digits = 0
        /\ c.stage = "length" => c.want = 1 /\ c.digits < 4 /\ ~c.short
    BY <1>0, <1>11, WhereReading
  <2> QED BY <1>0, <1>5, <1>6, <1>9, <1>11, <1>12, <1>13, <1>15, <2>1, <2>2, NextInTime
<1> QED BY <1>14, <1>15

LEMMA TimeRecvEnds ==
    ASSUME PortsInv, PortsInv', TimeInv, RecvEnds
    PROVE  TimeInv'
<1> SUFFICES ASSUME WholeRead' PROVE OnTime(call', elapsed') BY DEF TimeInv
<1>0. TypeOK /\ TypeOK' /\ Reading BY DEF PortsInv, RecvEnds, Reading
<1>1. PICK c : c = call OBVIOUS
<1>2. PICK r : r = Returns(c, Event) OBVIOUS
<1>3. PICK p : p = pos OBVIOUS
<1>4. readPacket(c, r, p) /\ UNCHANGED <<port, start, elapsed>>
  BY <1>1, <1>2, <1>3 DEF RecvEnds, timers
<1>5. port \in {"FreeRTOS", "arduino"} /\ call'.op = "read" BY <1>4 DEF WholeRead, Reading
<1>6. ClockFits BY <1>4, <1>5 DEF WholeRead, ClockFits
<1>7. OnTime(c, elapsed) BY <1>0, <1>1, <1>5, <1>6 DEF TimeInv, WholeRead
<1>8. c \in ReadCall BY <1>0, <1>1, ReadCallTypes
<1>9. r \in Int
  <2>1. PICK e : e = Event OBVIOUS
  <2>2. e \in {"bytes", "nothing", "end", "error"} BY <1>0, <2>1, EventFacts
  <2> QED BY <1>0, <1>2, <1>8, <2>1, <2>2, ReadReturned
<1>10. p \in Nat BY <1>0, <1>3 DEF TypeOK
<1>11. call' \in ReadCall BY <1>0, <1>5, StillReading
<1>12. /\ c.stage = "header" => c.digits = 0
       /\ c.stage = "length" => c.want = 1 /\ c.digits < 4 /\ ~c.short
  BY <1>0, <1>1, WhereReading
<1> QED BY <1>0, <1>4, <1>5, <1>7, <1>8, <1>9, <1>10, <1>11, <1>12, NextInTime

LEMMA TimeTick ==
    ASSUME PortsInv, PortsInv', TimeInv, Tick
    PROVE  TimeInv'
<1> SUFFICES ASSUME WholeRead' PROVE OnTime(call', elapsed') BY DEF TimeInv
<1>0. TypeOK /\ TypeOK' /\ Reading BY DEF PortsInv, Tick, Reading
<1>1. PICK T, e, t, w, D, e1, w1 :
        /\ T = Timeout /\ e = elapsed /\ t = call.timeout /\ w = call.waited /\ D = call.digits
        /\ e1 = elapsed' /\ w1 = Saturated(call.waited, Timeout)
  OBVIOUS
<1>2. /\ call' = [call EXCEPT !.waited = w1] /\ e1 = Saturated(e, Horizon)
      /\ UNCHANGED <<port, start>> /\ Returns(call, Event) = More
  BY <1>1 DEF Tick, TimePasses
<1>3. /\ T \in Nat /\ T < Horizon /\ Horizon \in Nat /\ e \in 0..Horizon /\ e \in Nat
      /\ t \in Int /\ w \in 0..T /\ w \in Nat /\ D \in 0..4 /\ call \in ReadCall
  BY <1>0, <1>1, Numbers, ReadCallTypes DEF TypeOK
<1>4. e <= e1 /\ e1 <= e + 1 /\ e1 \in Nat
  <2>1. e + 1 \in Int /\ Horizon \in Int BY <1>3
  <2>2. e1 = IF e + 1 <= Horizon THEN e + 1 ELSE Horizon
    BY <1>2, <2>1, MinOfTwo DEF Saturated
  <2> QED BY <1>3, <2>2
<1>5. port \in {"FreeRTOS", "arduino"} BY <1>2 DEF WholeRead
<1>6. ClockFits
  <2>1. ASSUME port = "arduino" PROVE start + Max({Timeout, elapsed}) < ClockSize
    <3>1. start + Max({Timeout, elapsed'}) < ClockSize BY <1>2, <2>1 DEF WholeRead, ClockFits
    <3>2. Max({T, e}) = (IF T >= e THEN T ELSE e) /\ Max({T, e1}) = (IF T >= e1 THEN T ELSE e1)
      <4>1. T \in Int /\ e \in Int /\ e1 \in Int BY <1>3, <1>4
      <4> QED BY <4>1, MaxOfTwo
    <3>3. start \in Int /\ ClockSize \in Int BY <1>0, ClockTypes, Numbers
    <3>4. start + Max({T, e1}) < ClockSize BY <1>1, <3>1
    <3>5. Max({T, e}) \in Int /\ Max({T, e1}) \in Int /\ Max({T, e}) <= Max({T, e1})
      BY <1>3, <1>4, <3>2
    <3>6. PICK m, n : m = Max({T, e}) /\ n = Max({T, e1}) OBVIOUS
    <3>7. start + m < ClockSize BY <3>3, <3>4, <3>5, <3>6
    <3> QED BY <1>1, <3>6, <3>7
  <2> QED BY <2>1 DEF ClockFits
<1>7. OnTime(call, elapsed) BY <1>0, <1>5, <1>6 DEF TimeInv, WholeRead
<1>8. w < t /\ t <= T
  <2>1. PICK ev : ev = Event OBVIOUS
  <2>2. ev \in {"bytes", "nothing", "end", "error"} BY <1>0, <2>1, EventFacts
  <2>3. call.waited < call.timeout
    <3>1. PICK c : c = call OBVIOUS
    <3>2. c \in ReadCall /\ Returns(c, ev) = More BY <1>2, <1>3, <2>1, <3>1
    <3>3. c.waited < c.timeout BY <1>0, <1>5, <2>2, <3>2, ReadReturned
    <3> QED BY <3>1, <3>3
  <2> QED BY <1>1, <1>7, <2>3 DEF OnTime
<1>9. w1 = w + 1 /\ w1 <= t
  <2>1. w + 1 \in Int /\ T \in Int BY <1>3
  <2>2. w1 = IF w + 1 <= T THEN w + 1 ELSE T BY <1>1, <2>1, MinOfTwo DEF Saturated
  <2> QED BY <1>3, <1>8, <2>2
<1>10. /\ call'.stage = call.stage /\ call'.timeout = t /\ call'.digits = D
       /\ call'.short = call.short /\ call'.waited = w1
  BY <1>1, <1>2, <1>3 DEF ReadCall
<1>11. PICK x : x = D * t OBVIOUS
<1>12. x \in Int
  <2>1. \A i, j \in Int : i * j \in Int OBVIOUS
  <2>2. D \in Int BY <1>3
  <2> QED BY <1>3, <1>11, <2>1, <2>2
<1>13. PICK m : m = T * Max({1, Reads(call)}) OBVIOUS
<1>14. T <= m
  <2>1. PICK c : c = call OBVIOUS
  <2>2. T <= T * Max({1, Reads(c)}) BY <1>3, <2>1, ReadsFacts
  <2> QED BY <1>13, <2>1, <2>2
<1>15. m \in Int
  <2>1. PICK n : n = Max({1, Reads(call)}) OBVIOUS
  <2>2. n \in Int
    <3>1. PICK c : c = call OBVIOUS
    <3>2. Reads(c) \in 0..5 /\ Max({1, Reads(c)}) = IF Reads(c) = 0 THEN 1 ELSE Reads(c)
      BY <1>3, <3>1, ReadsFacts
    <3>3. Max({1, Reads(c)}) \in Int BY <3>2
    <3> QED BY <2>1, <3>1, <3>3
  <2>3. \A i, j \in Int : i * j \in Int OBVIOUS
  <2> QED BY <1>3, <1>13, <2>1, <2>2, <2>3
<1>16. Reads(call') = Reads(call) BY <1>1, <1>10 DEF Reads
<1>17. /\ call.stage = "header" => e <= T - t + w
       /\ call.stage = "length" => e <= T - t + x + w
       /\ call.stage = "body" => e <= m /\ e <= T - t + w
  BY <1>1, <1>7, <1>8, <1>11, <1>13 DEF OnTime
<1>18. /\ call.stage = "header" => e1 <= T - t + w1
       /\ call.stage = "length" => e1 <= T - t + x + w1
       /\ call.stage = "body" => e1 <= m /\ e1 <= T - t + w1
  <2>1. e <= T - t + w => e1 <= T - t + w1 BY <1>3, <1>4, <1>9
  <2>2. e <= T - t + x + w => e1 <= T - t + x + w1 BY <1>3, <1>4, <1>9, <1>12
  <2>3. e <= T - t + w => e1 <= m BY <1>3, <1>4, <1>9, <1>14, <1>15
  <2> QED BY <1>17, <2>1, <2>2, <2>3
<1> QED BY <1>1, <1>8, <1>9, <1>10, <1>11, <1>13, <1>16, <1>18 DEF OnTime

LEMMA TimeReadPacket ==
    ASSUME PortsInv, PortsInv', TimeInv, ReadPacket
    PROVE  TimeInv'
<1> SUFFICES ASSUME WholeRead' PROVE OnTime(call', elapsed') BY DEF TimeInv
<1>0. TypeOK /\ TypeOK' BY DEF PortsInv
<1>1. /\ call' = [op |-> "read", stage |-> "header", want |-> 1, timeout |-> left_ms', bytes |-> 0,
                  tries |-> 0, waited |-> 0, digits |-> 0, value |-> 0, short |-> FALSE]
      /\ countdown_ms \/ (~expired /\ UNCHANGED <<start, elapsed>>)
      /\ port' = port
  BY DEF ReadPacket
<1>2. port \in {"FreeRTOS", "arduino"} BY <1>1 DEF WholeRead
<1>3. PICK T, e1, l : T = Timeout /\ e1 = elapsed' /\ l = left_ms' OBVIOUS
<1>4. T \in Nat /\ e1 \in Nat
  <2>1. elapsed' \in 0..Horizon /\ Timeout \in Nat BY <1>0, Numbers DEF TypeOK
  <2> QED BY <1>3, <2>1
<1>5. e1 <= T
  <2>1. CASE elapsed' = 0 BY <1>3, <1>4, <2>1
  <2>2. CASE ~expired /\ UNCHANGED <<start, elapsed>>
    <3>1. ClockFits BY <1>1, <2>2 DEF WholeRead, ClockFits
    <3>2. ~(elapsed > Timeout) BY <1>0, <2>2, <3>1, ExpiresInTime
    <3> QED BY <1>3, <1>4, <2>2, <3>2
  <2> QED BY <1>1, <2>1, <2>2 DEF countdown_ms
<1>6. l = T - e1
  <2>1. Max({0, T - e1}) = IF 0 >= T - e1 THEN 0 ELSE T - e1
    <3>1. 0 \in Int /\ T - e1 \in Int BY <1>4
    <3> QED BY <3>1, MaxOfTwo
  <2>2. Max({0, T - e1}) = T - e1 BY <1>4, <1>5, <2>1
  <2>3. l = T - e1 \/ l = Max({0, T - e1}) BY <1>3 DEF left_ms, TimerLeftMS
  <2> QED BY <2>2, <2>3
<1>7. /\ call'.stage = "header" /\ call'.timeout = l /\ call'.waited = 0
  BY <1>1, <1>3
<1>8. l <= T /\ 0 <= l /\ e1 <= T - l + 0 BY <1>4, <1>5, <1>6
<1> QED BY <1>3, <1>7, <1>8 DEF OnTime

LEMMA TimeElsewhere ==
    ASSUME TimeInv, UNCHANGED <<port, start, elapsed, call>>
    PROVE  TimeInv'
BY DEF TimeInv, WholeRead, ClockFits, Reading, OnTime, Reads

LEMMA TimeStep == PortsInv /\ PortsInv' /\ TimeInv /\ [Next]_vars => TimeInv'
<1> SUFFICES ASSUME PortsInv, PortsInv', TimeInv, [Next]_vars PROVE TimeInv' OBVIOUS
<1>1. CASE Recv BY <1>1, TimeRecv
<1>2. CASE RecvEnds BY <1>2, TimeRecvEnds
<1>3. CASE Tick BY <1>3, TimeTick
<1>4. CASE Write
  <2>1. call'.op # "read" BY <1>4, WriteTypes DEF PortsInv
  <2> QED BY <2>1 DEF TimeInv, WholeRead, Reading
<1>5. CASE Connect BY <1>5 DEF Connect, TimeInv, WholeRead, Reading, Idle
<1>6. CASE ReadPacket BY <1>6, TimeReadPacket
<1>7. CASE SendPacket
  <2>1. call'.op # "read" BY <1>7 DEF SendPacket, Idle
  <2> QED BY <2>1 DEF TimeInv, WholeRead, Reading
<1>8. CASE Arrive BY <1>8, TimeElsewhere DEF Arrive, timers
<1>9. CASE Break BY <1>9, TimeElsewhere DEF Break, timers
<1>10. CASE UNCHANGED vars BY <1>10, TimeElsewhere DEF vars, timers
<1> QED
  BY <1>1, <1>2, <1>3, <1>4, <1>5, <1>6, <1>7, <1>8, <1>9, <1>10 DEF Next

\* However many bytes the length has: each may take what was left at the start.
LEMMA TimeOfRead ==
    ASSUME PortsInv, TimeInv, port \in {"FreeRTOS", "arduino"}, ClockFits, call.op = "read"
    PROVE  elapsed <= Timeout * Max({1, Reads(call)})
<1>0. Reading /\ TypeOK /\ OnTime(call, elapsed) BY DEF PortsInv, TimeInv, WholeRead, Reading
<1>1. PICK T, e, t, w, D, c :
        /\ T = Timeout /\ e = elapsed /\ t = call.timeout /\ w = call.waited /\ D = call.digits
        /\ c = call
  OBVIOUS
<1>2. /\ T \in Nat /\ e \in Nat /\ t \in Int /\ w \in Nat /\ D \in 0..4 /\ c \in ReadCall
      /\ c.stage \in {"header", "length", "body"}
  <2>1. Timeout \in Nat /\ elapsed \in 0..Horizon BY <1>0, Numbers DEF TypeOK
  <2>2. elapsed \in Nat BY <2>1
  <2>3. call.waited \in 0..Timeout BY <1>0, ReadCallTypes
  <2>4. call.waited \in Nat BY <2>3
  <2> QED BY <1>0, <1>1, <2>1, <2>2, <2>4, ReadCallTypes
<1>3. t <= T BY <1>0, <1>1 DEF OnTime
<1>4. CASE c.stage = "header"
  <2>1. w <= t /\ e <= T - t + w BY <1>0, <1>1, <1>4 DEF OnTime
  <2>2. e <= T BY <1>2, <2>1
  <2>3. Reads(c) = 0 BY <1>0, <1>1, <1>4, WhereReading DEF Reads
  <2>4. Max({1, Reads(c)}) = 1 BY <1>2, <2>3, ReadsFacts
  <2>5. e <= T * 1 BY <1>2, <2>2
  <2> QED BY <1>1, <2>4, <2>5
<1>5. CASE c.stage = "length"
  <2>1. w <= t /\ e <= T - t + D * t + w BY <1>0, <1>1, <1>5 DEF OnTime
  <2>2. T - t + D * t + w <= T * (D + 1) BY <1>2, <1>3, <2>1, LengthTime
  <2>3. Reads(c) = D + 1 BY <1>1, <1>5 DEF Reads
  <2>4. Max({1, Reads(c)}) = D + 1
    <3>1. D + 1 # 0 BY <1>2
    <3> QED BY <1>2, <2>3, <3>1, ReadsFacts
  <2>5. e <= T * (D + 1)
    <3>1. PICK x, y : x = D * t /\ y = T * (D + 1) OBVIOUS
    <3>2. x \in Int /\ y \in Int
      <4>1. \A i, j \in Int : i * j \in Int OBVIOUS
      <4>2. D \in Int /\ D + 1 \in Int BY <1>2
      <4> QED BY <1>2, <3>1, <4>1, <4>2
    <3> QED BY <1>2, <2>1, <2>2, <3>1, <3>2
  <2> QED BY <1>1, <2>4, <2>5
<1>6. CASE c.stage = "body" BY <1>0, <1>1, <1>6 DEF OnTime
<1> QED BY <1>2, <1>4, <1>5, <1>6

LEMMA OnTimeIsInTime ==
    ASSUME PortsInv, TimeInv
    PROVE  InTime
<1> SUFFICES ASSUME port \in {"FreeRTOS", "arduino"}, ClockFits, call.op = "read", Reads(call) <= 1
             PROVE  elapsed <= Timeout
  BY DEF InTime, LengthReads, Reads
<1>0. TypeOK /\ Reading BY DEF PortsInv, Reading
<1>1. PICK c : c = call OBVIOUS
<1>2. Max({1, Reads(c)}) = 1
  <2>1. c \in ReadCall BY <1>0, <1>1, ReadCallTypes
  <2>2. Reads(c) \in 0..5 /\ Max({1, Reads(c)}) = IF Reads(c) = 0 THEN 1 ELSE Reads(c)
    BY <2>1, ReadsFacts
  <2> QED BY <1>1, <2>2
<1>3. elapsed <= Timeout * Max({1, Reads(c)}) BY <1>1, TimeOfRead
<1>4. Timeout \in Nat BY Numbers
<1> QED BY <1>2, <1>3, <1>4

\* Over the ports that take the timeout for the whole read, readPacket completes in the timeout,
\* for every timeout and every packet whose length has one byte, in whatever pieces it comes.
THEOREM ReadsInTime == Spec => []InTime
<1>1. Init => TimeInv BY DEF Init, TimeInv, WholeRead, Reading, Idle
<1>2. Spec => []TimeInv BY <1>1, TimeStep, PortsInvariant, PTL DEF Spec
<1>3. PortsInv /\ TimeInv => InTime BY OnTimeIsInTime
<1> QED BY <1>2, <1>3, PortsInvariant, PTL

-----------------------------------------------------------------------------
(***************************************************************************)
(* readPacket implements PacketSource: every step of a read that returns,  *)
(* and every connect, is a step of it, and all others stutter.             *)
(***************************************************************************)
LEMMA AtPacket ==
    ASSUME stream \in Streams, NEW k \in 1..Len(stream), NEW p \in Int, EndOf(k - 1) <= p
    PROVE  /\ p < EndOf(k) => /\ CountTo(stream, p) = k
                              /\ p \in Ends <=> p = EndOf(k - 1)
           /\ p = EndOf(k) => CountTo(stream, p) = k + 1 /\ p \in Ends
           /\ p >= EndOf(k) => CountTo(stream, p) \in Nat /\ CountTo(stream, p) >= k + 1
<1>1. Len(stream) \in Nat BY StreamEnds
<1>2. k - 1 \in 0..Len(stream) /\ k \in 0..Len(stream) /\ (k - 1) + 1 = k BY <1>1
<1>3. EndOf(k - 1) = EndsOf[stream][k - 1] /\ EndOf(k) = EndsOf[stream][k] BY DEF EndOf
<1>4. Ends = EndsIn(stream) BY DEF Ends, EndsIn
<1>5. EndsOf[stream][k] \in Nat BY <1>2, StreamEnds
<1>6. ASSUME p < EndOf(k) PROVE CountTo(stream, p) = k /\ (p \in Ends <=> p = EndOf(k - 1))
  <2>1. PICK j : j = k - 1 OBVIOUS
  <2>2. j \in 0..Len(stream) /\ j + 1 = k BY <1>2, <2>1
  <2>3. EndsOf[stream][j] <= p /\ (j < Len(stream) => p < EndsOf[stream][j + 1])
    BY <1>3, <1>6, <2>1, <2>2
  <2>4. CountTo(stream, p) = j + 1 /\ (p \in EndsIn(stream) <=> p = EndsOf[stream][j])
    BY <2>2, <2>3, EndsCounted
  <2> QED BY <1>3, <1>4, <2>1, <2>2, <2>4
<1>7. ASSUME p = EndOf(k) PROVE CountTo(stream, p) = k + 1 /\ p \in Ends
  <2>1. EndsOf[stream][k] <= p BY <1>3, <1>5, <1>7
  <2>2. k < Len(stream) => p < EndsOf[stream][k + 1]
    <3>1. ASSUME k < Len(stream) PROVE EndsOf[stream][k] < EndsOf[stream][k + 1]
      <4>1. k + 1 \in 0..Len(stream) /\ k < k + 1 BY <1>1, <3>1
      <4> QED BY <1>2, <4>1, StreamEnds
    <3> QED BY <1>3, <1>7, <3>1
  <2>3. CountTo(stream, p) = k + 1 /\ (p \in EndsIn(stream) <=> p = EndsOf[stream][k])
    BY <1>2, <2>1, <2>2, EndsCounted
  <2> QED BY <1>3, <1>4, <1>7, <2>3
<1>8. ASSUME p >= EndOf(k) PROVE CountTo(stream, p) \in Nat /\ CountTo(stream, p) >= k + 1
  <2>1. EndsOf[stream][k] <= p BY <1>3, <1>5, <1>8
  <2> QED BY <1>2, <2>1, EndsFinite
<1> QED BY <1>6, <1>7, <1>8

LEMMA AtBeginning ==
    ASSUME NEW s \in Streams
    PROVE  CountTo(s, 0) = 1 /\ 0 \in EndsIn(s)
<1>1. Len(s) \in Nat /\ EndsOf[s][0] = 0 BY StreamEnds
<1>2. 0 \in 0..Len(s) /\ EndsOf[s][0] <= 0 BY <1>1
<1>3. 0 < Len(s) => 0 < EndsOf[s][0 + 1]
  <2>1. ASSUME 0 < Len(s) PROVE EndsOf[s][0] < EndsOf[s][1]
    <3>1. 1 \in 0..Len(s) /\ 0 < 1 BY <1>1, <2>1
    <3> QED BY <1>2, <3>1, StreamEnds
  <2> QED BY <1>1, <2>1
<1>4. CountTo(s, 0) = 0 + 1 /\ (0 \in EndsIn(s) <=> 0 = EndsOf[s][0])
  BY <1>2, <1>3, EndsCounted
<1> QED BY <1>1, <1>4

Taken == Cardinality({e \in Ends : e <= last.pos}) - 1
InFrame == last.pos \in Ends
Overreads == port = "mbed"
sourceVars == <<Taken, InFrame, last.short, last.rc, Overreads>>

LEMMA SourceRead ==
    ASSUME PortsInv, PortsInv', Unread, Reading, ReadOutcome
    PROVE  [Source!Next]_sourceVars
<1>0. TypeOK /\ TypeOK' /\ InFrame /\ stream \in Streams
  BY DEF PortsInv, FrameInv, InFrame, TypeOK
<1>1. Ends' = Ends /\ Overreads' = Overreads BY DEF Ends, Overreads, Unread
<1>2. PICK p, q : p = last.pos /\ q = last'.pos OBVIOUS
<1>3. p \in Nat /\ q \in Nat /\ last'.short \in BOOLEAN BY <1>0, <1>2 DEF TypeOK
<1>4. Taken = CountTo(stream, p) - 1 /\ Taken' = CountTo(stream, q) - 1
  BY <1>1, <1>2 DEF Taken, CountTo, Ends, EndsIn
<1>5. InFrame' <=> q \in Ends BY <1>1, <1>2 DEF InFrame
<1>6. CASE Goes
  <2>1. UNCHANGED sourceVars
    BY <1>1, <1>6 DEF Goes, sourceVars, Taken, InFrame
  <2> QED BY <2>1
<1>7. CASE ReturnsNothing
  <2>1. q = p /\ last'.short /\ last'.rc \in {0, -1} BY <1>2, <1>7 DEF ReturnsNothing
  <2>2. Taken' = Taken BY <1>4, <2>1
  <2>3. InFrame' = InFrame BY <1>1, <1>2, <2>1 DEF InFrame
  <2>4. Source!Nothing
    BY <1>0, <1>1, <1>3, <2>1, <2>2, <2>3 DEF Source!Nothing, Taken, InFrame, Overreads
  <2> QED BY <2>4 DEF Source!Next
<1>8. ASSUME NEW k \in 1..Len(stream), last.pos = EndOf(k - 1),
             ReturnsPacket(k) \/ ReturnsPart(k) \/ ReturnsMore(k)
      PROVE  Source!Next
  <2>1. k \in Nat /\ EndOf(k) \in Nat /\ p < EndOf(k) /\ CountTo(stream, p) = k
    <3>1. /\ Len(Length(k)) \in 1..4 /\ stream[k].rem \in Nat /\ EndOf(k) \in Nat
          /\ EndOf(k) = EndOf(k - 1) + 1 + Len(Length(k)) + stream[k].rem
      BY <1>0, InStream
    <3>2. PICK n, m, e : n = Len(Length(k)) /\ m = stream[k].rem /\ e = EndOf(k) OBVIOUS
    <3>3. e = p + 1 + n + m /\ n \in Nat /\ m \in Nat BY <1>2, <1>8, <3>1, <3>2
    <3>4. p < e BY <1>3, <3>3
    <3>5. EndOf(k - 1) <= p BY <1>2, <1>3, <1>8
    <3>6. CountTo(stream, p) = k BY <1>0, <1>3, <3>2, <3>4, <3>5, AtPacket
    <3> QED BY <3>1, <3>2, <3>4, <3>6
  <2>2. Taken = k - 1 BY <1>4, <2>1
  <2>3. CASE ReturnsPacket(k)
    <3>1. q = EndOf(k) /\ ~last'.short /\ last'.rc = Type BY <1>2, <2>3 DEF ReturnsPacket
    <3>2. CountTo(stream, q) = k + 1 /\ q \in Ends
      <4>1. EndOf(k - 1) <= q BY <1>2, <1>3, <1>8, <2>1, <3>1
      <4> QED BY <1>0, <1>3, <3>1, <4>1, AtPacket
    <3>3. Taken' = Taken + 1 BY <1>4, <2>1, <2>2, <3>2
    <3>4. InFrame' = InFrame BY <1>0, <1>5, <3>2 DEF InFrame
    <3>5. Source!Take
      BY <1>0, <1>1, <1>3, <3>1, <3>3, <3>4 DEF Source!Take, Taken, InFrame, Overreads
    <3> QED BY <3>5 DEF Source!Next
  <2>4. CASE ReturnsPart(k)
    <3>1. p < q /\ q < EndOf(k) BY <1>2, <2>4 DEF ReturnsPart
    <3>2. CountTo(stream, q) = k /\ q \notin Ends
      <4>1. EndOf(k - 1) <= q /\ q # EndOf(k - 1) BY <1>2, <1>3, <1>8, <3>1
      <4> QED BY <1>0, <1>3, <3>1, <4>1, AtPacket
    <3>3. Taken' = Taken BY <1>4, <2>2, <3>2
    <3>4. InFrame' = FALSE BY <1>5, <3>2
    <3>5. CASE last'.rc = BUFFER_OVERFLOW
      <4>1. last'.rc = -2 BY <3>5 DEF BUFFER_OVERFLOW
      <4>2. Source!TooLong
        BY <1>0, <1>1, <1>3, <3>3, <3>4, <4>1 DEF Source!TooLong, Taken, InFrame, Overreads
      <4> QED BY <4>2 DEF Source!Next
    <3>6. CASE last'.short /\ last'.rc \in {Type, 0, 1}
      <4>1. last'.rc \in {Type} \cup {0, 1} BY <3>6
      <4>2. Source!Cut
        BY <1>0, <1>1, <1>3, <3>3, <3>4, <3>6, <4>1 DEF Source!Cut, Taken, InFrame, Overreads
      <4> QED BY <4>2 DEF Source!Next
    <3> QED BY <2>4, <3>5, <3>6 DEF ReturnsPart
  <2>5. CASE ReturnsMore(k)
    <3>1. q >= EndOf(k) /\ last'.short /\ last'.rc \in {0, 1} /\ Overreads
      BY <1>2, <2>5 DEF ReturnsMore, Overreads
    <3>2. CountTo(stream, q) \in Nat /\ CountTo(stream, q) >= k + 1
      <4>1. EndOf(k - 1) <= q BY <1>2, <1>3, <1>8, <2>1, <3>1
      <4> QED BY <1>0, <1>3, <3>1, <4>1, AtPacket
    <3>3. Taken' \in Nat /\ Taken' > Taken BY <1>4, <2>1, <2>2, <3>2
    <3>4. InFrame' \in BOOLEAN BY DEF InFrame
    <3>5. Source!Skip
      BY <1>0, <1>1, <1>3, <3>1, <3>3, <3>4 DEF Source!Skip, Taken, InFrame, Overreads
    <3> QED BY <3>5 DEF Source!Next
  <2> QED BY <1>8, <2>3, <2>4, <2>5
<1> QED BY <1>6, <1>7, <1>8 DEF ReadOutcome

LEMMA SourceStutters ==
    ASSUME UNCHANGED <<port, stream, last>>
    PROVE  [Source!Next]_sourceVars
<1>1. UNCHANGED sourceVars BY DEF sourceVars, Taken, InFrame, Overreads, Ends
<1> QED BY <1>1

LEMMA SourceOpens ==
    ASSUME PortsInv, Connect
    PROVE  Source!Open
<1>1. last'.pos = 0 /\ last'.rc = 0 /\ last'.short = FALSE /\ port' = port BY ConnectStep
<1>2. stream' \in Streams BY DEF Connect
<1>3. Taken' = CountTo(stream', 0) - 1 BY <1>1 DEF Taken, CountTo, Ends, EndsIn
<1>4. InFrame' <=> 0 \in EndsIn(stream') BY <1>1 DEF InFrame, Ends, EndsIn
<1>5. CountTo(stream', 0) = 1 /\ 0 \in EndsIn(stream') BY <1>2, AtBeginning
<1>6. Taken' = 0 /\ InFrame' = TRUE BY <1>3, <1>4, <1>5
<1> QED BY <1>1, <1>6 DEF Source!Open, Taken, InFrame

LEMMA SourceStep == PortsInv /\ PortsInv' /\ [Next]_vars => [Source!Next]_sourceVars
<1> SUFFICES ASSUME PortsInv, PortsInv', [Next]_vars PROVE [Source!Next]_sourceVars OBVIOUS
<1>1. CASE Recv
  <2>1. Unread /\ Reading BY <1>1 DEF Recv, Unread, Reading
  <2> QED BY <1>1, <2>1, RecvStep, SourceRead
<1>2. CASE RecvEnds
  <2>1. Unread /\ Reading BY <1>2 DEF RecvEnds, connection, Unread, Reading
  <2> QED BY <1>2, <2>1, RecvEndsStep, SourceRead
<1>3. CASE Tick BY <1>3, SourceStutters DEF Tick, connection
<1>4. CASE Write BY <1>4, SourceStutters DEF Write, connection
<1>5. CASE Connect
  <2>1. Source!Open BY <1>5, SourceOpens
  <2> QED BY <2>1 DEF Source!Next
<1>6. CASE ReadPacket BY <1>6, SourceStutters DEF ReadPacket, connection
<1>7. CASE SendPacket BY <1>7, SourceStutters DEF SendPacket, connection
<1>8. CASE Arrive BY <1>8, SourceStutters DEF Arrive
<1>9. CASE Break BY <1>9, SourceStutters DEF Break
<1>10. CASE UNCHANGED vars BY <1>10, SourceStutters DEF vars, connection
<1> QED
  BY <1>1, <1>2, <1>3, <1>4, <1>5, <1>6, <1>7, <1>8, <1>9, <1>10 DEF Next

\* readPacket is what the clients take it for over every port, for all packets, buffers and
\* timeouts and however the bytes come: it returns the next packet of the connection whole and in
\* its order, or nothing; or a read came back short or the packet is too long, and the stream is
\* no longer at the beginning of a packet.
THEOREM ReadsAsPromised == Spec => ReadsPackets
<1>1. Init => Source!Init
  <2> SUFFICES ASSUME Init PROVE Source!Init OBVIOUS
  <2>1. last.pos = 0 /\ last.rc = 0 /\ last.short = FALSE /\ stream \in Streams BY DEF Init
  <2>2. CountTo(stream, 0) = 1 /\ 0 \in EndsIn(stream) BY <2>1, AtBeginning
  <2>3. Taken = 0 /\ InFrame = TRUE
    BY <2>1, <2>2 DEF Taken, InFrame, CountTo, Ends, EndsIn
  <2> QED BY <2>1, <2>3 DEF Source!Init, Taken, InFrame
<1>2. PortsInv /\ PortsInv' /\ [Next]_vars => [Source!Next]_sourceVars BY SourceStep
<1>3. PortsInv /\ PortsInv' /\ [Next]_vars
        => [Source!Next]_<<Cardinality({e \in Ends : e <= last.pos}) - 1, last.pos \in Ends,
                           last.short, last.rc, port = "mbed">>
  BY <1>2 DEF sourceVars, Taken, InFrame, Overreads
<1> QED BY <1>1, <1>3, PortsInvariant, PTL DEF Spec, ReadsPackets, Source!Spec
=============================================================================
