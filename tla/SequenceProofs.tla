--------------------------- MODULE SequenceProofs ---------------------------
(***************************************************************************)
(* Induction over a set of numbers, the larger and the smaller of two, and *)
(* what FlattenSeq gives: lemmas on the library that the proofs of Ports   *)
(* and of PacketPath share.                                                *)
(***************************************************************************)
EXTENDS Integers, SequencesExt, SequenceTheorems, WellFoundedInduction, TLAPS

-----------------------------------------------------------------------------
(* Induction over a set of numbers, from the well-foundedness of < *)

LEMMA LeastNumber ==
    ASSUME NEW T, T \subseteq Nat, T # {}
    PROVE  \E x \in T : \A y \in T : x <= y
<1> DEFINE R == {xy \in Nat \X Nat : xy[1] < xy[2]}
<1>1. IsWellFoundedOn(R, Nat) BY NatLessThanWellFounded DEF OpToRel
<1>2. \A x, y \in Nat : x < y => <<x, y>> \in R OBVIOUS
<1> HIDE DEF R
<1>3. PICK x \in T : \A y \in T : ~(<<y, x>> \in R) BY <1>1, WFMin
<1>4. ASSUME NEW y \in T PROVE x <= y
  <2>1. ~(y < x) BY <1>2, <1>3
  <2>2. x \in Nat /\ y \in Nat OBVIOUS
  <2> QED BY <2>1, <2>2
<1> QED BY <1>4

LEMMA SetInduction ==
    ASSUME NEW S, 0 \in S, \A n \in Nat : n \in S => n + 1 \in S
    PROVE  Nat \subseteq S
<1> DEFINE T == Nat \ S
<1> SUFFICES ASSUME T # {} PROVE FALSE OBVIOUS
<1>1. PICK x \in T : \A y \in T : x <= y BY LeastNumber
<1>2. x \in Nat /\ x # 0 OBVIOUS
<1>3. x - 1 \in Nat /\ x - 1 \notin T BY <1>1, <1>2
<1> QED BY <1>2, <1>3

LEMMA MaxOfTwo ==
    ASSUME NEW a \in Int, NEW b \in Int
    PROVE  Max({a, b}) = IF a >= b THEN a ELSE b
<1> DEFINE m == IF a >= b THEN a ELSE b
<1>1. m \in {a, b} /\ \A y \in {a, b} : m >= y OBVIOUS
<1>2. \A x \in {a, b} : (\A y \in {a, b} : x >= y) => x = m OBVIOUS
<1> HIDE DEF m
<1>3. Max({a, b}) = m BY <1>1, <1>2 DEF Max
<1> QED BY <1>3 DEF m

LEMMA MinOfTwo ==
    ASSUME NEW a \in Int, NEW b \in Int
    PROVE  Min({a, b}) = IF a <= b THEN a ELSE b
<1> DEFINE m == IF a <= b THEN a ELSE b
<1>1. m \in {a, b} /\ \A y \in {a, b} : m <= y OBVIOUS
<1>2. \A x \in {a, b} : (\A y \in {a, b} : x <= y) => x = m OBVIOUS
<1> HIDE DEF m
<1>3. Min({a, b}) = m BY <1>1, <1>2 DEF Min
<1> QED BY <1>3 DEF m

\* Sums of the terms of a sequence, defined by recursion, exist.
LEMMA SumExists ==
    ASSUME NEW n \in Nat, NEW a \in Nat, NEW t \in [1..n -> Nat]
    PROVE  \E f \in [0..n -> Nat] : f[0] = a /\ \A k \in 1..n : f[k] = f[k - 1] + t[k]
<1> DEFINE P(m, f) == f \in [0..m -> Nat] /\ f[0] = a /\ \A k \in 1..m : f[k] = f[k - 1] + t[k]
           S == {m \in Nat : m <= n => \E f : P(m, f)}
<1>1. 0 \in S
  <2> DEFINE f == [k \in 0..0 |-> a]
  <2>1. P(0, f) OBVIOUS
  <2> QED BY <2>1
<1> HIDE DEF P
<1>2. ASSUME NEW m \in Nat, m \in S PROVE m + 1 \in S
  <2> SUFFICES ASSUME m + 1 <= n PROVE \E f : P(m + 1, f) OBVIOUS
  <2>1. PICK f : P(m, f) BY <1>2
  <2> USE DEF P
  <2> DEFINE g == [k \in 0..(m + 1) |-> IF k <= m THEN f[k] ELSE f[m] + t[m + 1]]
  <2>2. m + 1 \in 1..n /\ t[m + 1] \in Nat /\ f[m] \in Nat BY <2>1
  <2>3. g \in [0..(m + 1) -> Nat] /\ g[0] = a BY <2>1, <2>2
  <2>4. ASSUME NEW k \in 1..(m + 1) PROVE g[k] = g[k - 1] + t[k]
    <3>1. k - 1 \in 0..(m + 1) /\ k - 1 <= m /\ g[k - 1] = f[k - 1] OBVIOUS
    <3>2. CASE k <= m
      <4>1. k \in 1..m /\ g[k] = f[k] BY <3>2
      <4> QED BY <2>1, <3>1, <4>1
    <3>3. CASE ~(k <= m)
      <4>1. k = m + 1 /\ k - 1 = m BY <3>3
      <4>2. g[k] = f[m] + t[m + 1] BY <3>3
      <4> QED BY <3>1, <4>1, <4>2
    <3> QED BY <3>2, <3>3
  <2> HIDE DEF g
  <2>5. P(m + 1, g) BY <2>3, <2>4
  <2> QED BY <2>5
<1> HIDE DEF S
<1>3. n \in S BY <1>1, <1>2, SetInduction
<1>4. PICK f : P(n, f) BY <1>3 DEF S
<1> QED BY <1>4 DEF P

-----------------------------------------------------------------------------
(***************************************************************************)
(* FlattenSeq is defined by a recursive function.  That there is one, and  *)
(* what it is for one sequence more, is shown by induction.                *)
(***************************************************************************)
Joins(f, s) ==
    f = [i \in 1..Len(s) |-> IF i = 1 THEN s[i] ELSE f[i - 1] \o s[i]]

LEMMA JoinExists ==
    ASSUME NEW E, NEW s \in Seq(Seq(E))
    PROVE  \E f : Joins(f, s)
<1> DEFINE P(n, f) == f = [i \in 1..n |-> IF i = 1 THEN s[i] ELSE f[i - 1] \o s[i]]
           S == {n \in Nat : \E f : P(n, f)}
<1>1. 0 \in S
  <2> DEFINE f == [i \in 1..0 |-> s[i]]
  <2>1. P(0, f) OBVIOUS
  <2> QED BY <2>1
<1>2. ASSUME NEW n \in Nat, n \in S PROVE n + 1 \in S
  <2>1. PICK f : P(n, f) BY <1>2
  <2> DEFINE g == [i \in 1..(n + 1) |->
                     IF i <= n THEN f[i] ELSE IF i = 1 THEN s[i] ELSE f[i - 1] \o s[i]]
             h == [i \in 1..(n + 1) |-> IF i = 1 THEN s[i] ELSE g[i - 1] \o s[i]]
  <2>2. ASSUME NEW i \in 1..(n + 1) PROVE g[i] = h[i]
    <3>1. CASE i <= n
      <4>1. i \in 1..n BY <3>1
      <4>2. f[i] = IF i = 1 THEN s[i] ELSE f[i - 1] \o s[i] BY <2>1, <4>1
      <4>3. i # 1 => i - 1 \in 1..(n + 1) /\ i - 1 <= n BY <4>1
      <4> QED BY <3>1, <4>2, <4>3
    <3>2. CASE ~(i <= n)
      <4>1. i # 1 => i - 1 \in 1..(n + 1) /\ i - 1 <= n OBVIOUS
      <4> QED BY <3>2, <4>1
    <3> QED BY <3>1, <3>2
  <2> HIDE DEF P
  <2>3. P(n + 1, g) BY <2>2 DEF P
  <2> QED BY <2>3
<1> HIDE DEF S
<1>3. Len(s) \in S BY <1>1, <1>2, SetInduction
<1> QED BY <1>3 DEF S, Joins

LEMMA JoinedPrefix ==
    ASSUME NEW E, NEW s \in Seq(Seq(E)), NEW t \in Seq(Seq(E)), NEW f, NEW g,
           Joins(f, s), Joins(g, t), Len(s) <= Len(t), \A i \in 1..Len(s) : s[i] = t[i]
    PROVE  \A i \in 1..Len(s) : f[i] = g[i] /\ f[i] \in Seq(E)
<1> DEFINE S == {n \in Nat : n + 1 \in 1..Len(s) => f[n + 1] = g[n + 1] /\ f[n + 1] \in Seq(E)}
<1>0. /\ \A i \in 1..Len(s) : f[i] = IF i = 1 THEN s[i] ELSE f[i - 1] \o s[i]
      /\ \A i \in 1..Len(t) : g[i] = IF i = 1 THEN t[i] ELSE g[i - 1] \o t[i]
  BY DEF Joins
<1>1. 0 \in S
  <2> SUFFICES ASSUME 1 \in 1..Len(s) PROVE f[1] = g[1] /\ f[1] \in Seq(E) OBVIOUS
  <2>1. 1 \in 1..Len(t) /\ s[1] \in Seq(E) OBVIOUS
  <2> QED BY <1>0, <2>1
<1>2. ASSUME NEW n \in Nat, n \in S PROVE n + 1 \in S
  <2> SUFFICES ASSUME n + 2 \in 1..Len(s)
               PROVE  f[n + 2] = g[n + 2] /\ f[n + 2] \in Seq(E)
    OBVIOUS
  <2>1. n + 1 \in 1..Len(s) /\ n + 2 \in 1..Len(t) /\ n + 2 # 1 /\ (n + 2) - 1 = n + 1 OBVIOUS
  <2>2. f[n + 1] = g[n + 1] /\ f[n + 1] \in Seq(E) BY <1>2, <2>1
  <2>3. f[n + 2] = f[n + 1] \o s[n + 2] /\ g[n + 2] = g[n + 1] \o t[n + 2] BY <1>0, <2>1
  <2>4. s[n + 2] = t[n + 2] /\ s[n + 2] \in Seq(E) OBVIOUS
  <2> QED BY <2>2, <2>3, <2>4
<1> HIDE DEF S
<1>3. Nat \subseteq S BY <1>1, <1>2, SetInduction
<1>4. ASSUME NEW i \in 1..Len(s) PROVE f[i] = g[i] /\ f[i] \in Seq(E)
  <2>1. i - 1 \in Nat /\ (i - 1) + 1 = i OBVIOUS
  <2>2. i - 1 \in S BY <1>3, <2>1
  <2> QED BY <2>1, <2>2 DEF S
<1> QED BY <1>4

LEMMA FlattenJoins ==
    ASSUME NEW E, NEW s \in Seq(Seq(E)), Len(s) # 0
    PROVE  \E f : Joins(f, s) /\ FlattenSeq(s) = f[Len(s)]
<1> DEFINE f == CHOOSE f : f = [i \in 1..Len(s) |-> IF i = 1 THEN s[i] ELSE f[i - 1] \o s[i]]
<1>1. FlattenSeq(s) = f[Len(s)] BY DEF FlattenSeq
<1>2. f = [i \in 1..Len(s) |-> IF i = 1 THEN s[i] ELSE f[i - 1] \o s[i]] BY JoinExists DEF Joins
<1> HIDE DEF f
<1>3. Joins(f, s) BY <1>2 DEF Joins
<1> QED BY <1>1, <1>3

LEMMA FlattenStep ==
    ASSUME NEW E, NEW s \in Seq(Seq(E)), NEW n \in Nat, n + 1 <= Len(s)
    PROVE  /\ FlattenSeq([i \in 1..n |-> s[i]]) \in Seq(E)
           /\ FlattenSeq([i \in 1..(n + 1) |-> s[i]])
                = FlattenSeq([i \in 1..n |-> s[i]]) \o s[n + 1]
<1> DEFINE t == [i \in 1..n |-> s[i]]
           u == [i \in 1..(n + 1) |-> s[i]]
<1>1. /\ t \in Seq(Seq(E)) /\ Len(t) = n
      /\ u \in Seq(Seq(E)) /\ Len(u) = n + 1
      /\ \A i \in 1..n : t[i] = u[i]
      /\ u[n + 1] = s[n + 1] /\ s[n + 1] \in Seq(E)
  OBVIOUS
<1> HIDE DEF t, u
<1>2. PICK g : Joins(g, u) /\ FlattenSeq(u) = g[n + 1]
  <2>1. Len(u) # 0 BY <1>1
  <2>2. \E f : Joins(f, u) /\ FlattenSeq(u) = f[Len(u)] BY <1>1, <2>1, FlattenJoins
  <2> QED BY <1>1, <2>2
<1>3. g[n + 1] = IF n + 1 = 1 THEN u[n + 1] ELSE g[n] \o u[n + 1]
  <2>1. n + 1 \in 1..Len(u) /\ (n + 1) - 1 = n BY <1>1
  <2> QED BY <1>2, <2>1 DEF Joins
<1>4. CASE n = 0
  <2>1. FlattenSeq(t) = t BY <1>1, <1>4 DEF FlattenSeq
  <2>2. t = << >> BY <1>1, <1>4
  <2>3. FlattenSeq(u) = s[n + 1] BY <1>1, <1>2, <1>3, <1>4
  <2>4. << >> \in Seq(E) /\ << >> \o s[n + 1] = s[n + 1] BY <1>1
  <2> QED BY <2>1, <2>2, <2>3, <2>4 DEF t, u
<1>5. CASE n # 0
  <2>1. PICK f : Joins(f, t) /\ FlattenSeq(t) = f[n] BY <1>1, <1>5, FlattenJoins
  <2>2. n \in 1..Len(t) /\ Len(t) <= Len(u) BY <1>1, <1>5
  <2>3. \A i \in 1..Len(t) : t[i] = u[i] BY <1>1
  <2>4. t \in Seq(Seq(E)) /\ u \in Seq(Seq(E)) BY <1>1
  <2>5. Joins(f, t) /\ Joins(g, u) BY <1>2, <2>1
  <2>6. \A i \in 1..Len(t) : f[i] = g[i] /\ f[i] \in Seq(E)
    BY <2>2, <2>3, <2>4, <2>5, JoinedPrefix
  <2>7. f[n] = g[n] /\ f[n] \in Seq(E) BY <2>2, <2>6
  <2>8. n + 1 # 1 BY <1>5
  <2>9. g[n + 1] = g[n] \o u[n + 1] BY <1>3, <2>8
  <2>10. FlattenSeq(u) = g[n] \o s[n + 1] BY <1>1, <1>2, <2>9
  <2> QED BY <2>1, <2>7, <2>10 DEF t, u
<1> QED BY <1>4, <1>5

=============================================================================
