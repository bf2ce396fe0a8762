-------------------------- MODULE BigEndianProofs ---------------------------
(***************************************************************************)
(* Proofs about BigEndian, for every base and every number of bytes.  The  *)
(* definitions are recursive, so this needs induction over the natural     *)
(* numbers; it is used in the form of SetInduction, about sets of numbers. *)
(***************************************************************************)
EXTENDS BigEndian, WellFoundedInduction, TLAPS

\* A set of numbers that has 0 and, with each number, the next has all of them.
LEMMA SetInduction ==
    ASSUME NEW S \in SUBSET Nat, 0 \in S, \A n \in S : n + 1 \in S
    PROVE  S = Nat
  <1> SUFFICES ASSUME Nat \ S # {} PROVE FALSE
    OBVIOUS
  <1> DEFINE R == OpToRel(<, Nat)
  <1>1. IsWellFoundedOn(R, Nat)
    BY NatLessThanWellFounded
  <1>2. \A x, y \in Nat : y < x => <<y, x>> \in R
    BY DEF OpToRel
  <1> HIDE DEF R
  <1>3. \E x \in Nat \ S : \A y \in Nat \ S : <<y, x>> \notin R
    BY <1>1, WFMin
  <1>4. PICK x \in Nat \ S : \A y \in Nat \ S : ~(y < x)
    BY <1>2, <1>3
  <1>5. x # 0 /\ x - 1 \in Nat /\ x - 1 < x
    BY <1>4
  <1>6. x - 1 \in S
    BY <1>4, <1>5
  <1>7. (x - 1) + 1 \in S
    BY <1>6
  <1> QED BY <1>4, <1>5, <1>7

------------------------------------------------------------------------------
(* Division *)

\* Quotient and remainder.
LEMMA DivMod ==
    ASSUME NEW n \in Nat, NEW d \in Nat \ {0}
    PROVE  n \div d \in Nat /\ n % d \in 0 .. d - 1 /\ n = d * (n \div d) + (n % d)
  OBVIOUS

\* They are determined by n.
LEMMA DivUnique ==
    ASSUME NEW n \in Nat, NEW d \in Nat \ {0}, NEW q \in Nat, NEW r \in 0 .. d - 1,
           n = d * q + r
    PROVE  n \div d = q
  OBVIOUS

\* Dividing by p and by b is dividing by their product.
LEMMA DivDiv ==
    ASSUME NEW n \in Nat, NEW p \in Nat \ {0}, NEW b \in Nat \ {0}
    PROVE  (n \div p) \div b = n \div (p * b)
  <1>1. PICK q \in Nat, r \in 0 .. p - 1 : q = n \div p /\ n = p * q + r
    BY DivMod
  <1>2. PICK q2 \in Nat, r2 \in 0 .. b - 1 : q2 = q \div b /\ q = b * q2 + r2
    <2>1. q \div b \in Nat /\ q % b \in 0 .. b - 1 /\ q = b * (q \div b) + (q % b)
      BY DivMod
    <2> QED BY <2>1
  <1>3. n = p * (b * q2 + r2) + r
    BY <1>1, <1>2
  <1>4. p * (b * q2 + r2) + r = (p * b) * q2 + (p * r2 + r)
    OBVIOUS
  <1>5. p * b \in Nat \ {0}
    OBVIOUS
  <1>6. p * r2 + r \in 0 .. (p * b) - 1
    OBVIOUS
  <1>7. n \div (p * b) = q2
    BY <1>3, <1>4, <1>5, <1>6, DivUnique
  <1> QED BY <1>1, <1>2, <1>7

------------------------------------------------------------------------------
(* The recursive definitions *)

\* The powers of Base exist and are what they should be.
LEMMA PowerDef ==
    /\ Power[0] = 1
    /\ \A k \in 1 .. LenBytes : Power[k] = Power[k - 1] * Base
  <1> DEFINE IsPower(f, n) == f = [k \in 0 .. n |-> IF k = 0 THEN 1 ELSE f[k - 1] * Base]
             S == {n \in Nat : \E f : IsPower(f, n)}
  <1>1. 0 \in S
    <2>1. IsPower([k \in 0 .. 0 |-> 1], 0)
      OBVIOUS
    <2> QED BY <2>1
  <1>2. ASSUME NEW n \in S PROVE n + 1 \in S
    <2>1. PICK f : IsPower(f, n)
      OBVIOUS
    <2> DEFINE g == [k \in 0 .. n + 1 |-> IF k = n + 1 THEN f[n] * Base ELSE f[k]]
               h == [k \in 0 .. n + 1 |-> IF k = 0 THEN 1 ELSE g[k - 1] * Base]
    <2>2. n \in Nat /\ n + 1 \in Nat
      OBVIOUS
    <2>3. ASSUME NEW k \in 0 .. n + 1 PROVE g[k] = h[k]
      <3>1. CASE k = 0
        BY <2>1, <2>2, <3>1
      <3>2. CASE k \in 1 .. n
        <4>1. f[k] = f[k - 1] * Base
          BY <2>1, <2>2, <3>2
        <4>2. g[k] = f[k] /\ g[k - 1] = f[k - 1]
          BY <2>2, <3>2
        <4> QED BY <2>2, <3>2, <4>1, <4>2
      <3>3. CASE k = n + 1
        <4>1. g[k] = f[n] * Base /\ g[k - 1] = f[n] /\ k # 0
          BY <2>2, <3>3
        <4> QED BY <4>1
      <3> QED BY <2>2, <3>1, <3>2, <3>3
    <2> HIDE DEF h
    <2>4. g = h
      <3>1. DOMAIN g = 0 .. n + 1 /\ DOMAIN h = 0 .. n + 1
        BY DEF h
      <3>2. h = [k \in 0 .. n + 1 |-> h[k]]
        BY DEF h
      <3>3. g = [k \in 0 .. n + 1 |-> g[k]]
        OBVIOUS
      <3> HIDE DEF g
      <3> QED BY <2>3, <3>2, <3>3
    <2>5. IsPower(g, n + 1)
      BY <2>4 DEF h
    <2> QED BY <2>2, <2>5
  <1>3. S = Nat
    <2> HIDE DEF S
    <2>1. S \in SUBSET Nat
      BY DEF S
    <2> QED BY <1>1, <1>2, <2>1, SetInduction
  <1>4. \E f : IsPower(f, LenBytes)
    BY <1>3, BigEndianAssumption
  <1>5. IsPower(Power, LenBytes)
    BY <1>4 DEF Power
  <1> DEFINE P == Power
  <1>6. P = [k \in 0 .. LenBytes |-> IF k = 0 THEN 1 ELSE P[k - 1] * Base]
    BY <1>5
  <1> HIDE DEF P
  <1>7. LenBytes \in Nat
    BY BigEndianAssumption
  <1>8. P[0] = 1
    BY <1>6, <1>7
  <1>9. ASSUME NEW k \in 1 .. LenBytes PROVE P[k] = P[k - 1] * Base
    <2>1. k \in 0 .. LenBytes /\ k # 0
      BY <1>7
    <2> QED BY <1>6, <2>1
  <1> QED BY <1>8, <1>9 DEF P

\* So do the values of the leading bytes of s, of which FromBe(s) is the last.
LEMMA ValueDef ==
    ASSUME NEW s
    PROVE  \E v : /\ FromBe(s) = v[LenBytes] /\ v[0] = 0
                  /\ \A k \in 1 .. LenBytes : v[k] = v[k - 1] * Base + s[k]
  <1> DEFINE IsValue(f, n) ==
                 f = [k \in 0 .. n |-> IF k = 0 THEN 0 ELSE f[k - 1] * Base + s[k]]
             S == {n \in Nat : \E f : IsValue(f, n)}
  <1>1. 0 \in S
    <2>1. IsValue([k \in 0 .. 0 |-> 0], 0)
      OBVIOUS
    <2> QED BY <2>1
  <1>2. ASSUME NEW n \in S PROVE n + 1 \in S
    <2>1. PICK f : IsValue(f, n)
      OBVIOUS
    <2> DEFINE g == [k \in 0 .. n + 1 |-> IF k = n + 1 THEN f[n] * Base + s[n + 1] ELSE f[k]]
               h == [k \in 0 .. n + 1 |-> IF k = 0 THEN 0 ELSE g[k - 1] * Base + s[k]]
    <2>2. n \in Nat /\ n + 1 \in Nat
      OBVIOUS
    <2>3. ASSUME NEW k \in 0 .. n + 1 PROVE g[k] = h[k]
      <3>1. CASE k = 0
        BY <2>1, <2>2, <3>1
      <3>2. CASE k \in 1 .. n
        <4>1. f[k] = f[k - 1] * Base + s[k]
          BY <2>1, <2>2, <3>2
        <4>2. g[k] = f[k] /\ g[k - 1] = f[k - 1]
          BY <2>2, <3>2
        <4> QED BY <2>2, <3>2, <4>1, <4>2
      <3>3. CASE k = n + 1
        <4>1. g[k] = f[n] * Base + s[k] /\ g[k - 1] = f[n] /\ k # 0
          BY <2>2, <3>3
        <4> QED BY <4>1
      <3> QED BY <2>2, <3>1, <3>2, <3>3
    <2> HIDE DEF h
    <2>4. g = h
      <3>1. h = [k \in 0 .. n + 1 |-> h[k]]
        BY DEF h
      <3>2. g = [k \in 0 .. n + 1 |-> g[k]]
        OBVIOUS
      <3> HIDE DEF g
      <3> QED BY <2>3, <3>1, <3>2
    <2>5. IsValue(g, n + 1)
      BY <2>4 DEF h
    <2> QED BY <2>2, <2>5
  <1>3. S = Nat
    <2> HIDE DEF S
    <2>1. S \in SUBSET Nat
      BY DEF S
    <2> QED BY <1>1, <1>2, <2>1, SetInduction
  <1>4. \E f : IsValue(f, LenBytes)
    BY <1>3, BigEndianAssumption
  <1> DEFINE v == CHOOSE f : IsValue(f, LenBytes)
  <1>5. FromBe(s) = v[LenBytes]
    BY DEF FromBe
  <1>6. v = [k \in 0 .. LenBytes |-> IF k = 0 THEN 0 ELSE v[k - 1] * Base + s[k]]
    BY <1>4
  <1> HIDE DEF v
  <1>7. LenBytes \in Nat
    BY BigEndianAssumption
  <1>8. v[0] = 0
    BY <1>6, <1>7
  <1>9. ASSUME NEW k \in 1 .. LenBytes PROVE v[k] = v[k - 1] * Base + s[k]
    <2>1. k \in 0 .. LenBytes /\ k # 0
      BY <1>7
    <2> QED BY <1>6, <2>1
  <1> QED BY <1>5, <1>8, <1>9

\* The powers are positive.
LEMMA PowerType == \A k \in 0 .. LenBytes : Power[k] \in Nat \ {0}
  <1> DEFINE S == {k \in Nat : k <= LenBytes => Power[k] \in Nat \ {0}}
  <1>0. LenBytes \in Nat /\ Base \in Nat \ {0}
    BY BigEndianAssumption
  <1>1. 0 \in S
    BY PowerDef
  <1>2. ASSUME NEW k \in S PROVE k + 1 \in S
    <2> SUFFICES ASSUME k + 1 <= LenBytes PROVE Power[k + 1] \in Nat \ {0}
      OBVIOUS
    <2>1. Power[k] \in Nat \ {0}
      BY <1>0
    <2>2. k + 1 \in 1 .. LenBytes /\ (k + 1) - 1 = k
      BY <1>0
    <2>3. Power[k + 1] = Power[k] * Base
      BY <2>2, PowerDef
    <2> QED BY <1>0, <2>1, <2>3
  <1>3. S = Nat
    <2> HIDE DEF S
    <2>1. S \in SUBSET Nat
      BY DEF S
    <2> QED BY <1>1, <1>2, <2>1, SetInduction
  <1> QED BY <1>0, <1>3

------------------------------------------------------------------------------

\* Bytes have a value below LenLimit ...
LEMMA FromBeType ==
    ASSUME NEW s \in [1 .. LenBytes -> Byte]
    PROVE  FromBe(s) \in Nat /\ FromBe(s) < LenLimit
  <1>1. PICK v : /\ FromBe(s) = v[LenBytes] /\ v[0] = 0
                 /\ \A k \in 1 .. LenBytes : v[k] = v[k - 1] * Base + s[k]
    BY ValueDef
  <1> DEFINE S == {k \in Nat : k <= LenBytes => v[k] \in Nat /\ v[k] < Power[k]}
  <1>0. LenBytes \in Nat /\ Base \in Nat
    BY BigEndianAssumption
  <1>2. 0 \in S
    BY <1>1, PowerDef
  <1>3. ASSUME NEW k \in S PROVE k + 1 \in S
    <2> SUFFICES ASSUME k + 1 <= LenBytes PROVE v[k + 1] \in Nat /\ v[k + 1] < Power[k + 1]
      OBVIOUS
    <2>1. v[k] \in Nat /\ v[k] < Power[k]
      BY <1>0
    <2>2. k + 1 \in 1 .. LenBytes /\ (k + 1) - 1 = k /\ k \in 0 .. LenBytes
      BY <1>0
    <2>3. v[k + 1] = v[k] * Base + s[k + 1] /\ s[k + 1] \in Nat /\ s[k + 1] < Base
      BY <1>0, <1>1, <2>2 DEF Byte
    <2>4. Power[k + 1] = Power[k] * Base /\ Power[k] \in Nat
      BY <2>2, PowerDef, PowerType
    <2>5. \A a, p, b, d \in Nat : a < p /\ d < b => a * b + d \in Nat /\ a * b + d < p * b
      <3> SUFFICES ASSUME NEW a \in Nat, NEW p \in Nat, NEW b \in Nat, NEW d \in Nat, a < p, d < b
                   PROVE  a * b + d \in Nat /\ a * b + d < p * b
        OBVIOUS
      <3>1. PICK c \in Nat : p = a + 1 + c
        <4>1. p - a - 1 \in Nat /\ p = a + 1 + (p - a - 1)
          OBVIOUS
        <4> QED BY <4>1
      <3>2. p * b = a * b + b + c * b /\ c * b \in Nat /\ a * b \in Nat
        BY <3>1
      <3> QED BY <3>2
    <2>6. v[k] * Base + s[k + 1] \in Nat /\ v[k] * Base + s[k + 1] < Power[k] * Base
      <3> HIDE DEF S
      <3> QED BY <1>0, <2>1, <2>3, <2>4, <2>5, Zenon
    <2> QED BY <2>3, <2>4, <2>6
  <1>4. S = Nat
    <2> HIDE DEF S
    <2>1. S \in SUBSET Nat
      BY DEF S
    <2> QED BY <1>2, <1>3, <2>1, SetInduction
  <1> QED BY <1>0, <1>1, <1>4 DEF LenLimit

\* ... the digits of a number are bytes ...
LEMMA ToBeType ==
    ASSUME NEW n \in Nat
    PROVE  ToBe(n) \in [1 .. LenBytes -> Byte]
  <1>1. ASSUME NEW k \in 1 .. LenBytes PROVE (n \div Power[LenBytes - k]) % Base \in Byte
    <2>1. LenBytes - k \in 0 .. LenBytes /\ Base \in Nat \ {0}
      BY BigEndianAssumption
    <2>2. Power[LenBytes - k] \in Nat \ {0}
      BY <2>1, PowerType
    <2>3. n \div Power[LenBytes - k] \in Nat
      BY <2>2, DivMod
    <2> QED BY <2>1, <2>3, DivMod DEF Byte
  <1> QED BY <1>1 DEF ToBe

\* ... and together give it back: after k bytes the value is what the number is without
\* its last LenBytes - k digits.
LEMMA DigitsGiveBack ==
    ASSUME NEW n \in 0 .. LenLimit - 1
    PROVE  FromBe(ToBe(n)) = n
  <1> DEFINE s == ToBe(n)
  <1>0. LenBytes \in Nat /\ Base \in Nat \ {0} /\ Power[LenBytes] \in Nat \ {0}
    BY BigEndianAssumption, PowerType
  <1>1. n \in Nat /\ n < Power[LenBytes]
    BY <1>0 DEF LenLimit
  <1>2. PICK v : /\ FromBe(s) = v[LenBytes] /\ v[0] = 0
                 /\ \A k \in 1 .. LenBytes : v[k] = v[k - 1] * Base + s[k]
    BY ValueDef
  <1> DEFINE S == {k \in Nat : k <= LenBytes => v[k] = n \div Power[LenBytes - k]}
  <1>3. 0 \in S
    <2>1. n \div Power[LenBytes] = 0
      <3> DEFINE d == Power[LenBytes]
      <3>1. d \in Nat \ {0} /\ n \in 0 .. d - 1 /\ n = d * 0 + n
        BY <1>0, <1>1
      <3> HIDE DEF d
      <3>2. n \div d = 0
        BY <1>1, <3>1, DivUnique
      <3> QED BY <3>2 DEF d
    <2>2. LenBytes - 0 = LenBytes
      BY <1>0
    <2> QED BY <1>2, <2>1, <2>2
  <1>4. ASSUME NEW k \in S PROVE k + 1 \in S
    <2> SUFFICES ASSUME k + 1 <= LenBytes PROVE v[k + 1] = n \div Power[LenBytes - (k + 1)]
      OBVIOUS
    <2> DEFINE j == LenBytes - (k + 1)
    <2>1. k \in Nat /\ k <= LenBytes /\ k + 1 \in 1 .. LenBytes /\ (k + 1) - 1 = k
      BY <1>0
    <2>2. j \in 0 .. LenBytes /\ LenBytes - k = j + 1 /\ j + 1 \in 1 .. LenBytes /\ (j + 1) - 1 = j
      BY <1>0, <2>1
    <2>3. v[k] = n \div Power[LenBytes - k]
      BY <2>1
    <2> HIDE DEF j
    <2>4. Power[j + 1] = Power[j] * Base /\ Power[j] \in Nat \ {0}
      BY <2>2, PowerDef, PowerType
    <2> DEFINE m == n \div Power[j]
    <2>5. m \in Nat
      BY <1>1, <2>4, DivMod
    <2>6. s[k + 1] = m % Base
      BY <2>1 DEF ToBe, j
    <2>7. v[k] = m \div Base
      BY <1>0, <1>1, <2>2, <2>3, <2>4, DivDiv
    <2>8. v[k + 1] = v[k] * Base + s[k + 1]
      BY <1>2, <2>1
    <2> HIDE DEF m, s
    <2>9. PICK q \in Nat, r \in Nat : q = m \div Base /\ r = m % Base /\ m = Base * q + r
      <3>1. m \div Base \in Nat /\ m % Base \in 0 .. Base - 1
            /\ m = Base * (m \div Base) + (m % Base)
        BY <1>0, <2>5, DivMod
      <3> QED BY <1>0, <3>1
    <2>10. v[k + 1] = q * Base + r
      BY <2>6, <2>7, <2>8, <2>9
    <2>11. q * Base + r = m
      BY <1>0, <2>5, <2>9
    <2> QED BY <2>10, <2>11 DEF m, j
  <1>5. S = Nat
    <2> HIDE DEF S
    <2>1. S \in SUBSET Nat
      BY DEF S
    <2> QED BY <1>3, <1>4, <2>1, SetInduction
  <1>6. v[LenBytes] = n \div Power[LenBytes - LenBytes]
    BY <1>0, <1>5
  <1>7. LenBytes - LenBytes = 0 /\ n \div 1 = n
    BY <1>0, <1>1
  <1> QED BY <1>2, <1>6, <1>7, PowerDef

\* What the frame codecs rely on: a length below LenLimit is LenBytes bytes on the wire,
\* and the receiver reads it off them again; any other bytes in its place are some
\* length below LenLimit, too.
THEOREM LengthField ==
    /\ LenLimit \in Nat
    /\ \A n \in 0 .. LenLimit - 1 : ToBe(n) \in [1 .. LenBytes -> Byte] /\ FromBe(ToBe(n)) = n
    /\ \A s \in [1 .. LenBytes -> Byte] : FromBe(s) \in Nat /\ FromBe(s) < LenLimit
  <1>1. LenLimit \in Nat
    BY PowerType, BigEndianAssumption DEF LenLimit
  <1>2. ASSUME NEW n \in 0 .. LenLimit - 1
        PROVE  ToBe(n) \in [1 .. LenBytes -> Byte] /\ FromBe(ToBe(n)) = n
    BY <1>1, ToBeType, DigitsGiveBack
  <1> QED BY <1>1, <1>2, FromBeType

\* A usize holds any number below UsizeLimit, and of a larger one what is left is a
\* number as well.
LEMMA UsizeHolds ==
    ASSUME NEW n \in Nat
    PROVE  AsUsize(n) \in Nat /\ (n < UsizeLimit => AsUsize(n) = n)
BY BigEndianAssumption DEF AsUsize
=============================================================================
