---------------------------- MODULE CheatProofs ----------------------------
(***************************************************************************)
(* Proofs about the two searches, for regions of every size and place and  *)
(* every content of the memory; of CheatSearch, for the four widths the    *)
(* filters are made for.                                                   *)
(***************************************************************************)
EXTENDS Searches, TLAPS

U8 == 0..255

(* Shifting one byte in and one out, whatever the width: K is 256 to the   *)
(* number of bytes that stay, q their value.                               *)
LEMMA Remainder ==
  ASSUME NEW M \in Nat \ {0}, NEW x \in Nat, x < M, NEW b \in Nat
  PROVE  (x + M * b) % M = x
BY SMT

LEMMA RollLittle ==
  ASSUME NEW K \in Nat \ {0}, NEW b \in U8, NEW q \in Nat, NEW c \in U8
  PROVE  ((b + 256 * q) \div 256) + c * ((256 * K) \div 256) = q + K * c
<1>1. (b + 256 * q) \div 256 = q
  BY SMT DEF U8
<1>2. (256 * K) \div 256 = K
  BY SMT
<1> QED BY <1>1, <1>2, SMT DEF U8

LEMMA RollBig ==
  ASSUME NEW K \in Nat \ {0}, NEW b \in U8, NEW q \in Nat, q < K, NEW c \in U8
  PROVE  (((q + K * b) * 256) % (256 * K)) + c = c + 256 * q
<1>1. (q + K * b) * 256 = 256 * q + (256 * K) * b
  BY SMT DEF U8
<1>2. 256 * q \in Nat /\ 256 * q < 256 * K /\ 256 * K \in Nat \ {0}
  BY SMT
<1>3. (256 * q + (256 * K) * b) % (256 * K) = 256 * q
  BY <1>2, Remainder DEF U8
<1> QED BY <1>1, <1>3, SMT DEF U8

K3 == 256 * 65536

(* The value of the three, or seven, bytes that stay.                      *)
Three(b1, b2, b3) == b1 + 256 * b2 + 65536 * b3
Seven(b1, b2, b3, b4, b5, b6, b7) ==
  Three(b1, b2, b3) + K3 * Little4(b4, b5, b6, b7)

Little8(b0, b1, b2, b3, b4, b5, b6, b7) ==
  Little4(b0, b1, b2, b3) + Modulus(4) * Little4(b4, b5, b6, b7)

LEMMA Split4 ==
  ASSUME NEW b0 \in U8, NEW b1 \in U8, NEW b2 \in U8, NEW b3 \in U8
  PROVE  /\ Little4(b0, b1, b2, b3) = b0 + 256 * Three(b1, b2, b3)
         /\ Little4(b0, b1, b2, b3) = Three(b0, b1, b2) + K3 * b3
         /\ Three(b1, b2, b3) \in Nat /\ Three(b1, b2, b3) < K3
         /\ Little4(b0, b1, b2, b3) \in Nat /\ Little4(b0, b1, b2, b3) < 256 * K3
<1>1. Little4(b0, b1, b2, b3) = b0 + 256 * b1 + 65536 * b2 + K3 * b3
  BY SMT DEF U8, Little4, Little, K3
<1>2. 256 * Three(b1, b2, b3) = 256 * b1 + 65536 * b2 + K3 * b3
  BY SMT DEF U8, Three, K3
<1>3. Little4(b0, b1, b2, b3) = b0 + 256 * Three(b1, b2, b3)
  BY <1>1, <1>2, SMT DEF U8, Three, K3
<1>4. Little4(b0, b1, b2, b3) = Three(b0, b1, b2) + K3 * b3
  BY <1>1, SMT DEF U8, Three, K3
<1>5. Three(b1, b2, b3) \in Nat /\ Three(b1, b2, b3) < K3
  BY SMT DEF U8, Three, K3
<1>6. Little4(b0, b1, b2, b3) \in Nat /\ Little4(b0, b1, b2, b3) < 256 * K3
  BY <1>1, SMT DEF U8, K3
<1> QED BY <1>3, <1>4, <1>5, <1>6

LEMMA Moduli ==
  /\ Modulus(2) = 256 * 256
  /\ Modulus(4) = 256 * K3
  /\ Modulus(8) = 256 * (K3 * (256 * K3))
BY SMT DEF Modulus, K3

LEMMA Roll2 ==
  ASSUME NEW b0 \in U8, NEW b1 \in U8, NEW b2 \in U8
  PROVE  /\ (Little(b0, b1) \div 256) + b2 * (Modulus(2) \div 256) = Little(b1, b2)
         /\ ((Little(b1, b0) * 256) % Modulus(2)) + b2 = Little(b2, b1)
<1>1. b0 \in Nat /\ b1 \in Nat /\ b1 < 256 /\ 256 \in Nat \ {0}
  BY DEF U8
<1>2. ((b0 + 256 * b1) \div 256) + b2 * ((256 * 256) \div 256) = b1 + 256 * b2
  BY <1>1, RollLittle
<1>3. (((b1 + 256 * b0) * 256) % (256 * 256)) + b2 = b2 + 256 * b1
  BY <1>1, RollBig
<1> QED BY <1>2, <1>3, Moduli DEF Little

LEMMA Roll4 ==
  ASSUME NEW b0 \in U8, NEW b1 \in U8, NEW b2 \in U8, NEW b3 \in U8, NEW b4 \in U8
  PROVE  /\ (Little4(b0, b1, b2, b3) \div 256) + b4 * (Modulus(4) \div 256)
              = Little4(b1, b2, b3, b4)
         /\ ((Little4(b3, b2, b1, b0) * 256) % Modulus(4)) + b4
              = Little4(b4, b3, b2, b1)
<1> DEFINE q == Three(b1, b2, b3)
           r == Three(b3, b2, b1)
<1>1. q \in Nat /\ r \in Nat /\ r < K3
  BY Split4
<1>2. K3 \in Nat \ {0}
  BY SMT DEF K3
<1>3. ((b0 + 256 * q) \div 256) + b4 * ((256 * K3) \div 256) = q + K3 * b4
  BY <1>1, <1>2, RollLittle
<1>4. (((r + K3 * b0) * 256) % (256 * K3)) + b4 = b4 + 256 * r
  BY <1>1, <1>2, RollBig
<1>5. /\ Little4(b0, b1, b2, b3) = b0 + 256 * q
      /\ Little4(b1, b2, b3, b4) = q + K3 * b4
      /\ Little4(b3, b2, b1, b0) = r + K3 * b0
      /\ Little4(b4, b3, b2, b1) = b4 + 256 * r
  BY Split4
<1> QED BY <1>3, <1>4, <1>5, Moduli

(* The least and the most significant of eight bytes taken off.            *)
Splits8(b0, b1, b2, b3, b4, b5, b6, b7) ==
  /\ Little8(b0, b1, b2, b3, b4, b5, b6, b7)
       = b0 + 256 * Seven(b1, b2, b3, b4, b5, b6, b7)
  /\ Little8(b0, b1, b2, b3, b4, b5, b6, b7)
       = Seven(b0, b1, b2, b3, b4, b5, b6) + (K3 * (256 * K3)) * b7
  /\ Seven(b1, b2, b3, b4, b5, b6, b7) \in Nat
  /\ Seven(b1, b2, b3, b4, b5, b6, b7) < K3 * (256 * K3)

LEMMA Split8 ==
  ASSUME NEW b0 \in U8, NEW b1 \in U8, NEW b2 \in U8, NEW b3 \in U8,
         NEW b4 \in U8, NEW b5 \in U8, NEW b6 \in U8, NEW b7 \in U8
  PROVE  Splits8(b0, b1, b2, b3, b4, b5, b6, b7)
<1> DEFINE lo == Little4(b0, b1, b2, b3)
           hi == Little4(b4, b5, b6, b7)
           t  == Three(b1, b2, b3)
<1>1. lo \in Nat /\ hi \in Nat /\ hi < 256 * K3 /\ t \in Nat /\ t < K3
  BY Split4
<1>2. Little8(b0, b1, b2, b3, b4, b5, b6, b7) = lo + (256 * K3) * hi
  BY Moduli DEF Little8
<1>3. lo = b0 + 256 * t
  BY Split4
<1>4. Seven(b1, b2, b3, b4, b5, b6, b7) = t + K3 * hi
  BY DEF Seven
<1>5. Little8(b0, b1, b2, b3, b4, b5, b6, b7)
        = b0 + 256 * Seven(b1, b2, b3, b4, b5, b6, b7)
  <2>1. b0 + 256 * t + (256 * K3) * hi = b0 + 256 * (t + K3 * hi)
    BY <1>1, SMT DEF U8, K3
  <2> QED BY <1>2, <1>3, <1>4, <2>1
<1>6. Little8(b0, b1, b2, b3, b4, b5, b6, b7)
        = Seven(b0, b1, b2, b3, b4, b5, b6) + (K3 * (256 * K3)) * b7
  <2> DEFINE u == Three(b4, b5, b6)
             v == Three(b0, b1, b2)
             m == Little4(b3, b4, b5, b6)
  <2>1. /\ lo = v + K3 * b3 /\ hi = u + K3 * b7 /\ m = b3 + 256 * u
        /\ u \in Nat /\ v \in Nat
    BY Split4
  <2>2. Seven(b0, b1, b2, b3, b4, b5, b6) = v + K3 * m
    BY DEF Seven
  <2>3. v + K3 * b3 + (256 * K3) * (u + K3 * b7)
          = v + K3 * (b3 + 256 * u) + (K3 * (256 * K3)) * b7
    BY <2>1, SMT DEF U8, K3
  <2> QED BY <1>2, <2>1, <2>2, <2>3
<1>7. t + K3 * hi \in Nat /\ t + K3 * hi < K3 * (256 * K3)
  BY <1>1, SMT DEF K3
<1> QED BY <1>4, <1>5, <1>6, <1>7 DEF Splits8

Rolls8(b0, b1, b2, b3, b4, b5, b6, b7, b8) ==
  /\ (Little8(b0, b1, b2, b3, b4, b5, b6, b7) \div 256)
       + b8 * (Modulus(8) \div 256)
       = Little8(b1, b2, b3, b4, b5, b6, b7, b8)
  /\ ((Little8(b7, b6, b5, b4, b3, b2, b1, b0) * 256) % Modulus(8)) + b8
       = Little8(b8, b7, b6, b5, b4, b3, b2, b1)

LEMMA Roll8 ==
  ASSUME NEW b0 \in U8, NEW b1 \in U8, NEW b2 \in U8, NEW b3 \in U8, NEW b4 \in U8,
         NEW b5 \in U8, NEW b6 \in U8, NEW b7 \in U8, NEW b8 \in U8
  PROVE  Rolls8(b0, b1, b2, b3, b4, b5, b6, b7, b8)
<1> DEFINE K == K3 * (256 * K3)
           q == Seven(b1, b2, b3, b4, b5, b6, b7)
           r == Seven(b7, b6, b5, b4, b3, b2, b1)
<1>0. /\ Splits8(b0, b1, b2, b3, b4, b5, b6, b7)
      /\ Splits8(b1, b2, b3, b4, b5, b6, b7, b8)
      /\ Splits8(b7, b6, b5, b4, b3, b2, b1, b0)
      /\ Splits8(b8, b7, b6, b5, b4, b3, b2, b1)
  BY Split8
<1>1. q \in Nat /\ r \in Nat /\ r < K
  BY <1>0 DEF Splits8
<1>2. K \in Nat \ {0}
  BY SMT DEF K3
<1> HIDE DEF K
<1>3. ((b0 + 256 * q) \div 256) + b8 * ((256 * K) \div 256) = q + K * b8
  BY <1>1, <1>2, RollLittle
<1>4. (((r + K * b0) * 256) % (256 * K)) + b8 = b8 + 256 * r
  BY <1>1, <1>2, RollBig
<1>5. /\ Little8(b0, b1, b2, b3, b4, b5, b6, b7) = b0 + 256 * q
      /\ Little8(b1, b2, b3, b4, b5, b6, b7, b8) = q + K * b8
      /\ Little8(b7, b6, b5, b4, b3, b2, b1, b0) = r + K * b0
      /\ Little8(b8, b7, b6, b5, b4, b3, b2, b1) = b8 + 256 * r
  BY <1>0 DEF Splits8, K
<1>6. Modulus(8) = 256 * K
  BY Moduli DEF K
<1> QED BY <1>3, <1>4, <1>5, <1>6 DEF Rolls8

-----------------------------------------------------------------------------
(* The window, moved by one address, is what first() reads there.          *)
LEMMA FollowingIsFirst ==
  ASSUME NEW m \in Memory, NEW s \in Setting, NEW a \in Region,
         a + s.width \in Region
  PROVE  Following(First(m, a, s), m, a + 1, s) = First(m, a + 1, s)
<1>1. s.width \in Width /\ s.big \in BOOLEAN
  BY CheatAssumption
<1>2. a \in Int /\ Base \in Int /\ Size \in Int
  BY CheatAssumption DEF Region
<1>3. ASSUME NEW k \in Int, 0 <= k, k <= s.width
      PROVE  m[a + k] \in U8
  <2>1. a + k \in Region
    BY <1>1, <1>2, <1>3 DEF Region, Width
  <2> QED BY <2>1, CheatAssumption DEF Memory, U8
<1>4. CASE s.width = 1
  BY <1>2, <1>4 DEF Following, First
<1>5. CASE s.width = 2
  <2>1. m[a] \in U8 /\ m[a + 1] \in U8 /\ m[a + 2] \in U8
    BY <1>2, <1>3, <1>5
  <2>2. CASE s.big
    <3>1. First(m, a, s) = Little(m[a + 1], m[a])
      BY <1>2, <1>5, <2>2 DEF First
    <3>2. First(m, a + 1, s) = Little(m[a + 2], m[a + 1])
      BY <1>2, <1>5, <2>2 DEF First
    <3>3. Following(First(m, a, s), m, a + 1, s)
            = ((First(m, a, s) * 256) % Modulus(2)) + m[a + 2]
      BY <1>2, <1>5, <2>2 DEF Following
    <3> QED BY <2>1, <3>1, <3>2, <3>3, Roll2
  <2>3. CASE ~s.big
    <3>1. First(m, a, s) = Little(m[a], m[a + 1])
      BY <1>2, <1>5, <2>3 DEF First
    <3>2. First(m, a + 1, s) = Little(m[a + 1], m[a + 2])
      BY <1>2, <1>5, <2>3 DEF First
    <3>3. Following(First(m, a, s), m, a + 1, s)
            = (First(m, a, s) \div 256) + m[a + 2] * (Modulus(2) \div 256)
      BY <1>2, <1>5, <2>3 DEF Following
    <3> QED BY <2>1, <3>1, <3>2, <3>3, Roll2
  <2> QED BY <1>1, <2>2, <2>3
<1>6. CASE s.width = 4
  <2>1. /\ m[a] \in U8 /\ m[a + 1] \in U8 /\ m[a + 2] \in U8
        /\ m[a + 3] \in U8 /\ m[a + 4] \in U8
    BY <1>2, <1>3, <1>6
  <2>2. CASE s.big
    <3>1. First(m, a, s) = Little4(m[a + 3], m[a + 2], m[a + 1], m[a])
      BY <1>2, <1>6, <2>2 DEF First
    <3>2. First(m, a + 1, s) = Little4(m[a + 4], m[a + 3], m[a + 2], m[a + 1])
      BY <1>2, <1>6, <2>2 DEF First
    <3>3. Following(First(m, a, s), m, a + 1, s)
            = ((First(m, a, s) * 256) % Modulus(4)) + m[a + 4]
      BY <1>2, <1>6, <2>2 DEF Following
    <3> QED BY <2>1, <3>1, <3>2, <3>3, Roll4
  <2>3. CASE ~s.big
    <3>1. First(m, a, s) = Little4(m[a], m[a + 1], m[a + 2], m[a + 3])
      BY <1>2, <1>6, <2>3 DEF First
    <3>2. First(m, a + 1, s) = Little4(m[a + 1], m[a + 2], m[a + 3], m[a + 4])
      BY <1>2, <1>6, <2>3 DEF First
    <3>3. Following(First(m, a, s), m, a + 1, s)
            = (First(m, a, s) \div 256) + m[a + 4] * (Modulus(4) \div 256)
      BY <1>2, <1>6, <2>3 DEF Following
    <3> QED BY <2>1, <3>1, <3>2, <3>3, Roll4
  <2> QED BY <1>1, <2>2, <2>3
<1>7. CASE s.width = 8
  <2>1. /\ m[a] \in U8 /\ m[a + 1] \in U8 /\ m[a + 2] \in U8
        /\ m[a + 3] \in U8 /\ m[a + 4] \in U8 /\ m[a + 5] \in U8
        /\ m[a + 6] \in U8 /\ m[a + 7] \in U8 /\ m[a + 8] \in U8
    BY <1>2, <1>3, <1>7
  <2>4. Rolls8(m[a], m[a + 1], m[a + 2], m[a + 3], m[a + 4],
               m[a + 5], m[a + 6], m[a + 7], m[a + 8])
    BY <2>1, Roll8
  <2>2. CASE s.big
    <3>1. First(m, a, s) = Little8(m[a + 7], m[a + 6], m[a + 5], m[a + 4],
                                   m[a + 3], m[a + 2], m[a + 1], m[a])
      BY <1>2, <1>7, <2>2 DEF First, Little8
    <3>2. First(m, a + 1, s) = Little8(m[a + 8], m[a + 7], m[a + 6], m[a + 5],
                                       m[a + 4], m[a + 3], m[a + 2], m[a + 1])
      BY <1>2, <1>7, <2>2 DEF First, Little8
    <3>3. Following(First(m, a, s), m, a + 1, s)
            = ((First(m, a, s) * 256) % Modulus(8)) + m[a + 8]
      BY <1>2, <1>7, <2>2 DEF Following
    <3> QED BY <2>4, <3>1, <3>2, <3>3 DEF Rolls8
  <2>3. CASE ~s.big
    <3>1. First(m, a, s) = Little8(m[a], m[a + 1], m[a + 2], m[a + 3],
                                   m[a + 4], m[a + 5], m[a + 6], m[a + 7])
      BY <1>2, <1>7, <2>3 DEF First, Little8
    <3>2. First(m, a + 1, s) = Little8(m[a + 1], m[a + 2], m[a + 3], m[a + 4],
                                       m[a + 5], m[a + 6], m[a + 7], m[a + 8])
      BY <1>2, <1>7, <2>3 DEF First, Little8
    <3>3. Following(First(m, a, s), m, a + 1, s)
            = (First(m, a, s) \div 256) + m[a + 8] * (Modulus(8) \div 256)
      BY <1>2, <1>7, <2>3 DEF Following
    <3> QED BY <2>4, <3>1, <3>2, <3>3 DEF Rolls8
  <2> QED BY <1>1, <2>2, <2>3
<1> QED BY <1>1, <1>4, <1>5, <1>6, <1>7 DEF Width

LEMMA FollowingOfIsFirstOf ==
  ASSUME NEW x, x.memory \in Memory \union {NoMemory}, NEW s \in Setting,
         NEW a \in Region, a + s.width \in Region
  PROVE  FollowingOf(FirstOf(x, a, s), x, a + 1, s) = FirstOf(x, a + 1, s)
<1>1. CASE IsNumber(x)
  BY <1>1 DEF FollowingOf, FirstOf
<1>2. CASE ~IsNumber(x)
  <2>1. x.memory \in Memory
    BY <1>2 DEF IsNumber
  <2> QED BY <1>2, <2>1, FollowingIsFirst DEF FollowingOf, FirstOf
<1> QED BY <1>1, <1>2

-----------------------------------------------------------------------------
(* The operations on sets.                                                 *)
LEMMA SetsType ==
  ASSUME NEW a \in CheatSet, NEW b \in CheatSet
  PROVE  /\ Complement(a) \in CheatSet
         /\ Union(a, b) \in CheatSet
         /\ Intersection(a, b) \in CheatSet
         /\ Difference(a, b) \in CheatSet
         /\ Empty \in CheatSet /\ Universal \in CheatSet
         /\ \A e \in SUBSET Region : Plain(e) \in CheatSet
<1>1. \A e \in SUBSET Region : Plain(e) \in CheatSet
  BY DEF Plain, CheatSet
<1>2. \A c \in CheatSet : Complement(c) \in CheatSet
  BY DEF Complement, CheatSet
<1>3. a.elements \in SUBSET Region /\ b.elements \in SUBSET Region
  BY DEF CheatSet
<1>4. a.complemented \in BOOLEAN /\ b.complemented \in BOOLEAN
  BY DEF CheatSet
<1>5. Union(a, b) \in CheatSet
  BY <1>1, <1>2, <1>3, <1>4 DEF Union
<1>6. Intersection(a, b) \in CheatSet
  BY <1>1, <1>2, <1>3, <1>4 DEF Intersection
<1>7. Difference(a, b) \in CheatSet
  BY <1>1, <1>2, <1>3, <1>4 DEF Difference
<1> QED BY <1>1, <1>2, <1>5, <1>6, <1>7 DEF Empty, Universal

LEMMA ComplementMeans ==
  ASSUME NEW a \in CheatSet, NEW x
  PROVE  Contains(Complement(a), x) <=> ~Contains(a, x)
BY DEF Complement, Contains, CheatSet

LEMMA PlainMeans ==
  ASSUME NEW e, NEW x
  PROVE  /\ Contains(Plain(e), x) <=> x \in e
         /\ Contains(Complement(Plain(e)), x) <=> x \notin e
BY DEF Complement, Contains, Plain

LEMMA UnionMeans ==
  ASSUME NEW a \in CheatSet, NEW b \in CheatSet, NEW x
  PROVE  Contains(Union(a, b), x) <=> Contains(a, x) \/ Contains(b, x)
<1>1. a.complemented \in BOOLEAN /\ b.complemented \in BOOLEAN
  BY DEF CheatSet
<1>2. CASE ~a.complemented /\ ~b.complemented
  BY <1>2, PlainMeans DEF Union, Contains
<1>3. CASE ~a.complemented /\ b.complemented
  BY <1>3, PlainMeans DEF Union, Contains
<1>4. CASE a.complemented /\ ~b.complemented
  BY <1>4, PlainMeans DEF Union, Contains
<1>5. CASE a.complemented /\ b.complemented
  BY <1>5, PlainMeans DEF Union, Contains
<1> QED BY <1>1, <1>2, <1>3, <1>4, <1>5

LEMMA IntersectionMeans ==
  ASSUME NEW a \in CheatSet, NEW b \in CheatSet, NEW x
  PROVE  Contains(Intersection(a, b), x) <=> Contains(a, x) /\ Contains(b, x)
<1>1. a.complemented \in BOOLEAN /\ b.complemented \in BOOLEAN
  BY DEF CheatSet
<1>2. CASE ~a.complemented /\ ~b.complemented
  BY <1>2, PlainMeans DEF Intersection, Contains
<1>3. CASE ~a.complemented /\ b.complemented
  BY <1>3, PlainMeans DEF Intersection, Contains
<1>4. CASE a.complemented /\ ~b.complemented
  BY <1>4, PlainMeans DEF Intersection, Contains
<1>5. CASE a.complemented /\ b.complemented
  BY <1>5, PlainMeans DEF Intersection, Contains
<1> QED BY <1>1, <1>2, <1>3, <1>4, <1>5

LEMMA DifferenceMeans ==
  ASSUME NEW a \in CheatSet, NEW b \in CheatSet, NEW x
  PROVE  Contains(Difference(a, b), x) <=> Contains(a, x) /\ ~Contains(b, x)
<1>1. a.complemented \in BOOLEAN /\ b.complemented \in BOOLEAN
  BY DEF CheatSet
<1>2. CASE ~a.complemented /\ ~b.complemented
  BY <1>2, PlainMeans DEF Difference, Contains
<1>3. CASE ~a.complemented /\ b.complemented
  BY <1>3, PlainMeans DEF Difference, Contains
<1>4. CASE a.complemented /\ ~b.complemented
  BY <1>4, PlainMeans DEF Difference, Contains
<1>5. CASE a.complemented /\ b.complemented
  BY <1>5, PlainMeans DEF Difference, Contains
<1> QED BY <1>1, <1>2, <1>3, <1>4, <1>5

-----------------------------------------------------------------------------
(* What the loop has found are the addresses that pass, up to its own.     *)
FoundSoFar ==
  pc = "loop" =>
    \A a \in Region :
      (\E k \in DOMAIN found : found[k] = a) <=> a < address /\ Passes(a)

Inv == TypeOK /\ WindowExact /\ FoundAscends /\ FoundSoFar

LEMMA Constants ==
  /\ Base \in Int /\ Size \in Int /\ Size >= 0
  /\ \A s \in Setting : s.width \in Width /\ s.width \in Int /\ s.width >= 1
BY CheatAssumption DEF Width

LEMMA InitInv == Init => Inv
<1> SUFFICES ASSUME Init PROVE Inv
  OBVIOUS
<1>1. Empty \in CheatSet
  BY DEF Empty, Plain, CheatSet
<1> QED
  BY <1>1 DEF Init, Inv, TypeOK, WindowExact, FoundAscends, FoundSoFar

(* A step that does not end in the loop has only the types to keep.        *)
LEMMA OutsideInv ==
  ASSUME TypeOK, pc' # "loop", memory' \in Memory, alive' \in BOOLEAN,
         settings' \in Setting, current' \in Memory \union {NoMemory},
         set' \in CheatSet, mine' \in CheatSet,
         pc' \in {"none", "idle", "crashed"}
  PROVE  Inv'
BY DEF Inv, TypeOK, WindowExact, FoundAscends, FoundSoFar

LEMMA ConcludeInv ==
  ASSUME TypeOK, NEW e \in SUBSET Region, NEW m \in Memory \union {NoMemory},
         Conclude(e, m)
  PROVE  Inv'
<1>1. Intersection(set, Plain(e)) \in CheatSet
  <2>1. Plain(e) \in CheatSet
    BY DEF Plain, CheatSet
  <2> QED BY <2>1, SetsType DEF TypeOK
<1> QED BY <1>1, OutsideInv DEF Conclude, TypeOK

LEMMA SnapshotType ==
  ASSUME TypeOK
  PROVE  Snapshot \in Memory \union {NoMemory}
BY DEF TypeOK, Snapshot

LEMMA NextBeginsInv ==
  ASSUME Inv, NEW op \in Operator,
         NEW x \in {Number(n) : n \in Operand} \union {PreviousOne},
         NextBegins(op, x)
  PROVE  Inv'
<1> USE DEF Inv
<1>1. /\ settings \in Setting /\ settings.width >= 1 /\ settings.width \in Int
      /\ settings' = settings
  BY Constants DEF TypeOK, NextBegins, searchVars
<1>2. alive /\ Size >= settings.width
  BY <1>1, Constants DEF NextBegins, SnapshotSize, TypeOK
<1>3. x \in [number : Int, memory : Memory \union {NoMemory}]
  BY CheatAssumption DEF Number, PreviousOne, TypeOK
<1>4. LoopEnd' = LoopEnd
  BY <1>1 DEF LoopEnd
<1>5. Base \in Base..(LoopEnd - 1)
  BY <1>1, <1>2, Constants DEF LoopEnd
<1>6. TypeOK'
  BY <1>2, <1>3, <1>4, <1>5 DEF TypeOK, NextBegins, Snapshot, searchVars
<1>7. WindowExact'
  BY <1>1 DEF WindowExact, NextBegins
<1>8. FoundAscends'
  BY DEF FoundAscends, NextBegins
<1>9. FoundSoFar'
  <2>1. found' = <<>> /\ address' = Base
    BY DEF NextBegins
  <2>2. \A a \in Region : ~(a < Base)
    BY Constants DEF Region
  <2>3. \A a \in Region : ~\E k \in DOMAIN found' : found'[k] = a
    BY <2>1
  <2> QED BY <2>1, <2>2, <2>3 DEF FoundSoFar
<1> QED BY <1>6, <1>7, <1>8, <1>9

(* The addresses the next round of the loop, or its end, has found.        *)
LEMMA FoundNowIs ==
  ASSUME Inv, pc = "loop"
  PROVE  /\ address \in Region /\ address \in Int
         /\ FoundNow \in Seq(Region)
         /\ \A i, j \in 1..Len(FoundNow) : i < j => FoundNow[i] < FoundNow[j]
         /\ \A i \in 1..Len(FoundNow) : FoundNow[i] < address + 1
         /\ \A a \in Region :
              (\E k \in DOMAIN FoundNow : FoundNow[k] = a)
                <=> a < address + 1 /\ Passes(a)
<1> USE DEF Inv
<1>1. /\ settings \in Setting /\ settings.width >= 1 /\ settings.width \in Int
  BY Constants DEF TypeOK
<1>2. /\ address \in Int /\ Base <= address
      /\ address <= Base + Size - settings.width
  BY <1>1, Constants DEF TypeOK, LoopEnd
<1>3. address \in Region /\ address + settings.width - 1 \in Region
  BY <1>1, <1>2, Constants DEF Region
<1>4. Compare(filter.operator, value1, value2, settings) <=> Passes(address)
  BY <1>3 DEF WindowExact, Passes
<1>5. \A a \in Region : a \in Int
  BY Constants DEF Region
<1>6. found \in Seq(Region)
  BY DEF TypeOK
<1>7. /\ \A i, j \in 1..Len(found) : i < j => found[i] < found[j]
      /\ \A i \in 1..Len(found) : found[i] < address
      /\ \A i \in 1..Len(found) : found[i] \in Int
  BY <1>5, <1>6 DEF FoundAscends
<1>8. CASE Passes(address)
  <2>1. FoundNow = Append(found, address)
    BY <1>4, <1>8 DEF FoundNow
  <2>2. FoundNow \in Seq(Region) /\ Len(FoundNow) = Len(found) + 1
    BY <1>3, <1>6, <2>1
  <2>3. /\ FoundNow[Len(found) + 1] = address
        /\ \A i \in 1..Len(found) : FoundNow[i] = found[i]
    BY <1>6, <2>1
  <2>4. Len(found) \in Nat
    BY <1>6
  <2>5. \A i, j \in 1..Len(FoundNow) : i < j => FoundNow[i] < FoundNow[j]
    BY <1>2, <1>7, <2>2, <2>3, <2>4
  <2>6. \A i \in 1..Len(FoundNow) : FoundNow[i] < address + 1
    BY <1>2, <1>7, <2>2, <2>3, <2>4
  <2>7. ASSUME NEW a \in Region
        PROVE  (\E k \in DOMAIN FoundNow : FoundNow[k] = a)
                 <=> a < address + 1 /\ Passes(a)
    <3>1. DOMAIN found = 1..Len(found) /\ DOMAIN FoundNow = 1..(Len(found) + 1)
      BY <1>6, <2>2
    <3>2. (\E k \in DOMAIN FoundNow : FoundNow[k] = a)
            <=> a = address \/ \E k \in DOMAIN found : found[k] = a
      BY <2>3, <2>4, <3>1
    <3>3. (\E k \in DOMAIN found : found[k] = a) <=> a < address /\ Passes(a)
      BY DEF FoundSoFar
    <3>4. a < address + 1 <=> a < address \/ a = address
      BY <1>2, <1>5
    <3> QED BY <1>8, <3>2, <3>3, <3>4
  <2> QED BY <1>2, <1>3, <2>2, <2>5, <2>6, <2>7
<1>9. CASE ~Passes(address)
  <2>1. FoundNow = found
    BY <1>4, <1>9 DEF FoundNow
  <2>2. \A i \in 1..Len(found) : found[i] < address + 1
    BY <1>2, <1>7
  <2>3. ASSUME NEW a \in Region
        PROVE  (\E k \in DOMAIN found : found[k] = a)
                 <=> a < address + 1 /\ Passes(a)
    <3>1. (\E k \in DOMAIN found : found[k] = a) <=> a < address /\ Passes(a)
      BY DEF FoundSoFar
    <3>2. a < address + 1 <=> a < address \/ a = address
      BY <1>2, <1>5
    <3> QED BY <1>9, <3>1, <3>2
  <2> QED BY <1>2, <1>3, <1>6, <1>7, <2>1, <2>2, <2>3
<1> QED BY <1>8, <1>9

LEMMA FilterStepInv ==
  ASSUME Inv, FilterStep
  PROVE  Inv'
<1> USE DEF Inv
<1>1. /\ settings \in Setting /\ settings.width >= 1 /\ settings.width \in Int
      /\ settings' = settings /\ filter' = filter /\ pc = "loop" /\ pc' = "loop"
      /\ address' = address + 1 /\ found' = FoundNow
  BY Constants DEF TypeOK, FilterStep, searchVars
<1>2. /\ address \in Region /\ address \in Int
      /\ FoundNow \in Seq(Region)
      /\ \A i, j \in 1..Len(FoundNow) : i < j => FoundNow[i] < FoundNow[j]
      /\ \A i \in 1..Len(FoundNow) : FoundNow[i] < address + 1
      /\ \A a \in Region :
           (\E k \in DOMAIN FoundNow : FoundNow[k] = a)
             <=> a < address + 1 /\ Passes(a)
  BY <1>1, FoundNowIs
<1>3. address + 1 < LoopEnd /\ Base <= address
  BY <1>1 DEF FilterStep, TypeOK
<1>4. LoopEnd' = LoopEnd
  BY <1>1 DEF LoopEnd
<1>5. address + settings.width \in Region
  BY <1>1, <1>2, <1>3, Constants DEF Region, LoopEnd
<1>6. address + 1 \in Base..(LoopEnd - 1)
  BY <1>1, <1>2, <1>3, Constants DEF LoopEnd
<1>7. TypeOK'
  BY <1>1, <1>2, <1>4, <1>6 DEF TypeOK, FilterStep, searchVars
<1>8. WindowExact'
  <2>1. filter.memory \in Memory
        /\ filter.operand.memory \in Memory \union {NoMemory}
    BY <1>1 DEF TypeOK
  <2>2. value1' = First(filter.memory, address + 1, settings)
    BY <1>1, <1>2, <1>5, <2>1, FollowingIsFirst DEF WindowExact, FilterStep
  <2>3. value2' = FirstOf(filter.operand, address + 1, settings)
    BY <1>1, <1>2, <1>5, <2>1, FollowingOfIsFirstOf DEF WindowExact, FilterStep
  <2> QED BY <1>1, <2>2, <2>3 DEF WindowExact
<1>9. FoundAscends'
  BY <1>1, <1>2 DEF FoundAscends
<1>10. FoundSoFar'
  <2>1. \A a : Passes(a)' <=> Passes(a)
    BY <1>1 DEF Passes
  <2> QED BY <1>1, <1>2, <2>1 DEF FoundSoFar
<1> QED BY <1>7, <1>8, <1>9, <1>10

LEMMA FilterEndsInv ==
  ASSUME Inv, FilterEnds
  PROVE  Inv'
<1>1. {FoundNow[k] : k \in DOMAIN FoundNow} \in SUBSET Region
  BY FoundNowIs DEF FilterEnds
<1>2. filter.memory \in Memory
  BY DEF Inv, TypeOK, FilterEnds
<1> QED BY <1>1, <1>2, ConcludeInv DEF FilterEnds, Inv

LEMMA CombineInv ==
  ASSUME Inv, NEW op \in SetOp, Combine(op)
  PROVE  Inv'
<1>1. Apply(op, mine, set) \in CheatSet
  BY SetsType DEF Apply, SetOp, Inv, TypeOK
<1> QED BY <1>1, OutsideInv DEF Combine, Inv, TypeOK, searchVars

LEMMA NextInv == Inv /\ [Next]_vars => Inv'
<1> SUFFICES ASSUME Inv, [Next]_vars PROVE Inv'
  OBVIOUS
<1> USE DEF Inv
<1>1. CASE GameWrites
  <2>1. memory' \in Memory
    BY <1>1 DEF GameWrites, TypeOK, Memory
  <2> QED BY <1>1, <2>1, OutsideInv DEF GameWrites, Between, TypeOK, searchVars
<1>2. CASE GameEnds
  BY <1>2, OutsideInv DEF GameEnds, Between, TypeOK, searchVars
<1>3. ASSUME NEW s \in Setting, Start(s) PROVE Inv'
  <2>1. Universal \in CheatSet
    BY SetsType DEF TypeOK
  <2> QED BY <1>3, <2>1, OutsideInv DEF Start, TypeOK
<1>4. CASE NextCrashes
  BY <1>4, OutsideInv DEF NextCrashes, TypeOK, searchVars
<1>5. ASSUME NEW x, NextTooSmall(x) PROVE Inv'
  BY <1>5, ConcludeInv, SnapshotType DEF NextTooSmall
<1>6. ASSUME NEW x \in {Number(n) : n \in Operand} \union {PreviousOne},
             NEW op \in Operator, NextBegins(op, x)
      PROVE  Inv'
  BY <1>6, NextBeginsInv
<1>7. CASE FilterStep
  BY <1>7, FilterStepInv
<1>8. CASE FilterEnds
  BY <1>8, FilterEndsInv
<1>9. ASSUME NEW op \in SetOp, Combine(op) PROVE Inv'
  BY <1>9, CombineInv
<1>10. CASE UNCHANGED vars
  <2>1. \A a : Passes(a)' <=> Passes(a)
    BY <1>10 DEF vars, searchVars, filterVars, Passes
  <2>2. TypeOK'
    BY <1>10 DEF vars, searchVars, filterVars, TypeOK, LoopEnd
  <2>3. WindowExact' /\ FoundAscends'
    BY <1>10 DEF vars, searchVars, filterVars, WindowExact, FoundAscends
  <2>4. FoundSoFar'
    BY <1>10, <2>1 DEF vars, filterVars, FoundSoFar
  <2> QED BY <2>2, <2>3, <2>4
<1> QED
  BY <1>1, <1>2, <1>3, <1>4, <1>5, <1>6, <1>7, <1>8, <1>9, <1>10
     DEF Next, Crashed

LEMMA SpecInv == Spec => []Inv
BY InitInv, NextInv, PTL DEF Spec

(* Every variable of the search keeps its type, in regions of any size.    *)
THEOREM SpecTypeOK == Spec => []TypeOK
<1>1. Inv => TypeOK
  BY DEF Inv
<1> QED BY <1>1, SpecInv, PTL

(* The rolling window is exact for one, two, four and eight bytes of       *)
(* either endianness.                                                      *)
THEOREM SpecWindowExact == Spec => []WindowExact
<1>1. Inv => WindowExact
  BY DEF Inv
<1> QED BY <1>1, SpecInv, PTL

(* What the filter adds is sorted, as contains() and the merges need it.   *)
THEOREM SpecFoundAscends == Spec => []FoundAscends
<1>1. Inv => FoundAscends
  BY DEF Inv
<1> QED BY <1>1, SpecInv, PTL

LEMMA PassesBelowEnd ==
  ASSUME Inv, pc = "loop", address + 1 >= LoopEnd, NEW a \in Region, Passes(a)
  PROVE  a < address + 1
<1>1. /\ settings \in Setting /\ settings.width >= 1 /\ settings.width \in Int
  BY Constants DEF Inv, TypeOK
<1>2. a \in Int /\ address \in Int
  BY FoundNowIs, Constants DEF Region
<1>3. a + settings.width - 1 <= Base + Size - 1
  BY <1>1, Constants DEF Passes, Region
<1> QED BY <1>1, <1>2, <1>3, Constants DEF LoopEnd

(* next() keeps exactly the candidates that pass.                          *)
THEOREM SpecNextNarrows == Spec => NextNarrows
<1> DEFINE Narrows ==
      (pc = "loop" /\ pc' = "idle") =>
        \A a \in Region : Contains(set', a) <=> Contains(set, a) /\ Passes(a)
<1>1. Inv /\ [Next]_vars => [Narrows]_vars
  <2> SUFFICES ASSUME Inv, [Next]_vars, pc = "loop", pc' = "idle", NEW a \in Region
               PROVE  Contains(set', a) <=> Contains(set, a) /\ Passes(a)
    OBVIOUS
  <2>1. FilterEnds
    BY DEF Next, vars, GameWrites, GameEnds, Start, Between, NextCrashes,
           NextTooSmall, NextBegins, FilterStep, Combine, Crashed
  <2> DEFINE e == {FoundNow[k] : k \in DOMAIN FoundNow}
  <2>2. set' = Intersection(set, Plain(e)) /\ address + 1 >= LoopEnd
    BY <2>1 DEF FilterEnds, Conclude
  <2>3. e \in SUBSET Region /\ (a \in e <=> a < address + 1 /\ Passes(a))
    BY FoundNowIs
  <2>4. a \in e <=> Passes(a)
    BY <2>2, <2>3, PassesBelowEnd
  <2>5. Plain(e) \in CheatSet /\ set \in CheatSet
    BY <2>3, SetsType DEF Inv, TypeOK
  <2> HIDE DEF e
  <2>6. Contains(set', a) <=> Contains(set, a) /\ Passes(a)
    BY <2>2, <2>4, <2>5, IntersectionMeans, PlainMeans
  <2> QED BY <2>6
<1> QED BY <1>1, SpecInv, PTL DEF Spec, NextNarrows

(* Union, intersection, difference and complement are those of set theory, *)
(* in all their sixteen cases.                                             *)
THEOREM SpecAlgebraHolds == Spec => AlgebraHolds
<1> DEFINE Lawful ==
      \A op \in SetOp : Combine(op) =>
        \A a \in Region :
          Contains(mine', a) <=> Meant(op, Contains(mine, a), Contains(set, a))
<1>1. Inv => Lawful
  <2> SUFFICES ASSUME Inv, NEW op \in SetOp, Combine(op), NEW a \in Region
               PROVE  Contains(mine', a)
                        <=> Meant(op, Contains(mine, a), Contains(set, a))
    OBVIOUS
  <2>1. mine \in CheatSet /\ set \in CheatSet
    BY DEF Inv, TypeOK
  <2>2. mine' = Apply(op, mine, set)
    BY DEF Combine
  <2>3. Contains(mine', a) <=> Meant(op, Contains(mine, a), Contains(set, a))
    <3>1. CASE op = "take"       BY <2>2, <3>1 DEF Apply, Meant
    <3>2. CASE op = "complement" BY <2>1, <2>2, <3>2, ComplementMeans DEF Apply, Meant
    <3>3. CASE op = "+"          BY <2>1, <2>2, <3>3, UnionMeans DEF Apply, Meant
    <3>4. CASE op = "*"          BY <2>1, <2>2, <3>4, IntersectionMeans DEF Apply, Meant
    <3>5. CASE op = "-"          BY <2>1, <2>2, <3>5, DifferenceMeans DEF Apply, Meant
    <3>6. CASE op = "reversed -" BY <2>1, <2>2, <3>6, DifferenceMeans DEF Apply, Meant
    <3> QED BY <3>1, <3>2, <3>3, <3>4, <3>5, <3>6 DEF SetOp
  <2> QED BY <2>3
<1>2. Inv => [Lawful]_vars
  BY <1>1
<1> QED BY <1>2, SpecInv, PTL DEF Spec, AlgebraHolds
-----------------------------------------------------------------------------
(* The search.  What the outer loop has left behind does not hold what is  *)
(* looked for, and what the inner loop has compared is the same.           *)
Same(x, n) == \A k \in 1..n : content[x + (k - 1)] = bytes[k]

NoneBefore(y) ==
  \A x \in Nat : begin <= x /\ x < y /\ x + Length <= size => ~Same(x, Length)

FindInv ==
  /\ FindTypeOK
  /\ search # "idle" => begin \in Starts
  /\ search \in {"first", "rest", "found"} =>
       /\ 1 <= Length /\ Length <= size
       /\ begin <= place /\ NoneBefore(place)
  /\ search \in {"rest", "found"} =>
       place < End /\ offset \in 1..Length /\ Same(place, offset)
  /\ search = "found" => offset = Length
  /\ search = "missing" => Length < 1 \/ NoneBefore(size)

LEMMA FindInitInv == FindInit => FindInv
BY FindAssumption DEF FindInit, FindInv, FindTypeOK

LEMMA LengthType ==
  ASSUME FindTypeOK
  PROVE  Length \in Nat /\ size \in Nat /\ (Length <= size => End \in Nat)
BY DEF FindTypeOK, Length, End

(* The outer loop goes on: the address it leaves does not hold the bytes.  *)
LEMMA NextAddress ==
  ASSUME FindTypeOK, NoneBefore(place), ~Same(place, Length),
         place' = place + 1, UNCHANGED <<regionVars, bytes, begin>>
  PROVE  NoneBefore(place)'
<1>1. Length' = Length /\ place \in Nat /\ Length \in Nat /\ size \in Nat
  BY LengthType DEF Length, FindTypeOK
<1>2. \A x, n : Same(x, n)' <=> Same(x, n)
  BY DEF Same, regionVars
<1>3. ASSUME NEW x \in Nat, begin <= x, x < place + 1, x + Length <= size
      PROVE  ~Same(x, Length)
  <2>1. x < place \/ x = place
    BY <1>1, <1>3
  <2> QED BY <1>3, <2>1 DEF NoneBefore
<1> QED BY <1>1, <1>2, <1>3 DEF NoneBefore, regionVars

LEMMA FindNextInv ==
  ASSUME FindInv, [FindNext]_findVars
  PROVE  FindInv'
<1>0. FindTypeOK /\ Length \in Nat /\ size \in Nat /\ place \in Nat /\ offset \in Nat
  BY LengthType DEF FindInv, FindTypeOK
<1>1. ASSUME NEW sought \in Sought, NEW start \in Starts, Find(sought, start)
      PROVE  FindInv'
  <2>1. /\ sought \in Seq(Octet) /\ start \in Nat /\ Len(sought) \in Nat
        /\ Length' = Len(sought) /\ bytes' = sought /\ begin' = start /\ place' = start
        /\ size' = size
    BY <1>1, FindAssumption DEF Find, Length, regionVars
  <2>2. FindTypeOK'
    BY <1>0, <1>1, <2>1 DEF Find, FindTypeOK, regionVars
  <2>3. NoneBefore(place)'
    BY <2>1 DEF NoneBefore
  <2>4. ASSUME search' = "missing"
        PROVE  (Length < 1 \/ NoneBefore(size))'
    <3>1. Len(sought) < 1 \/ Len(sought) > size
      BY <1>1, <2>4 DEF Find
    <3>2. Len(sought) > size => NoneBefore(size)'
      BY <1>0, <2>1 DEF NoneBefore
    <3> QED BY <2>1, <3>1, <3>2
  <2>5. search' = "first" => 1 <= Length' /\ Length' <= size'
    BY <1>0, <1>1, <2>1 DEF Find
  <2>6. search' \in {"first", "missing"}
    BY <1>1 DEF Find
  <2> QED BY <2>1, <2>2, <2>3, <2>4, <2>5, <2>6 DEF FindInv
<1>2. CASE CompareFirst
  <2>1. /\ search = "first" /\ place < End /\ 1 <= Length /\ Length <= size
        /\ begin \in Starts /\ begin <= place /\ NoneBefore(place) /\ begin \in Nat
    BY <1>2, FindAssumption DEF CompareFirst, FindInv
  <2>2. /\ Length' = Length /\ End' = End
        /\ UNCHANGED <<base, size, content, bytes, begin>>
    BY <1>2 DEF CompareFirst, Length, End, regionVars
  <2>3. CASE content[place] = bytes[1]
    <3>1. search' = "rest" /\ offset' = 1 /\ place' = place
      BY <1>2, <2>3 DEF CompareFirst
    <3>2. FindTypeOK'
      BY <1>0, <2>2, <3>1 DEF FindTypeOK
    <3>3. NoneBefore(place)'
      BY <2>1, <2>2, <3>1 DEF NoneBefore, Same
    <3>4. Same(place, offset)'
      <4>1. \A k \in 1..1 : k = 1 /\ place + (k - 1) = place
        BY <1>0
      <4> QED BY <2>2, <2>3, <3>1, <4>1 DEF Same
    <3>5. 1 \in 1..Length
      BY <1>0, <2>1
    <3> QED BY <2>1, <2>2, <3>1, <3>2, <3>3, <3>4, <3>5 DEF FindInv
  <2>4. CASE content[place] # bytes[1]
    <3>1. search' = search /\ offset' = offset /\ place' = place + 1
      BY <1>2, <2>4 DEF CompareFirst
    <3>2. FindTypeOK'
      BY <1>0, <2>1, <2>2, <3>1 DEF FindTypeOK
    <3>3. ~Same(place, Length)
      <4>1. 1 \in 1..Length /\ place + (1 - 1) = place
        BY <1>0, <2>1
      <4> QED BY <2>4, <4>1 DEF Same
    <3>4. NoneBefore(place)'
      BY <1>0, <2>1, <2>2, <3>1, <3>3, NextAddress DEF regionVars
    <3>5. begin <= place + 1
      BY <1>0, <2>1
    <3> QED BY <2>1, <2>2, <3>1, <3>2, <3>4, <3>5 DEF FindInv
  <2> QED BY <2>3, <2>4
<1>3. CASE CompareNext
  <2>1. /\ search = "rest" /\ place < End /\ 1 <= Length /\ Length <= size
        /\ offset < Length /\ offset \in 1..Length /\ Same(place, offset)
        /\ begin \in Starts /\ begin <= place /\ NoneBefore(place) /\ begin \in Nat
    BY <1>3, FindAssumption DEF CompareNext, FindInv
  <2>2. /\ Length' = Length /\ End' = End
        /\ UNCHANGED <<base, size, content, bytes, begin>>
    BY <1>3 DEF CompareNext, Length, End, regionVars
  <2>3. CASE bytes[offset + 1] = content[place + offset]
    <3>1. search' = search /\ offset' = offset + 1 /\ place' = place
      BY <1>3, <2>3 DEF CompareNext
    <3>2. FindTypeOK'
      BY <1>0, <2>2, <2>1, <3>1 DEF FindTypeOK
    <3>3. NoneBefore(place)'
      BY <2>1, <2>2, <3>1 DEF NoneBefore, Same
    <3>4. ASSUME NEW k \in 1..(offset + 1)
          PROVE  content[place + (k - 1)] = bytes[k]
      <4>1. CASE k = offset + 1
        BY <1>0, <2>3, <4>1
      <4>2. CASE k # offset + 1
        <5>1. k \in 1..offset
          BY <1>0, <3>4, <4>2
        <5> QED BY <2>1, <5>1 DEF Same
      <4> QED BY <4>1, <4>2
    <3>5. Same(place, offset)'
      BY <2>2, <3>1, <3>4 DEF Same
    <3>6. offset + 1 \in 1..Length
      BY <1>0, <2>1
    <3> QED BY <2>1, <2>2, <3>1, <3>2, <3>3, <3>5, <3>6 DEF FindInv
  <2>4. CASE bytes[offset + 1] # content[place + offset]
    <3>1. search' = "first" /\ offset' = offset /\ place' = place + 1
      BY <1>3, <2>4 DEF CompareNext
    <3>2. FindTypeOK'
      BY <1>0, <2>1, <2>2, <3>1 DEF FindTypeOK
    <3>3. ~Same(place, Length)
      <4>1. offset + 1 \in 1..Length /\ place + ((offset + 1) - 1) = place + offset
        BY <1>0, <2>1
      <4>2. Same(place, Length) => content[place + ((offset + 1) - 1)] = bytes[offset + 1]
        BY <4>1 DEF Same
      <4> QED BY <2>4, <4>1, <4>2
    <3>4. NoneBefore(place)'
      BY <1>0, <2>1, <2>2, <3>1, <3>3, NextAddress DEF regionVars
    <3>5. begin <= place + 1
      BY <1>0, <2>1
    <3> QED BY <2>1, <2>2, <3>1, <3>2, <3>4, <3>5 DEF FindInv
  <2> QED BY <2>3, <2>4
<1>4. CASE Finds
  <2>1. /\ search = "rest" /\ offset = Length /\ search' = "found"
        /\ UNCHANGED <<base, size, content, bytes, begin, place, offset>>
    BY <1>4 DEF Finds, regionVars
  <2> QED BY <2>1 DEF FindInv, FindTypeOK, NoneBefore, Same, Length, End
<1>5. CASE Misses
  <2>1. /\ search = "first" /\ place >= End /\ search' = "missing"
        /\ UNCHANGED <<base, size, content, bytes, begin, place, offset>>
    BY <1>5 DEF Misses, regionVars
  <2>2. NoneBefore(place) /\ Length >= 1 /\ Length <= size /\ begin \in Starts
    BY <1>0, <2>1 DEF FindInv
  <2>3. NoneBefore(size)
    <3>1. ASSUME NEW x \in Nat, x + Length <= size
          PROVE  x < place
      BY <1>0, <2>1, <2>2, <3>1 DEF End
    <3> QED BY <2>2, <3>1 DEF NoneBefore
  <2>4. NoneBefore(size)'
    BY <2>1, <2>3 DEF NoneBefore, Same, Length
  <2>5. FindTypeOK'
    BY <1>0, <2>1 DEF FindTypeOK
  <2> QED BY <2>1, <2>2, <2>4, <2>5 DEF FindInv
<1>6. CASE UNCHANGED findVars
  BY <1>6 DEF findVars, regionVars, FindInv, FindTypeOK, NoneBefore, Same, Length, End
<1> QED BY <1>1, <1>2, <1>3, <1>4, <1>5, <1>6 DEF FindNext

LEMMA FindInvHolds == FindSpec => []FindInv
BY FindInitInv, FindNextInv, PTL DEF FindSpec

(* In a region that begins at 0, whatever it holds and whatever is looked  *)
(* for, find() finds the first match or tells there is none.               *)
LEMMA FindsFirst ==
  ASSUME FindInv, base = 0, Length > 0
  PROVE  FirstMatch
<1>1. Length \in Nat /\ size \in Nat /\ place \in Nat
  BY LengthType DEF FindInv, FindTypeOK
<1>2. \A x \in Nat : Holds(x) <=> x + Length <= size /\ Same(x, Length)
  BY <1>1 DEF Holds, Same
<1>3. ASSUME search = "found"
      PROVE  /\ begin <= place /\ Holds(place)
             /\ \A x \in 0..Limit : begin <= x /\ x < place => ~Holds(x)
  <2>1. /\ begin <= place /\ NoneBefore(place) /\ place < End
        /\ Same(place, Length)
    BY <1>3 DEF FindInv
  <2>2. place + Length <= size
    BY <1>1, <2>1 DEF End
  <2> QED BY <1>1, <1>2, <2>1, <2>2 DEF NoneBefore
<1>4. ASSUME search = "missing"
      PROVE  \A x \in 0..Limit : begin <= x => ~Holds(x)
  <2>1. NoneBefore(size)
    BY <1>1, <1>4 DEF FindInv
  <2>2. \A x \in Nat : x + Length <= size => x < size
    BY <1>1
  <2> QED BY <1>2, <2>1, <2>2 DEF NoneBefore
<1> QED BY <1>3, <1>4 DEF FirstMatch

(* A search from an address of the region, or above it, reads nothing but  *)
(* the region: it ends at the latest where the region would if it began at *)
(* 0.                                                                      *)
LEMMA FindStaysInside ==
  ASSUME FindInv, base <= begin
  PROVE  PeeksInside
<1>1. /\ Length \in Nat /\ size \in Nat /\ place \in Nat /\ offset \in Nat
      /\ base \in Nat /\ begin \in Nat
  BY LengthType, FindAssumption DEF FindInv, FindTypeOK
<1>2. ASSUME search \in {"first", "rest"}
      PROVE  base <= place /\ 1 <= Length /\ Length <= size
  BY <1>1, <1>2 DEF FindInv
<1>3. (search = "first" /\ place < End) => Inside(place)
  BY <1>1, <1>2 DEF Inside, End
<1>4. ASSUME search = "rest", offset < Length
      PROVE  Inside(place + offset)
  <2>1. place < End
    BY <1>4 DEF FindInv
  <2> QED BY <1>1, <1>2, <1>4, <2>1 DEF Inside, End
<1> QED BY <1>3, <1>4 DEF PeeksInside

(* Of every region, wherever it begins and whatever it holds, find()       *)
(* reads what belongs to it if it starts in it, and its answer is exact if *)
(* the region begins at 0.                                                 *)
THEOREM SpecFindExact == FindSpec => []FindExact
<1>1. FindInv => FindExact
  BY FindsFirst, FindStaysInside DEF FindExact
<1> QED BY <1>1, FindInvHolds, PTL

(* A behaviour with a search of either kind is one of that search, so that *)
(* what is proved of the two holds of it.                                  *)
THEOREM SearchesAreBoth == SearchesSpec => Spec /\ FindSpec
<1>1. SearchesInit => Init /\ FindInit
  BY DEF SearchesInit
<1>2. [SearchesNext]_searchesVars => [Next]_vars /\ [FindNext]_findVars
  BY DEF SearchesNext, searchesVars
<1> QED BY <1>1, <1>2, PTL DEF SearchesSpec, Spec, FindSpec
=============================================================================
