---------------------------- MODULE Xy2FrameProofs ----------------------------
(***************************************************************************)
(* Theorems about Xy2Frame for every width of the codes and the frame: the *)
(* protocol on the pins, and that the driver makes the codes of the bits.  *)
(*                                                                         *)
(* The first half is about the words: what the recursive function Value    *)
(* and the division by powers of two compute, by induction over a set of   *)
(* naturals (NatSet).  The second half is about the pins.                  *)
(***************************************************************************)
EXTENDS Xy2Frame, SequenceTheorems, FunctionTheorems, FiniteSetTheorems,
        WellFoundedInduction, TLAPS

-----------------------------------------------------------------------------
(* Induction and powers of two.                                            *)

(* A set with 0 and all successors has every natural: it has no least      *)
(* counterexample. *)
LEMMA NatSet ==
  ASSUME NEW S, 0 \in S, \A n \in Nat : n \in S => n + 1 \in S
  PROVE  Nat \subseteq S
<1> DEFINE T == {n \in Nat : n \notin S}
<1> SUFFICES ASSUME T # {}  PROVE  FALSE
  OBVIOUS
<1>1. PICK m \in T : \A k \in T : ~(k < m)
  <2>1. IsWellFoundedOn(OpToRel(<, Nat), Nat)
    BY NatLessThanWellFounded
  <2> DEFINE R == {ss \in Nat \X Nat : ss[1] < ss[2]}
  <2>2. IsWellFoundedOn(R, Nat)
    BY <2>1 DEF OpToRel
  <2>3. T \subseteq Nat /\ T # {}
    OBVIOUS
  <2> HIDE DEF T, R
  <2>4. PICK m \in T : \A k \in T : ~(<<k, m>> \in R)
    BY <2>2, <2>3, WFMin
  <2>5. \A k \in T : k < m => <<k, m>> \in R
    BY <2>3 DEF R
  <2> QED  BY <2>4, <2>5
<1>2. m \in Nat /\ m # 0 /\ m - 1 \in Nat /\ m - 1 < m
  OBVIOUS
<1>3. m - 1 \in S
  BY <1>1, <1>2
<1> QED  BY <1>2, <1>3

LEMMA SubsetsOf ==
  ASSUME NEW n \in Nat
  PROVE  /\ IsFiniteSet(SUBSET (1 .. n))
         /\ Cardinality(SUBSET (1 .. n)) = 2 ^ n
         /\ 2 ^ n \in Nat
<1>1. IsFiniteSet(1 .. n) /\ Cardinality(1 .. n) = n
  BY FS_Interval
<1> QED  BY <1>1, FS_SUBSET, FS_CardinalityType

(* Each bit doubles the range. *)
LEMMA PowerTwo ==
  ASSUME NEW n \in Nat
  PROVE  2 ^ (n + 1) = 2 * 2 ^ n
<1> DEFINE A == SUBSET (1 .. n)
           B == {T \cup {n + 1} : T \in A}
           f == [T \in A |-> T \cup {n + 1}]
<1>1. f \in [A -> B]
  OBVIOUS
<1>2. \A T, U \in A : f[T] = f[U] => T = U
  <2> SUFFICES ASSUME NEW T \in A, NEW U \in A, f[T] = f[U]  PROVE  T = U
    OBVIOUS
  <2>1. n + 1 \notin T /\ n + 1 \notin U
    OBVIOUS
  <2>2. T \cup {n + 1} = U \cup {n + 1}
    OBVIOUS
  <2> QED  BY <2>1, <2>2
<1>3. \A y \in B : \E T \in A : f[T] = y
  OBVIOUS
<1>4. f \in Bijection(A, B)
  BY <1>1, <1>2, <1>3 DEF Bijection, Injection, Surjection, IsInjective
<1>5. ExistsBijection(A, B)
  BY <1>4 DEF ExistsBijection
<1>6. IsFiniteSet(A) /\ Cardinality(A) = 2 ^ n /\ 2 ^ n \in Nat
  BY SubsetsOf
<1>7. IsFiniteSet(B) /\ Cardinality(B) = 2 ^ n
  BY <1>5, <1>6, FS_Bijection
<1>8. A \cap B = {}
  <2> SUFFICES ASSUME NEW T \in A, NEW U \in A, T = U \cup {n + 1}  PROVE  FALSE
    OBVIOUS
  <2>1. n + 1 \notin T /\ n + 1 \in U \cup {n + 1}
    OBVIOUS
  <2> QED  BY <2>1
<1>9. A \cup B = SUBSET (1 .. n + 1)
  <2>1. A \cup B \subseteq SUBSET (1 .. n + 1)
    <3>1. 1 .. n \subseteq 1 .. n + 1 /\ n + 1 \in 1 .. n + 1
      OBVIOUS
    <3>2. A \subseteq SUBSET (1 .. n + 1)
      BY <3>1
    <3>3. ASSUME NEW T \in A  PROVE  T \cup {n + 1} \subseteq 1 .. n + 1
      BY <3>1
    <3>4. \A U \in B : U \subseteq 1 .. n + 1
      BY <3>3
    <3> HIDE DEF A, B
    <3> QED  BY <3>2, <3>4
  <2>2. ASSUME NEW T \in SUBSET (1 .. n + 1)  PROVE  T \in A \cup B
    <3>1. CASE n + 1 \notin T
      <4>1. T \in A
        BY <3>1
      <4> QED  BY <4>1
    <3>2. CASE n + 1 \in T
      <4>1. T \ {n + 1} \in A /\ T = (T \ {n + 1}) \cup {n + 1}
        BY <3>2
      <4> QED  BY <4>1
    <3> QED  BY <3>1, <3>2
  <2> QED  BY <2>1, <2>2
<1>10. Cardinality(SUBSET (1 .. n + 1)) = 2 ^ (n + 1)
  BY SubsetsOf
<1> HIDE DEF A, B, f
<1>11. Cardinality(A \cup B) = 2 ^ n + 2 ^ n - 0
  BY <1>6, <1>7, <1>8, FS_Union, FS_EmptySet
<1>12. 2 ^ (n + 1) = 2 ^ n + 2 ^ n - 0
  BY <1>9, <1>10, <1>11
<1> DEFINE p == 2 ^ n
<1>13. p \in Nat
  BY <1>6
<1> HIDE DEF p
<1>14. p + p - 0 = 2 * p
  BY <1>13
<1> QED  BY <1>12, <1>14 DEF p

LEMMA PowerPositive ==
  ASSUME NEW n \in Nat
  PROVE  2 ^ n \in Nat \ {0}
<1> DEFINE S == {k \in Nat : 2 ^ k \in Nat \ {0}}
<1>2. 0 \in S
  OBVIOUS
<1>3. \A k \in Nat : k \in S => k + 1 \in S
  BY PowerTwo
<1> HIDE DEF S
<1>4. Nat \subseteq S
  BY <1>2, <1>3, NatSet
<1> QED  BY <1>4 DEF S

(* w sums up s to n places *)
Weighs(w, s, n) ==
  w = [i \in 0 .. n |-> IF i = 0 THEN 0 ELSE 2 * w[i - 1] + s[i]]

Agree(s, r, n) == \A i \in 1 .. n : s[i] = r[i]

LEMMA WeightExists ==
  ASSUME NEW s \in Seq(Bit)
  PROVE  \E w \in [0 .. Len(s) -> Nat] : Weighs(w, s, Len(s))
<1> DEFINE S == {n \in Nat : n <= Len(s) =>
                   \E w \in [0 .. n -> Nat] : Weighs(w, s, n)}
<1>1. Len(s) \in Nat /\ \A i \in 1 .. Len(s) : s[i] \in {0, 1}
  BY LenProperties, ElementOfSeq DEF Bit
<1>2. 0 \in S
  <2> DEFINE w == [i \in 0 .. 0 |-> 0]
  <2>1. w \in [0 .. 0 -> Nat] /\ Weighs(w, s, 0)
    BY DEF Weighs
  <2> QED  BY <2>1
<1>3. ASSUME NEW n \in Nat, n \in S  PROVE  n + 1 \in S
  <2> SUFFICES ASSUME n + 1 <= Len(s)
               PROVE  \E w \in [0 .. n + 1 -> Nat] : Weighs(w, s, n + 1)
    OBVIOUS
  <2>1. PICK u \in [0 .. n -> Nat] : Weighs(u, s, n)
    BY <1>1, <1>3
  <2> DEFINE w == [i \in 0 .. n + 1 |->
                     IF i = n + 1 THEN 2 * u[n] + s[n + 1] ELSE u[i]]
  <2>2. n \in 0 .. n /\ u[n] \in Nat /\ s[n + 1] \in {0, 1}
    BY <1>1
  <2>3. w \in [0 .. n + 1 -> Nat]
    BY <2>2
  <2>4. ASSUME NEW i \in 0 .. n + 1
        PROVE  w[i] = IF i = 0 THEN 0 ELSE 2 * w[i - 1] + s[i]
    <3>1. CASE i = n + 1
      BY <3>1
    <3>2. CASE i # n + 1
      <4>1. i \in 0 .. n
        BY <3>2
      <4>2. u[i] = IF i = 0 THEN 0 ELSE 2 * u[i - 1] + s[i]
        BY <2>1, <4>1 DEF Weighs
      <4>3. i # 0 => i - 1 \in 0 .. n /\ i - 1 # n + 1 /\ i - 1 \in 0 .. n + 1
        BY <4>1
      <4> QED  BY <3>2, <4>1, <4>2, <4>3
    <3> QED  BY <3>1, <3>2
  <2>5. Weighs(w, s, n + 1)
    <3>1. w = [i \in 0 .. n + 1 |-> w[i]]
      OBVIOUS
    <3> HIDE DEF w
    <3> QED  BY <2>4, <3>1 DEF Weighs
  <2> QED  BY <2>3, <2>5
<1> HIDE DEF S
<1>4. Nat \subseteq S
  BY <1>2, <1>3, NatSet
<1>5. Len(s) \in S
  BY <1>1, <1>4
<1> QED  BY <1>1, <1>5 DEF S

(* Sequences that agree weigh the same. *)
LEMMA WeightUnique ==
  ASSUME NEW s, NEW r, NEW n \in Nat, NEW m \in Nat, NEW u, NEW w,
         Weighs(u, s, n), Weighs(w, r, m), n <= m, Agree(s, r, n)
  PROVE  u[n] = w[n]
<1> DEFINE S == {i \in Nat : i <= n => u[i] = w[i]}
<1>1. \A i \in 0 .. n : u[i] = IF i = 0 THEN 0 ELSE 2 * u[i - 1] + s[i]
  BY DEF Weighs
<1>2. \A i \in 0 .. m : w[i] = IF i = 0 THEN 0 ELSE 2 * w[i - 1] + r[i]
  BY DEF Weighs
<1>3. 0 \in S
  <2>1. 0 \in 0 .. n /\ 0 \in 0 .. m
    OBVIOUS
  <2> QED  BY <1>1, <1>2, <2>1
<1>4. ASSUME NEW i \in Nat, i \in S  PROVE  i + 1 \in S
  <2> SUFFICES ASSUME i + 1 <= n  PROVE  u[i + 1] = w[i + 1]
    OBVIOUS
  <2>1. /\ i + 1 \in 0 .. n /\ i + 1 \in 0 .. m /\ i + 1 # 0
        /\ i + 1 - 1 = i /\ i + 1 \in 1 .. n /\ u[i] = w[i]
    BY <1>4
  <2> QED  BY <1>1, <1>2, <2>1 DEF Agree
<1> HIDE DEF S
<1>5. n \in S
  BY <1>3, <1>4, NatSet
<1> QED  BY <1>5 DEF S

LEMMA ValueIs ==
  ASSUME NEW s \in Seq(Bit)
  PROVE  /\ Value(s) \in Nat
         /\ \E w : Weighs(w, s, Len(s)) /\ Value(s) = w[Len(s)]
<1> DEFINE u == CHOOSE w : Weighs(w, s, Len(s))
<1>1. Weighs(u, s, Len(s))
  BY WeightExists
<1>2. Value(s) = u[Len(s)]
  BY DEF Value, Weighs
<1>3. PICK w \in [0 .. Len(s) -> Nat] : Weighs(w, s, Len(s))
  BY WeightExists
<1>4. Len(s) \in Nat
  BY LenProperties
<1>6. w[Len(s)] \in Nat
  BY <1>3, <1>4
<1> HIDE DEF u
<1>5. u[Len(s)] = w[Len(s)]
  <2>1. Agree(s, s, Len(s)) /\ Len(s) <= Len(s)
    BY <1>4 DEF Agree
  <2> QED  BY <1>1, <1>3, <1>4, <2>1, WeightUnique
<1> QED  BY <1>1, <1>2, <1>5, <1>6

LEMMA ValueEmpty == Value(<<>>) = 0
<1>1. <<>> \in Seq(Bit) /\ Len(<<>>) = 0
  BY EmptySeq
<1>2. PICK w : Weighs(w, <<>>, 0) /\ Value(<<>>) = w[0]
  BY <1>1, ValueIs
<1> QED  BY <1>2 DEF Weighs

LEMMA ValueAppend ==
  ASSUME NEW s \in Seq(Bit), NEW b \in Bit
  PROVE  Value(s) \in Nat /\ Value(Append(s, b)) = 2 * Value(s) + b
<1> DEFINE n == Len(s)
           r == Append(s, b)
<1>1. /\ n \in Nat /\ r \in Seq(Bit) /\ Len(r) = n + 1 /\ r[n + 1] = b
      /\ \A i \in 1 .. n : r[i] = s[i]
  BY AppendProperties, LenProperties
<1>2. PICK u : Weighs(u, s, n) /\ Value(s) = u[n]
  BY ValueIs
<1>3. PICK w :
        Weighs(w, r, n + 1) /\ Value(r) = w[n + 1]
  BY <1>1, ValueIs
<1> HIDE DEF r, n
<1>4. u[n] = w[n]
  <2>1. n + 1 \in Nat /\ n <= n + 1
    BY <1>1
  <2>2. Agree(s, r, n)
    BY <1>1 DEF Agree
  <2> QED  BY <1>1, <1>2, <1>3, <2>1, <2>2, WeightUnique
<1>5. w[n + 1] = 2 * w[n] + r[n + 1]
  <2>1. n + 1 \in 0 .. n + 1 /\ n + 1 # 0 /\ n + 1 - 1 = n
    BY <1>1
  <2> QED  BY <1>1, <1>3, <2>1 DEF Weighs
<1>6. Value(s) \in Nat
  BY ValueIs
<1> QED  BY <1>1, <1>2, <1>3, <1>4, <1>5, <1>6 DEF r

-----------------------------------------------------------------------------
LEMMA DivUnique ==
  ASSUME NEW n \in Nat \ {0}, NEW q \in Nat, NEW r \in 0 .. n - 1
  PROVE  (n * q + r) \div n = q
<1> DEFINE a == n * q + r
           k == a \div n
<1>1. n * q \in Nat /\ a \in Nat
  OBVIOUS
<1>2. k \in Nat /\ n * k <= a /\ a < n * (k + 1)
  BY <1>1
<1> HIDE DEF k
<1>3. ~(k < q)
  <2> SUFFICES ASSUME k + 1 <= q  PROVE  FALSE
    BY <1>2
  <2>1. n * (k + 1) <= n * q
    BY <1>2
  <2> QED  BY <1>1, <1>2, <2>1
<1>4. ~(q < k)
  <2> SUFFICES ASSUME q + 1 <= k  PROVE  FALSE
    BY <1>2
  <2>1. n * (q + 1) <= n * k /\ n * (q + 1) = n * q + n
    BY <1>2
  <2> QED  BY <1>1, <1>2, <2>1
<1> QED  BY <1>2, <1>3, <1>4 DEF k

LEMMA DivMod ==
  ASSUME NEW a \in Nat, NEW n \in Nat \ {0}
  PROVE  /\ a \div n \in Nat
         /\ a % n \in 0 .. n - 1
         /\ a = n * (a \div n) + (a % n)
  OBVIOUS

LEMMA BitOfType ==
  ASSUME NEW w \in Nat, NEW i \in Nat
  PROVE  BitOf(w, i) \in Bit
<1>1. w \div 2 ^ i \in Nat
  BY PowerPositive, DivMod
<1> DEFINE q == w \div 2 ^ i
<1> HIDE DEF q
<1>2. q \in Nat => q % 2 \in {0, 1}
  OBVIOUS
<1> QED  BY <1>1, <1>2 DEF BitOf, Bit, q

(* One more bit of a word. *)
LEMMA DivHalf ==
  ASSUME NEW w \in Nat, NEW i \in Nat
  PROVE  w \div 2 ^ i = 2 * (w \div 2 ^ (i + 1)) + BitOf(w, i)
<1> DEFINE p == 2 ^ i
           q == w \div p
           r == w % p
           h == q \div 2
           b == q % 2
<1>1. p \in Nat \ {0} /\ 2 ^ (i + 1) = 2 * p
  BY PowerPositive, PowerTwo
<1> HIDE DEF p
<1>2. q \in Nat /\ r \in 0 .. p - 1 /\ w = p * q + r
  BY <1>1, DivMod
<1> HIDE DEF q, r
<1>3. h \in Nat /\ b \in 0 .. 1 /\ q = 2 * h + b
  BY <1>2
<1> HIDE DEF h, b
<1>4. w = (2 * p) * h + (p * b + r)
  <2>1. p * q = p * (2 * h) + p * b
    BY <1>1, <1>3
  <2>2. p * (2 * h) = (2 * p) * h
    BY <1>1, <1>3
  <2>3. p * h \in Nat /\ p * b \in Nat /\ (2 * p) * h \in Nat
    BY <1>1, <1>3
  <2> QED  BY <1>1, <1>2, <1>3, <2>1, <2>2, <2>3
<1>5. p * b + r \in 0 .. 2 * p - 1
  BY <1>1, <1>2, <1>3
<1>6. w \div (2 * p) = h
  <2>1. 2 * p \in Nat \ {0}
    BY <1>1
  <2> QED  BY <1>3, <1>4, <1>5, <2>1, DivUnique
<1> QED  BY <1>1, <1>3, <1>6 DEF BitOf, p, q, h, b

(* The bits of a shifted word. *)
LEMMA BitOfShift ==
  ASSUME NEW u \in Nat, NEW b \in {0, 1}, NEW i \in Nat
  PROVE  BitOf(2 * u + b, i + 1) = BitOf(u, i) /\ BitOf(2 * u + b, 0) = b
<1> DEFINE p == 2 ^ i
           q == u \div p
           r == u % p
<1>1. p \in Nat \ {0} /\ 2 ^ (i + 1) = 2 * p
  BY PowerPositive, PowerTwo
<1> HIDE DEF p
<1>2. q \in Nat /\ r \in 0 .. p - 1 /\ u = p * q + r
  BY <1>1, DivMod
<1> HIDE DEF q, r
<1>3. 2 * u + b = (2 * p) * q + (2 * r + b)
  <2>1. 2 * (p * q) = (2 * p) * q /\ p * q \in Nat
    BY <1>1, <1>2
  <2> QED  BY <1>1, <1>2, <2>1
<1>4. 2 * p \in Nat \ {0} /\ 2 * r + b \in 0 .. 2 * p - 1
  BY <1>1, <1>2
<1>5. (2 * u + b) \div (2 * p) = q
  BY <1>2, <1>3, <1>4, DivUnique
<1>6. BitOf(2 * u + b, i + 1) = BitOf(u, i)
  BY <1>1, <1>5 DEF BitOf, p, q
<1>7. (2 * u + b) \div 1 = 2 * u + b /\ (2 * u + b) % 2 = b
  OBVIOUS
<1>8. 2 ^ 0 = 1
  OBVIOUS
<1> QED  BY <1>6, <1>7, <1>8 DEF BitOf

LEMMA PowerMonotone ==
  ASSUME NEW n \in Nat, NEW m \in Nat, n <= m
  PROVE  2 ^ n <= 2 ^ m
<1> DEFINE S == {k \in Nat : 2 ^ n <= 2 ^ (n + k)}
<1>1. 0 \in S
  BY PowerPositive
<1>2. ASSUME NEW k \in Nat, k \in S  PROVE  k + 1 \in S
  <2>1. n + (k + 1) = (n + k) + 1 /\ n + k \in Nat
    OBVIOUS
  <2>2. 2 ^ (n + (k + 1)) = 2 * 2 ^ (n + k)
    BY <2>1, PowerTwo
  <2> DEFINE p == 2 ^ n
             q == 2 ^ (n + k)
  <2>3. p \in Nat /\ q \in Nat /\ p <= q
    BY <1>2, <2>1, PowerPositive
  <2> HIDE DEF p, q
  <2>4. p <= 2 * q
    BY <2>3
  <2> QED  BY <2>2, <2>4 DEF p, q
<1> HIDE DEF S
<1>3. m - n \in S
  BY <1>1, <1>2, NatSet
<1>4. n + (m - n) = m
  OBVIOUS
<1> QED  BY <1>3, <1>4 DEF S

LEMMA NoBitBeyond ==
  ASSUME NEW w \in Nat, NEW n \in Nat, w < 2 ^ n, NEW i \in Nat, n <= i
  PROVE  w \div 2 ^ i = 0 /\ BitOf(w, i) = 0
<1> DEFINE p == 2 ^ i
<1>1. p \in Nat \ {0} /\ 2 ^ n \in Nat /\ 2 ^ n <= p
  BY PowerPositive, PowerMonotone
<1>2. w \in 0 .. p - 1
  <2> DEFINE k == 2 ^ n
  <2>1. k \in Nat /\ k <= p /\ w < k
    BY <1>1
  <2> HIDE DEF k, p
  <2> QED  BY <1>1, <2>1
<1> HIDE DEF p
<1>3. w = p * 0 + w
  BY <1>1
<1>4. w \div p = 0
  BY <1>1, <1>2, <1>3, DivUnique
<1>5. 0 % 2 = 0
  OBVIOUS
<1> QED  BY <1>4, <1>5 DEF BitOf, p

-----------------------------------------------------------------------------
(* Counting ones. *)
LEMMA OnesFinite ==
  ASSUME NEW w, NEW n \in Nat
  PROVE  IsFiniteSet(Ones(w, n)) /\ Cardinality(Ones(w, n)) \in Nat
<1>1. IsFiniteSet(0 .. n - 1)
  BY FS_Interval
<1>2. Ones(w, n) \in SUBSET (0 .. n - 1)
  BY DEF Ones
<1> QED  BY <1>1, <1>2, FS_Subset, FS_CardinalityType

LEMMA OnesStep ==
  ASSUME NEW w \in Nat, NEW n \in Nat
  PROVE  Cardinality(Ones(w, n + 1)) = Cardinality(Ones(w, n)) + BitOf(w, n)
<1>1. n \notin Ones(w, n)
  BY DEF Ones
<1>2. CASE BitOf(w, n) = 1
  <2>1. Ones(w, n + 1) = Ones(w, n) \cup {n}
    BY <1>2 DEF Ones
  <2> QED  BY <1>1, <1>2, <2>1, OnesFinite, FS_AddElement
<1>3. CASE BitOf(w, n) = 0
  <2>1. Ones(w, n + 1) = Ones(w, n)
    BY <1>3 DEF Ones
  <2> QED  BY <1>3, <2>1, OnesFinite
<1> QED  BY <1>2, <1>3, BitOfType DEF Bit

LEMMA OnesNone ==
  ASSUME NEW w
  PROVE  Cardinality(Ones(w, 0)) = 0
<1>1. Ones(w, 0) = {}
  BY DEF Ones
<1> QED  BY <1>1, FS_EmptySet

LEMMA OnesBeyond ==
  ASSUME NEW w \in Nat, NEW m \in Nat, w < 2 ^ m, NEW n \in Nat, m <= n
  PROVE  Ones(w, n) = Ones(w, m)
<1>1. \A i \in m .. n - 1 : BitOf(w, i) = 0
  BY NoBitBeyond
<1> QED  BY <1>1 DEF Ones

LEMMA OnesShift ==
  ASSUME NEW u \in Nat, NEW b \in {0, 1}, NEW n \in Nat
  PROVE  Cardinality(Ones(2 * u + b, n + 1)) = Cardinality(Ones(u, n)) + b
<1> DEFINE w == 2 * u + b
           S == {k \in Nat :
                   Cardinality(Ones(w, k + 1)) = Cardinality(Ones(u, k)) + b}
<1>1. w \in Nat
  OBVIOUS
<1>2. 0 \in S
  <2>1. Cardinality(Ones(w, 0 + 1)) = 0 + BitOf(w, 0)
    BY <1>1, OnesStep, OnesNone
  <2>2. BitOf(w, 0) = b
    BY BitOfShift
  <2> QED  BY <2>1, <2>2, OnesNone
<1>3. ASSUME NEW k \in Nat, k \in S  PROVE  k + 1 \in S
  <2>1. BitOf(w, k + 1) = BitOf(u, k)
    BY BitOfShift
  <2> HIDE DEF w
  <2>2. /\ Cardinality(Ones(w, (k + 1) + 1))
             = Cardinality(Ones(w, k + 1)) + BitOf(w, k + 1)
        /\ Cardinality(Ones(u, k + 1)) = Cardinality(Ones(u, k)) + BitOf(u, k)
    BY <1>1, OnesStep
  <2>3. Cardinality(Ones(u, k)) \in Nat /\ BitOf(u, k) \in {0, 1}
    BY OnesFinite, BitOfType DEF Bit
  <2> QED  BY <1>3, <2>1, <2>2, <2>3
<1> HIDE DEF S
<1>4. n \in S
  BY <1>2, <1>3, NatSet
<1> QED  BY <1>4 DEF S

-----------------------------------------------------------------------------
(* The word and its decoding. *)

CountOnes(bits) == Cardinality({i \in DOMAIN bits : bits[i] = 1})

LEMMA UnsignedRange ==
  ASSUME NEW c \in Code
  PROVE  /\ Unsigned(c) \in Nat /\ Unsigned(c) < 2 ^ CODE_BITS
         /\ Unsigned(c) = IF c >= 0 THEN c ELSE c + 2 ^ CODE_BITS
<1> DEFINE h == 2 ^ (CODE_BITS - 1)
           p == 2 ^ CODE_BITS
<1>1. CODE_BITS - 1 \in Nat /\ (CODE_BITS - 1) + 1 = CODE_BITS
  BY FrameAssumptions
<1>2. h \in Nat \ {0} /\ p = 2 * h
  BY <1>1, PowerTwo, PowerPositive
<1>3. c \in -h .. h - 1
  BY DEF Code
<1> HIDE DEF h, p
<1>4. CASE c >= 0
  <2>1. c \in 0 .. p - 1
    BY <1>2, <1>3, <1>4
  <2>2. c % p = c
    BY <1>2, <2>1
  <2> QED  BY <1>2, <1>4, <2>1, <2>2 DEF Unsigned, p
<1>5. CASE c < 0
  <2>1. c + p \in 0 .. p - 1
    BY <1>2, <1>3, <1>5
  <2>2. c % p = c + p
    BY <1>2, <1>3, <2>1
  <2> QED  BY <1>2, <1>3, <1>5, <2>1, <2>2 DEF Unsigned, p
<1> QED  BY <1>2, <1>3, <1>4, <1>5

LEMMA WordRange ==
  ASSUME NEW c \in Code
  PROVE  /\ xy2_pack_word(c) \in Nat
         /\ xy2_pack_word(c) \div 2 = Unsigned(c)
         /\ xy2_pack_word(c) \div 2 ^ FRAME_BITS = 0
         /\ Cardinality(Ones(xy2_pack_word(c), FRAME_BITS)) % 2 = 0
<1> DEFINE u == Unsigned(c)
           k == Cardinality(Ones(u, CODE_BITS))
           b == k % 2
           w == 2 * u + b
           p == 2 ^ CODE_BITS
<1>1. /\ u \in Nat /\ u < p /\ p \in Nat /\ k \in Nat /\ b \in {0, 1}
  <2>1. u \in Nat /\ u < p /\ p \in Nat /\ k \in Nat
    BY UnsignedRange, PowerPositive, OnesFinite, FrameAssumptions
  <2> HIDE DEF k
  <2> QED  BY <2>1
<1>2. xy2_pack_word(c) = w
  <2>1. xy2_pack_word(c) = u * 2 + b
    BY DEF xy2_pack_word
  <2> HIDE DEF u, b
  <2> QED  BY <1>1, <2>1
<1>3. w \in Nat /\ w < 2 * p /\ w \div 2 = u
  <2> HIDE DEF u, b, p
  <2> QED  BY <1>1
<1>4. 2 ^ (CODE_BITS + 1) = 2 * p
  BY PowerTwo, FrameAssumptions
<1>5. w \div 2 ^ FRAME_BITS = 0
  <2>1. CODE_BITS + 1 \in Nat /\ CODE_BITS + 1 <= FRAME_BITS /\ FRAME_BITS \in Nat
    BY FrameAssumptions
  <2> HIDE DEF w, p
  <2> QED  BY <1>3, <1>4, <2>1, NoBitBeyond
<1>6. Cardinality(Ones(w, FRAME_BITS)) = k + b
  <2>1. /\ FRAME_BITS - 1 \in Nat /\ (FRAME_BITS - 1) + 1 = FRAME_BITS
        /\ CODE_BITS \in Nat /\ CODE_BITS <= FRAME_BITS - 1
    BY FrameAssumptions
  <2>2. Ones(u, FRAME_BITS - 1) = Ones(u, CODE_BITS)
    <3> HIDE DEF u
    <3> QED  BY <1>1, <2>1, OnesBeyond
  <2>3. Cardinality(Ones(w, (FRAME_BITS - 1) + 1))
          = Cardinality(Ones(u, FRAME_BITS - 1)) + b
    <3> HIDE DEF u, b
    <3> QED  BY <1>1, <2>1, OnesShift
  <2> QED  BY <2>1, <2>2, <2>3
<1>7. (k + b) % 2 = 0
  <2> HIDE DEF k
  <2> QED  BY <1>1
<1> QED  BY <1>2, <1>3, <1>5, <1>6, <1>7

LEMMA DecodeWord ==
  ASSUME NEW c \in Code, NEW bits \in Seq(Bit), Len(bits) = FRAME_BITS,
         Value(bits) = xy2_pack_word(c), CountOnes(bits) % 2 = 0
  PROVE  Decode(bits) = c
<1> DEFINE h == 2 ^ (CODE_BITS - 1)
           p == 2 ^ CODE_BITS
           u == Unsigned(c)
<1>1. CODE_BITS - 1 \in Nat /\ (CODE_BITS - 1) + 1 = CODE_BITS
  BY FrameAssumptions
<1>2. h \in Nat \ {0} /\ p = 2 * h
  BY <1>1, PowerTwo, PowerPositive
<1>3. c \in -h .. h - 1
  BY DEF Code
<1>4. u \in Nat /\ u < p /\ u = IF c >= 0 THEN c ELSE c + p
  BY UnsignedRange
<1>5. Value(bits) \div 2 = u
  BY WordRange
<1> HIDE DEF h, p, u
<1>6. u % p = u
  BY <1>2, <1>4
<1>7. (IF u < h THEN u ELSE u - p) = c
  BY <1>2, <1>3, <1>4
<1>8. ~(CountOnes(bits) % 2 = 1)
  OBVIOUS
<1> QED  BY <1>5, <1>6, <1>7, <1>8 DEF Decode, CountOnes, h, p

LEMMA CountAppend ==
  ASSUME NEW s \in Seq(Bit), NEW b \in Bit
  PROVE  /\ CountOnes(s) \in Nat
         /\ CountOnes(Append(s, b)) = CountOnes(s) + b
<1> DEFINE n == Len(s)
           r == Append(s, b)
           A == {i \in 1 .. n : s[i] = 1}
<1>1. /\ n \in Nat /\ DOMAIN s = 1 .. n /\ DOMAIN r = 1 .. n + 1
      /\ r[n + 1] = b /\ \A i \in 1 .. n : r[i] = s[i]
  BY AppendProperties, LenProperties
<1> HIDE DEF n, r
<1>2. IsFiniteSet(1 .. n)
  BY <1>1, FS_Interval
<1>3. IsFiniteSet(A) /\ Cardinality(A) \in Nat
  BY <1>2, FS_Subset, FS_CardinalityType
<1>4. CountOnes(s) = Cardinality(A)
  BY <1>1 DEF CountOnes
<1>5. CASE b = 1
  <2>1. {i \in DOMAIN r : r[i] = 1} = A \cup {n + 1}
    BY <1>1, <1>5
  <2>2. n + 1 \notin A
    BY <1>1
  <2> HIDE DEF A
  <2>3. Cardinality(A \cup {n + 1}) = Cardinality(A) + 1
    BY <1>3, <2>2, FS_AddElement
  <2> QED  BY <1>3, <1>4, <1>5, <2>1, <2>3 DEF CountOnes, r
<1>6. CASE b = 0
  <2>1. {i \in DOMAIN r : r[i] = 1} = A
    BY <1>1, <1>6
  <2>2. CountOnes(r) = Cardinality(A)
    BY <2>1 DEF CountOnes
  <2> HIDE DEF A
  <2>3. CountOnes(r) = CountOnes(s) + b /\ CountOnes(s) \in Nat
    BY <1>3, <1>4, <1>6, <2>2
  <2> QED  BY <2>3 DEF r
<1> QED  BY <1>5, <1>6 DEF Bit

LEMMA CountEmpty == CountOnes(<<>>) = 0
<1>1. {i \in DOMAIN <<>> : <<>>[i] = 1} = {}
  OBVIOUS
<1> QED  BY <1>1, FS_EmptySet DEF CountOnes
-----------------------------------------------------------------------------
(* The pins.                                                               *)

InLoop == {"x", "y", "up", "down"}
Sending == InLoop \cup {"end"}
Word(a) == xy2_pack_word(codes[a])

(* The levels of SYNC and CLK by the place in the frame. *)
Pins ==
  /\ pc \in Sending \cup {"idle", "sync"}
  /\ sync \in BOOLEAN /\ clk \in BOOLEAN
  /\ sync <=> pc \in Sending
  /\ clk <=> pc = "down"

(* How many bits the driver has. *)
Bits ==
  /\ bit \in -1 .. FRAME_BITS - 1
  /\ pc \in InLoop => bit >= 0
  /\ pc = "end" => bit = -1
  /\ codes \in [Axis -> Code] \cup {NoCodes}
  /\ pc # "idle" => codes \in [Axis -> Code]
  /\ data \in [Axis -> Bit]
  /\ \A a \in Axis :
       /\ shift[a] \in Seq(Bit) /\ Len(shift[a]) <= FRAME_BITS
       /\ pc \in Sending => Len(shift[a]) = FRAME_BITS - 1 - bit

(* Which bits they are: the word down to the bit that is sent next, and    *)
(* all ones of the word but those still to be sent. *)
Half(a) ==
  /\ Value(shift[a]) = Word(a) \div 2 ^ (bit + 1)
  /\ CountOnes(shift[a]) + Cardinality(Ones(Word(a), bit + 1))
       = Cardinality(Ones(Word(a), FRAME_BITS))

Wire ==
  /\ pc \in Sending => \A a \in Axis : Half(a)
  /\ pc \in {"y", "up", "down"} => data["x"] = BitOf(Word("x"), bit)
  /\ pc \in {"up", "down"} => data["y"] = BitOf(Word("y"), bit)

(* What the driver had before stays until SYNC falls. *)
Result ==
  /\ taken \in [Axis -> Code \cup {Broken}] \cup {NoCodes}
  /\ FrameArrives

IInv == Pins /\ Bits /\ Wire /\ Result

(* SYNC falls on a whole frame. *)
AllBitsTaken == pc = "end" => \A a \in Axis : Len(shift[a]) = FRAME_BITS

-----------------------------------------------------------------------------
LEMMA InitInvariant == Init => IInv
<1> SUFFICES ASSUME Init  PROVE  IInv
  OBVIOUS
<1>1. Pins
  BY DEF Init, Pins, Sending, InLoop
<1>2. -1 \in -1 .. FRAME_BITS - 1 /\ FRAME_BITS >= 0
  BY FrameAssumptions
<1>3. \A a \in Axis : shift[a] \in Seq(Bit) /\ Len(shift[a]) = 0
  BY DEF Init
<1>4. data \in [Axis -> Bit]
  BY DEF Init, Bit
<1>5. Bits
  BY <1>2, <1>3, <1>4 DEF Init, Bits, Sending, InLoop
<1> QED  BY <1>1, <1>5 DEF Init, IInv, Wire, Result, FrameArrives, Sending, InLoop

LEMMA PinsKept == Pins /\ [Next]_vars => Pins'
<1> SUFFICES ASSUME Pins, [Next]_vars  PROVE  Pins'
  OBVIOUS
<1> USE DEF Pins, Sending, InLoop, At
<1>1. CASE EnabledTick
  BY <1>1 DEF EnabledTick
<1>2. CASE DisabledTick
  <2>1. pc' = "idle" /\ ~sync' /\ ~clk' /\ sync' = FALSE /\ clk' = FALSE
    BY <1>2 DEF DisabledTick
  <2> QED  BY <2>1
<1>3. CASE RaiseSync \/ LowerSync
  <2>1. /\ UNCHANGED clk /\ ~clk /\ sync' \in BOOLEAN
        /\ (pc' = "x" /\ sync') \/ (pc' = "idle" /\ ~sync')
    BY <1>3 DEF RaiseSync, LowerSync
  <2> QED  BY <2>1
<1>4. CASE WriteX \/ WriteY
  BY <1>4 DEF WriteX, WriteY
<1>5. CASE RaiseClk
  BY <1>5 DEF RaiseClk
<1>6. CASE LowerClk
  <2>1. pc' \in {"x", "end"} /\ clk' = FALSE /\ UNCHANGED sync /\ pc = "down"
    BY <1>6 DEF LowerClk
  <2> QED  BY <2>1
<1>7. CASE UNCHANGED vars
  BY <1>7 DEF vars
<1> QED  BY <1>1, <1>2, <1>3, <1>4, <1>5, <1>6, <1>7 DEF Next

(* A tick that begins. *)
LEMMA TickKeeps ==
  ASSUME IInv, EnabledTick \/ DisabledTick
  PROVE  IInv'
<1>1. Pins /\ Bits /\ Wire /\ Result /\ Pins'
  BY PinsKept DEF IInv, Next
<1> USE DEF At
<1>2. /\ pc = "idle" /\ pc' \in {"idle", "sync"} /\ (pc' = "idle" => codes' = codes)
      /\ codes' = codes \/ codes' \in [Axis -> Code]
      /\ pc' # "idle" => codes' \in [Axis -> Code]
      /\ shift' = [a \in Axis |-> <<>>] /\ UNCHANGED <<bit, data, taken>>
  BY <1>1 DEF EnabledTick, DisabledTick, Driver, Pins, Sending, InLoop
<1>3. \A a \in Axis : shift'[a] \in Seq(Bit) /\ Len(shift'[a]) = 0
  BY <1>2
<1>4. Bits'
  BY <1>1, <1>2, <1>3, FrameAssumptions DEF Bits, Sending, InLoop
<1> QED
  BY <1>1, <1>2, <1>4 DEF IInv, Wire, Result, FrameArrives, Sending, InLoop

LEMMA RaiseSyncKeeps ==
  ASSUME IInv, RaiseSync
  PROVE  IInv'
<1>1. Pins /\ Bits /\ Wire /\ Result /\ Pins'
  BY PinsKept DEF IInv, Next
<1>2. /\ pc = "sync" /\ pc' = "x" /\ bit' = FRAME_BITS - 1
      /\ shift' = [a \in Axis |-> <<>>] /\ UNCHANGED <<codes, data, taken>>
  BY <1>1 DEF RaiseSync, At, Driver, Pins, Sending, InLoop
<1>3. \A a \in Axis : shift'[a] = <<>> /\ <<>> \in Seq(Bit) /\ Len(<<>>) = 0
  BY <1>2
<1>4. /\ bit' \in 0 .. FRAME_BITS - 1 /\ bit' + 1 = FRAME_BITS
      /\ FRAME_BITS - 1 - bit' = 0 /\ FRAME_BITS >= 0
  BY <1>2, FrameAssumptions
<1>5. Bits'
  BY <1>1, <1>2, <1>3, <1>4 DEF Bits, Sending, InLoop
<1>6. ASSUME NEW a \in Axis  PROVE  Half(a)'
  <2>1. codes[a] \in Code
    BY <1>1, <1>2 DEF Bits
  <2>2. Word(a)' = Word(a) /\ Word(a) \in Nat /\ Word(a) \div 2 ^ FRAME_BITS = 0
    BY <1>2, <2>1, WordRange DEF Word
  <2>3. Cardinality(Ones(Word(a), FRAME_BITS)) \in Nat
    BY OnesFinite, FrameAssumptions
  <2>4. Value(shift'[a]) = 0 /\ CountOnes(shift'[a]) = 0
    BY <1>3, ValueEmpty, CountEmpty
  <2>5. Value(shift'[a]) = Word(a) \div 2 ^ (bit' + 1)
    BY <1>4, <2>2, <2>4
  <2>6. CountOnes(shift'[a]) + Cardinality(Ones(Word(a), bit' + 1))
          = Cardinality(Ones(Word(a), FRAME_BITS))
    BY <1>4, <2>3, <2>4
  <2> QED  BY <2>2, <2>5, <2>6 DEF Half
<1> QED
  BY <1>1, <1>2, <1>5, <1>6 DEF IInv, Wire, Result, FrameArrives

LEMMA WriteKeeps ==
  ASSUME IInv, WriteX \/ WriteY
  PROVE  IInv'
<1>1. Pins /\ Bits /\ Wire /\ Result /\ Pins'
  BY PinsKept DEF IInv, Next
<1>2. PICK a \in Axis : /\ WritePin(a)
                        /\ \/ a = "x" /\ pc = "x" /\ pc' = "y"
                           \/ a = "y" /\ pc = "y" /\ pc' = "up"
  BY DEF WriteX, WriteY, At, Axis
<1>3. UNCHANGED <<codes, bit, shift, taken>>
  BY <1>1 DEF WriteX, WriteY, At, Driver, Pins, Sending, InLoop
<1>4. codes[a] \in Code /\ bit \in Nat
  BY <1>1, <1>2, FrameAssumptions DEF Bits, InLoop
<1>5. BitOf(Word(a), bit) \in Bit
  BY <1>4, WordRange, BitOfType DEF Word
<1>6. data' = [data EXCEPT ![a] = BitOf(Word(a), bit)] /\ data' \in [Axis -> Bit]
  BY <1>1, <1>2, <1>5 DEF WritePin, Word, Bits
<1>7. Bits'
  BY <1>1, <1>2, <1>3, <1>6 DEF Bits, Sending, InLoop
<1>8. Wire'
  <2>1. \A c \in Axis : Word(c)' = Word(c)
    BY <1>3 DEF Word
  <2>2. \A c \in Axis : Half(c)'
    BY <1>1, <1>2, <1>3, <2>1 DEF Wire, Half, Sending, InLoop
  <2>3. data'["x"] = BitOf(Word("x"), bit) /\ (a = "y" => data'["y"] = BitOf(Word("y"), bit))
    BY <1>1, <1>2, <1>6 DEF Wire, Bits, Axis
  <2> QED  BY <1>2, <1>3, <2>1, <2>2, <2>3 DEF Wire, Axis
<1> QED  BY <1>1, <1>2, <1>3, <1>7, <1>8 DEF IInv, Result, FrameArrives

LEMMA RaiseClkKeeps ==
  ASSUME IInv, RaiseClk
  PROVE  IInv'
<1>1. Pins /\ Bits /\ Wire /\ Result /\ Pins'
  BY PinsKept DEF IInv, Next
<1>2. pc = "up" /\ pc' = "down" /\ UNCHANGED <<codes, bit, data, shift, taken>>
  BY <1>1 DEF RaiseClk, At, Driver, Pins, Sending, InLoop
<1>3. Bits' /\ Wire'
  BY <1>1, <1>2 DEF Bits, Wire, Half, Word, Sending, InLoop
<1> QED  BY <1>1, <1>2, <1>3 DEF IInv, Result, FrameArrives

(* The driver takes a bit of each axis. *)
LEMMA LowerClkKeeps ==
  ASSUME IInv, LowerClk
  PROVE  IInv'
<1>1. Pins /\ Bits /\ Wire /\ Result /\ Pins'
  BY PinsKept DEF IInv, Next
<1>2. /\ shift' = [a \in Axis |-> Append(shift[a], data[a])]
      /\ UNCHANGED <<codes, data, taken>>
      /\ pc = "down" /\ bit' = bit - 1
      /\ pc' = IF bit > 0 THEN "x" ELSE "end"
  BY <1>1 DEF LowerClk, At, Driver, Pins, Sending, InLoop
<1>3. bit \in 0 .. FRAME_BITS - 1 /\ codes \in [Axis -> Code] /\ bit' + 1 = bit
  BY <1>1, <1>2, FrameAssumptions DEF Bits, InLoop
<1>4. /\ bit' \in -1 .. FRAME_BITS - 1 /\ pc' \in {"x", "end"}
      /\ pc' = "x" => bit' >= 0
      /\ pc' = "end" => bit' = -1
  BY <1>2, <1>3, FrameAssumptions
<1>5. ASSUME NEW a \in Axis
      PROVE  /\ shift'[a] \in Seq(Bit) /\ Len(shift'[a]) = FRAME_BITS - 1 - bit'
             /\ Half(a)'
  <2>1. /\ shift[a] \in Seq(Bit) /\ data[a] \in Bit
        /\ Len(shift[a]) = FRAME_BITS - 1 - bit
    BY <1>1, <1>2 DEF Bits, Sending, InLoop
  <2>2. /\ Append(shift[a], data[a]) \in Seq(Bit)
        /\ Len(Append(shift[a], data[a])) = Len(shift[a]) + 1
    BY <2>1, AppendProperties
  <2>3. shift'[a] \in Seq(Bit) /\ Len(shift'[a]) = FRAME_BITS - 1 - bit'
    BY <1>2, <1>3, <2>1, <2>2, FrameAssumptions
  <2>4. Half(a) /\ data[a] = BitOf(Word(a), bit)
    BY <1>1, <1>2 DEF Wire, Sending, InLoop, Axis
  <2>5. Word(a) \in Nat /\ bit \in Nat /\ Word(a)' = Word(a)
    BY <1>2, <1>3, WordRange, FrameAssumptions DEF Word
  <2>6. Value(shift'[a]) = Word(a) \div 2 ^ bit
    <3>1. Value(shift'[a]) = 2 * (Word(a) \div 2 ^ (bit + 1)) + BitOf(Word(a), bit)
      BY <1>2, <2>1, <2>4, ValueAppend DEF Half
    <3> QED  BY <2>5, <3>1, DivHalf
  <2>7. CountOnes(shift'[a]) + Cardinality(Ones(Word(a), bit))
          = Cardinality(Ones(Word(a), FRAME_BITS))
    <3>1. /\ CountOnes(shift'[a]) = CountOnes(shift[a]) + BitOf(Word(a), bit)
          /\ CountOnes(shift[a]) \in Nat
      BY <1>2, <2>1, <2>4, CountAppend
    <3>2. Cardinality(Ones(Word(a), bit + 1))
            = Cardinality(Ones(Word(a), bit)) + BitOf(Word(a), bit)
      BY <2>5, OnesStep
    <3>3. Cardinality(Ones(Word(a), bit)) \in Nat /\ BitOf(Word(a), bit) \in {0, 1}
      BY <2>5, OnesFinite, BitOfType DEF Bit
    <3> QED  BY <2>4, <3>1, <3>2, <3>3 DEF Half
  <2>8. Half(a)'
    BY <1>3, <2>5, <2>6, <2>7 DEF Half
  <2> QED  BY <2>3, <2>8
<1>6. Bits'
  BY <1>1, <1>2, <1>3, <1>4, <1>5, FrameAssumptions DEF Bits, Sending, InLoop
<1>7. Wire'
  BY <1>4, <1>5 DEF Wire
<1> QED  BY <1>1, <1>2, <1>4, <1>6, <1>7 DEF IInv, Result, FrameArrives

(* The driver has the frame. *)
LEMMA LowerSyncKeeps ==
  ASSUME IInv, LowerSync
  PROVE  IInv'
<1>1. Pins /\ Bits /\ Wire /\ Result /\ Pins'
  BY PinsKept DEF IInv, Next
<1>2. /\ pc = "end" /\ pc' = "idle" /\ UNCHANGED <<codes, bit, data, shift>>
      /\ taken' = [a \in Axis |-> Decode(shift[a])]
  BY <1>1 DEF LowerSync, At, Driver, Pins, Sending, InLoop
<1>3. bit = -1 /\ bit + 1 = 0 /\ codes \in [Axis -> Code]
  BY <1>1, <1>2 DEF Bits
<1>4. ASSUME NEW a \in Axis  PROVE  Decode(shift[a]) = codes[a]
  <2>1. Half(a) /\ shift[a] \in Seq(Bit) /\ Len(shift[a]) = FRAME_BITS
    BY <1>1, <1>2, <1>3, FrameAssumptions DEF Wire, Bits, Sending
  <2>2. codes[a] \in Code /\ Word(a) \in Nat
    BY <1>3, WordRange DEF Word
  <2>3. Word(a) \div 2 ^ 0 = Word(a)
    BY <2>2
  <2>4. Value(shift[a]) = Word(a)
    BY <1>3, <2>1, <2>3 DEF Half
  <2>5. CountOnes(shift[a]) \in Nat
    BY <2>1, CountAppend DEF Bit
  <2>6. CountOnes(shift[a]) % 2 = 0
    BY <1>3, <2>1, <2>2, <2>5, OnesNone, WordRange DEF Half, Word
  <2> QED  BY <2>1, <2>2, <2>4, <2>6, DecodeWord DEF Word
<1>5. taken' = codes
  BY <1>2, <1>3, <1>4
<1>6. Bits' /\ Wire'
  BY <1>1, <1>2 DEF Bits, Wire, Sending, InLoop
<1> QED  BY <1>1, <1>2, <1>3, <1>5, <1>6 DEF IInv, Result, FrameArrives

LEMMA StepKeeps == IInv /\ [Next]_vars => IInv'
<1> SUFFICES ASSUME IInv, [Next]_vars  PROVE  IInv'
  OBVIOUS
<1>1. CASE UNCHANGED vars
  BY <1>1 DEF vars, IInv, Pins, Bits, Wire, Half, Word, Result, FrameArrives
<1> QED
  BY <1>1, TickKeeps, RaiseSyncKeeps, WriteKeeps, RaiseClkKeeps, LowerClkKeeps,
     LowerSyncKeeps DEF Next

LEMMA Invariance == Spec => []IInv
<1> QED  BY InitInvariant, StepKeeps, PTL DEF Spec

-----------------------------------------------------------------------------
(* The levels, the loop variable and the bits stay in their ranges; the    *)
(* driver never has more bits than a frame. *)
THEOREM TypeCorrect == Spec => []TypeOK
<1>1. IInv => TypeOK
  BY DEF IInv, Pins, Bits, Result, TypeOK, Sending, InLoop
<1> QED  BY <1>1, Invariance, PTL

(* Whatever the widths, the driver has exactly the codes of the last frame *)
(* when the tick is over: xy2_pack_word loses no bit, makes the parity     *)
(* even and keeps the sign, and xy2_send_frame sends every bit once.       *)
THEOREM CodesArrive == Spec => []FrameArrives
<1>1. IInv => FrameArrives
  BY DEF IInv, Result
<1> QED  BY <1>1, Invariance, PTL

(* xy2_send_frame clocks out exactly FRAME_BITS bits of each axis before   *)
(* SYNC falls. *)
THEOREM WholeFrames == Spec => []AllBitsTaken
<1>1. IInv => AllBitsTaken
  BY FrameAssumptions DEF IInv, Bits, AllBitsTaken, Sending
<1> QED  BY <1>1, Invariance, PTL

(* xy2_write_bit moves the data lines only while CLK is low. *)
THEOREM DataStands == Spec => DataStable
<1>1. IInv /\ [Next]_vars => [clk => data' = data]_vars
  BY DEF IInv, Pins, InLoop, Next, vars, EnabledTick, DisabledTick, RaiseSync,
         WriteX, WriteY, RaiseClk, LowerClk, LowerSync, At
<1> QED  BY <1>1, Invariance, PTL DEF Spec, DataStable

(* xy2_send_frame moves SYNC only between the clock pulses. *)
THEOREM SyncBetweenClocks == Spec => SyncFramesClock
<1>1. IInv /\ [Next]_vars => [sync' # sync => ~clk /\ ~clk']_vars
  BY PinsKept DEF IInv, Pins, Sending, InLoop, Next, vars, EnabledTick,
         DisabledTick, RaiseSync, WriteX, WriteY, RaiseClk, LowerClk, LowerSync, At
<1> QED  BY <1>1, Invariance, PTL DEF Spec, SyncFramesClock

=============================================================================
