----------------------------- MODULE NumberFacts -----------------------------
(***************************************************************************)
(* Induction over the natural numbers, stated of sets so that it can be    *)
(* cited, the powers of two that it is wanted for, division, and words.    *)
(***************************************************************************)
EXTENDS ToyIR, FiniteSetTheorems, WellFoundedInduction, TLAPS

\* A set of natural numbers that is not empty has a least element.
LEMMA LeastExists ==
    ASSUME NEW T, T \subseteq Nat, T # {}
    PROVE  \E m \in T : \A n \in T : m =< n
<1>1. IsWellFoundedOn(OpToRel(<, Nat), Nat)
  BY NatLessThanWellFounded
<1>2. PICK m \in T : \A n \in T : <<n, m>> \notin OpToRel(<, Nat)
  BY <1>1, WFMin
<1>3. ASSUME NEW n \in T, n < m PROVE FALSE
  <2>1. <<n, m>> \in Nat \X Nat /\ <<n, m>>[1] = n /\ <<n, m>>[2] = m
    OBVIOUS
  <2>2. <<n, m>> \in OpToRel(<, Nat)
    BY <1>3, <2>1 DEF OpToRel
  <2>3. QED
    BY <2>2, <1>2
<1>4. QED
  BY <1>3

\* A set that holds 0 and the successor of each natural number in it holds them all.
LEMMA Induction ==
    ASSUME NEW T, 0 \in T, \A n \in Nat : n \in T => n + 1 \in T
    PROVE  Nat \subseteq T
<1>1. SUFFICES ASSUME Nat \ T # {} PROVE FALSE
  OBVIOUS
<1>2. PICK m \in Nat \ T : \A n \in Nat \ T : m =< n
  BY <1>1, LeastExists
<1>3. m # 0 /\ m - 1 \in Nat
  BY <1>2
<1>4. m - 1 \in T
  BY <1>2, <1>3
<1>5. (m - 1) + 1 \in T
  BY <1>3, <1>4
<1>6. QED
  BY <1>2, <1>5

\* The least power of two.
LEMMA PowerZero == 2^0 = 1
<1>1. Cardinality(SUBSET {}) = 2^Cardinality({})
  BY FS_SUBSET, FS_EmptySet
<1>2. SUBSET {} = {{}}
  OBVIOUS
<1>3. QED
  BY <1>1, <1>2, FS_EmptySet, FS_Singleton

\* The subsets of 1 .. n + 1 are those without n + 1 and as many with it.
LEMMA PowerNext ==
    ASSUME NEW n \in Nat
    PROVE  2^n \in Nat /\ 2^(n + 1) = 2 * 2^n
<1> DEFINE S    == 1 .. n
           T    == 1 .. n + 1
           With == {A \cup {n + 1} : A \in SUBSET S}
           f    == [A \in SUBSET S |-> A \cup {n + 1}]
<1>1. IsFiniteSet(S) /\ Cardinality(S) = n /\ IsFiniteSet(T) /\ Cardinality(T) = n + 1
  BY FS_Interval
<1>2. /\ IsFiniteSet(SUBSET S) /\ Cardinality(SUBSET S) = 2^n
      /\ IsFiniteSet(SUBSET T) /\ Cardinality(SUBSET T) = 2^(n + 1)
  BY <1>1, FS_SUBSET
<1>3. f \in Bijection(SUBSET S, With)
  <2>1. f \in [SUBSET S -> With]
    OBVIOUS
  <2>2. ASSUME NEW A \in SUBSET S, NEW B \in SUBSET S, f[A] = f[B]
        PROVE  A = B
    <3>1. A \cup {n + 1} = B \cup {n + 1}
      BY <2>2
    <3>2. n + 1 \notin A /\ n + 1 \notin B
      BY DEF S
    <3>3. QED
      BY <3>1, <3>2
  <2>3. \A D \in With : \E A \in SUBSET S : f[A] = D
    OBVIOUS
  <2>4. f \in Injection(SUBSET S, With)
    BY <2>1, <2>2 DEF Injection, IsInjective
  <2>5. f \in Surjection(SUBSET S, With)
    BY <2>1, <2>3 DEF Surjection
  <2>6. QED
    BY <2>4, <2>5 DEF Bijection
<1>4. IsFiniteSet(With) /\ Cardinality(With) = 2^n
  <2>1. ExistsBijection(SUBSET S, With)
    BY <1>3 DEF ExistsBijection
  <2>2. QED
    BY <1>2, <2>1, FS_Bijection
<1>5. SUBSET T = (SUBSET S) \cup With
  <2>1. ASSUME NEW A \in SUBSET T PROVE A \in (SUBSET S) \cup With
    <3>1. CASE n + 1 \in A
      <4>1. A \ {n + 1} \in SUBSET S
        OBVIOUS
      <4>2. A = (A \ {n + 1}) \cup {n + 1}
        BY <3>1
      <4>3. QED
        BY <4>1, <4>2
    <3>2. CASE n + 1 \notin A
      BY <3>2
    <3>3. QED
      BY <3>1, <3>2
  <2>2. ASSUME NEW A \in (SUBSET S) \cup With PROVE A \in SUBSET T
    OBVIOUS
  <2>3. QED
    BY <2>1, <2>2
<1>6. (SUBSET S) \cap With = {}
  OBVIOUS
<1>7. Cardinality(SUBSET T) = 2^n + 2^n - 0
  <2>1. Cardinality((SUBSET S) \cup With)
            = Cardinality(SUBSET S) + Cardinality(With) - Cardinality((SUBSET S) \cap With)
    BY <1>2, <1>4, FS_Union
  <2>2. QED
    BY <2>1, <1>2, <1>4, <1>5, <1>6, FS_EmptySet
<1>8. 2^n \in Nat
  BY <1>2, FS_CardinalityType
<1>9. QED
  BY <1>2, <1>7, <1>8

\* Powers of two are positive numbers.
LEMMA PowerPositive == \A n \in Nat : 2^n \in Nat /\ 2^n > 0
<1> DEFINE T == {n \in Nat : 2^n > 0}
<1>1. 0 \in T
  BY PowerZero
<1>2. ASSUME NEW n \in Nat, n \in T PROVE n + 1 \in T
  BY <1>2, PowerNext
<1>3. Nat \subseteq T
  BY <1>1, <1>2, Induction
<1>4. QED
  BY <1>3, PowerNext

\* The exponents of a product add up.
LEMMA PowerSum == \A m \in Nat, n \in Nat : 2^(m + n) = 2^m * 2^n
<1>1. SUFFICES ASSUME NEW m \in Nat PROVE \A n \in Nat : 2^(m + n) = 2^m * 2^n
  OBVIOUS
<1> DEFINE T == {n \in Nat : 2^(m + n) = 2^m * 2^n}
<1>2. 0 \in T
  BY PowerZero, PowerPositive
<1>3. ASSUME NEW n \in Nat, n \in T PROVE n + 1 \in T
  <2>1. 2^(m + (n + 1)) = 2 * 2^(m + n)
    <3>1. m + n \in Nat /\ m + (n + 1) = (m + n) + 1
      OBVIOUS
    <3>2. QED
      BY <3>1, PowerNext
  <2>2. 2^(n + 1) = 2 * 2^n
    BY PowerNext
  <2>3. 2^m \in Nat /\ 2^n \in Nat
    BY PowerPositive
  <2> DEFINE a == 2^m  b == 2^n
  <2>4. 2 * (a * b) = a * (2 * b)
    <3> HIDE DEF a, b
    <3>1. a \in Nat /\ b \in Nat
      BY <2>3 DEF a, b
    <3>2. QED
      BY <3>1
  <2>5. 2^(m + n) = a * b
    BY <1>3
  <2>6. 2^(m + (n + 1)) = 2^m * 2^(n + 1)
    BY <2>1, <2>2, <2>4, <2>5
  <2>7. QED
    BY <2>6
<1>4. Nat \subseteq T
  BY <1>2, <1>3, Induction
<1>5. QED
  BY <1>4

\* A larger exponent gives a power at least twice as large.
LEMMA PowerGrows == \A m \in Nat, n \in Nat : m < n => 2 * 2^m =< 2^n
<1>1. SUFFICES ASSUME NEW m \in Nat, NEW n \in Nat, m < n PROVE 2 * 2^m =< 2^n
  OBVIOUS
<1> DEFINE k == n - (m + 1)
<1>2. k \in Nat /\ n = (m + 1) + k
  BY <1>1
<1> HIDE DEF k
<1>3. 2^n = 2^(m + 1) * 2^k
  BY <1>2, PowerSum
<1>4. 2^(m + 1) = 2 * 2^m /\ 2^m \in Nat /\ 2^k \in Nat /\ 2^k > 0
  BY <1>2, PowerNext, PowerPositive
<1> DEFINE a == 2 * 2^m  b == 2^k
<1>5. a \in Nat /\ b \in Nat /\ b > 0
  BY <1>4
<1>6. a =< a * b
  <2> HIDE DEF a, b
  <2>1. QED
    BY <1>5
<1>7. QED
  BY <1>3, <1>4, <1>6

\* Division leaves the quotient below and a remainder smaller than the divisor.
LEMMA DivMod ==
    ASSUME NEW a \in Int, NEW b \in Nat, b > 0
    PROVE  /\ a \div b \in Int /\ a % b \in 0 .. b - 1
           /\ a = b * (a \div b) + (a % b)
OBVIOUS

\* A number smaller than b is no multiple of it but 0.
LEMMA SmallMultiple ==
    ASSUME NEW b \in Nat, NEW q \in Int, b * q < b, -b < b * q
    PROVE  q = 0
OBVIOUS

\* No other quotient and remainder do.
LEMMA DivUnique ==
    ASSUME NEW a \in Int, NEW b \in Nat, b > 0, NEW q \in Int, NEW r \in 0 .. b - 1,
           a = b * q + r
    PROVE  a \div b = q /\ a % b = r
<1> DEFINE u == a \div b
           v == a % b
<1>1. u \in Int /\ v \in 0 .. b - 1 /\ a = b * u + v
  BY DivMod
<1> HIDE DEF u, v
<1>2. b * (u - q) = r - v
  BY <1>1
<1>3. b * (u - q) < b /\ -b < b * (u - q)
  BY <1>1, <1>2
<1>4. u - q = 0
  BY <1>1, <1>3, SmallMultiple
<1>5. u = q /\ v = r
  BY <1>1, <1>4
<1>6. QED
  BY <1>5 DEF u, v

\* Multiples of the divisor move the quotient only.
LEMMA DivShift ==
    ASSUME NEW a \in Int, NEW b \in Nat, b > 0, NEW j \in Int
    PROVE  (a + b * j) \div b = (a \div b) + j /\ (a + b * j) % b = a % b
<1> DEFINE u == a \div b
           v == a % b
<1>1. u \in Int /\ v \in 0 .. b - 1 /\ a = b * u + v
  BY DivMod
<1> HIDE DEF u, v
<1>2. a + b * j = b * (u + j) + v /\ u + j \in Int /\ a + b * j \in Int
  BY <1>1
<1>3. (a + b * j) \div b = u + j /\ (a + b * j) % b = v
  BY <1>1, <1>2, DivUnique
<1>4. QED
  BY <1>3 DEF u, v

\* Dividing twice divides by the product.
LEMMA DivTwice ==
    ASSUME NEW a \in Int, NEW b \in Nat, b > 0, NEW c \in Nat, c > 0
    PROVE  (a \div b) \div c = a \div (b * c)
<1> DEFINE u == a \div b
           v == a % b
           s == u \div c
           t == u % c
<1>1. u \in Int /\ v \in 0 .. b - 1 /\ a = b * u + v
  BY DivMod
<1>2. s \in Int /\ t \in 0 .. c - 1 /\ u = c * s + t
  BY <1>1, DivMod
<1> HIDE DEF u, v, s, t
<1>3. a = (b * c) * s + (b * t + v)
  BY <1>1, <1>2
<1>4. b * t + v \in 0 .. b * c - 1
  <2>1. b * t \in Int /\ 0 =< b * t
    BY <1>2
  <2>2. b * t =< b * (c - 1)
    BY <1>2
  <2>3. b * (c - 1) = b * c - b /\ b * c \in Nat
    OBVIOUS
  <2>4. QED
    BY <1>1, <2>1, <2>2, <2>3
<1>5. b * c \in Nat /\ b * c > 0
  OBVIOUS
<1>6. a \div (b * c) = s
  BY <1>2, <1>3, <1>4, <1>5, DivUnique
<1>7. QED
  BY <1>6 DEF u, s

-----------------------------------------------------------------------------
(* Words. *)

\* The range of a word is even.
LEMMA HalfRangeIs == HalfRange \in Nat /\ HalfRange >= 2 /\ Words \subseteq Int
<1>1. WordBits \in Nat /\ WordBits > 1
  BY IRAssumption
<1> DEFINE n == WordBits - 2
<1>2. n \in Nat /\ WordBits - 1 = n + 1
  BY <1>1
<1> HIDE DEF n
<1>3. 2^n \in Nat /\ 2^n > 0 /\ 2^(n + 1) = 2 * 2^n
  BY <1>2, PowerNext, PowerPositive
<1>4. HalfRange = 2^(n + 1)
  BY <1>2 DEF HalfRange
<1>5. HalfRange \in Nat /\ HalfRange >= 2
  BY <1>3, <1>4
<1>6. QED
  BY <1>5 DEF Words

\* Wrap gives a word that differs by a multiple of the range.
LEMMA WrapWord ==
    ASSUME NEW n \in Int
    PROVE  /\ Wrap(n) \in Words
           /\ \E j \in Int : Wrap(n) = n + (2 * HalfRange) * j
<1> DEFINE b == 2 * HalfRange
           u == (n + HalfRange) \div b
           v == (n + HalfRange) % b
<1>1. HalfRange \in Nat /\ b \in Nat /\ b > 0 /\ n + HalfRange \in Int
  BY HalfRangeIs
<1>2. u \in Int /\ v \in 0 .. b - 1 /\ n + HalfRange = b * u + v
  BY <1>1, DivMod
<1>3. Wrap(n) = v - HalfRange
  BY DEF Wrap
<1>4. Wrap(n) \in Words
  BY <1>1, <1>2, <1>3 DEF Words
<1>5. -u \in Int /\ Wrap(n) = n + b * (-u)
  <2> HIDE DEF b, u, v
  <2>1. QED
    BY <1>1, <1>2, <1>3
<1>6. QED
  BY <1>4, <1>5

\* It does not tell apart what differs by multiples of the range.
LEMMA WrapShift ==
    ASSUME NEW n \in Int, NEW j \in Int
    PROVE  Wrap(n + (2 * HalfRange) * j) = Wrap(n)
<1> DEFINE b == 2 * HalfRange
<1>1. HalfRange \in Nat /\ b \in Nat /\ b > 0 /\ n + HalfRange \in Int
  BY HalfRangeIs
<1>2. (n + b * j) + HalfRange = (n + HalfRange) + b * j
  BY <1>1
<1>3. ((n + HalfRange) + b * j) % b = (n + HalfRange) % b
  <2> HIDE DEF b
  <2>1. QED
    BY <1>1, DivShift
<1>4. QED
  BY <1>2, <1>3 DEF Wrap

\* It leaves a word alone.
LEMMA WrapFits ==
    ASSUME NEW n \in Words
    PROVE  Wrap(n) = n
<1> DEFINE b == 2 * HalfRange
           s == n + HalfRange
<1>1. HalfRange \in Nat /\ b \in Nat /\ b > 0 /\ n \in Int /\ s \in 0 .. b - 1 /\ s \in Int
  BY HalfRangeIs DEF Words
<1>2. s = b * 0 + s
  BY <1>1
<1>3. s % b = s
  <2> HIDE DEF b, s
  <2>1. QED
    BY <1>1, <1>2, DivUnique
<1>4. QED
  BY <1>1, <1>3 DEF Wrap

\* Quotient and remainder of words by their magnitudes: the remainder is a word, and so
\* is the quotient but for the least word by -1.
LEMMA QuotientWord ==
    ASSUME NEW x \in Words, NEW d \in Words, d # 0
    PROVE  /\ Magnitude(x) \in 0 .. HalfRange /\ Magnitude(d) \in 1 .. HalfRange
           /\ Magnitude(x) \div Magnitude(d) \in Nat
           /\ Quotient(x, d) \in Int
           /\ d # -1 => Quotient(x, d) \in Words
           /\ x - d * Quotient(x, d) \in Words
<1> DEFINE H == HalfRange
           m == Magnitude(d)
           n == Magnitude(x)
           q == n \div m
           r == n % m
<1>1. H \in Nat /\ H >= 2
  BY HalfRangeIs
<1>2. /\ x \in Int /\ -H =< x /\ x < H /\ d \in Int /\ -H =< d /\ d < H
      /\ n \in 0 .. H /\ m \in 1 .. H
      /\ x = (IF x < 0 THEN -n ELSE n) /\ d = (IF d < 0 THEN -m ELSE m)
  BY <1>1 DEF Words, Magnitude
<1>3. /\ Quotient(x, d) = IF (x < 0) = (d < 0) THEN q ELSE -q
      /\ Words = -H .. H - 1
  BY DEF Quotient, Words
<1> HIDE DEF H, m, n
<1>4. q \in Int /\ r \in 0 .. m - 1 /\ n = m * q + r
  <2>1. n \in Int /\ m \in Nat /\ m > 0
    BY <1>1, <1>2
  <2>2. QED
    BY <2>1, DivMod
<1> HIDE DEF q, r
<1>5. q >= 0 /\ q =< n
  <2>1. m * q >= 0
    <3>1. m * q > -m
      BY <1>1, <1>2, <1>4
    <3>2. q < 0 => m * q =< -m
      BY <1>1, <1>2, <1>4
    <3>3. QED
      BY <1>1, <1>2, <1>4, <3>1, <3>2
  <2>2. q >= 0
    BY <1>1, <1>2, <1>4, <2>1
  <2>3. q =< m * q
    BY <1>1, <1>2, <1>4, <2>2
  <2>4. QED
    BY <1>1, <1>2, <1>4, <2>2, <2>3
<1>6. d # -1 => Quotient(x, d) \in Words
  <2>1. SUFFICES ASSUME d # -1 PROVE Quotient(x, d) \in -H .. H - 1
    BY <1>3
  <2>2. CASE m = 1
    BY <1>1, <1>2, <1>3, <1>4, <1>5, <2>1, <2>2
  <2>3. CASE m > 1
    <3>1. 2 * q =< m * q
      BY <1>1, <1>2, <1>4, <1>5, <2>3
    <3>2. q < H
      BY <1>1, <1>2, <1>4, <1>5, <3>1
    <3>3. QED
      BY <1>1, <1>3, <1>4, <1>5, <3>2
  <2>4. QED
    BY <1>1, <1>2, <2>2, <2>3
<1>7. x - d * Quotient(x, d) = IF x < 0 THEN -r ELSE r
  <2>1. CASE x < 0 /\ d < 0
    <3>1. x = -n /\ d = -m /\ Quotient(x, d) = q
      BY <1>2, <1>3, <2>1
    <3>2. QED
      BY <1>1, <1>2, <1>4, <2>1, <3>1
  <2>2. CASE x < 0 /\ ~(d < 0)
    <3>1. x = -n /\ d = m /\ Quotient(x, d) = -q
      BY <1>2, <1>3, <2>2
    <3>2. QED
      BY <1>1, <1>2, <1>4, <2>2, <3>1
  <2>3. CASE ~(x < 0) /\ d < 0
    <3>1. x = n /\ d = -m /\ Quotient(x, d) = -q
      BY <1>2, <1>3, <2>3
    <3>2. QED
      BY <1>1, <1>2, <1>4, <2>3, <3>1
  <2>4. CASE ~(x < 0) /\ ~(d < 0)
    <3>1. x = n /\ d = m /\ Quotient(x, d) = q
      BY <1>2, <1>3, <2>4
    <3>2. QED
      BY <1>1, <1>2, <1>4, <2>4, <3>1
  <2>5. QED
    BY <2>1, <2>2, <2>3, <2>4
<1>8. x - d * Quotient(x, d) \in Words
  BY <1>1, <1>2, <1>3, <1>4, <1>7
<1>9. Quotient(x, d) \in Int
  BY <1>3, <1>4
<1>10. QED
  BY <1>2, <1>4, <1>5, <1>6, <1>8, <1>9 DEF H, m, n, q

=============================================================================
