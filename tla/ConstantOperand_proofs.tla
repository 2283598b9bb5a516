------------------------ MODULE ConstantOperand_proofs ------------------------
(***************************************************************************)
(* Proofs about ConstantOperand: at any width of a word, computeDivMagic   *)
(* finds a multiplier without wrapping around, and the code written for an *)
(* instruction with a constant operand leaves the instruction's result.    *)
(***************************************************************************)
EXTENDS ConstantOperand, NumberFacts

-----------------------------------------------------------------------------
(* Words. *)

\* The range of a word is even and has at least eight values.
LEMMA WordRange ==
    /\ WordBits \in Nat /\ Width = WordBits
    /\ HalfRange \in Nat /\ HalfRange >= 4
    /\ HalfRange = 2^(Width - 1) /\ 2 * HalfRange = 2^Width
    /\ HalfRange = 2 * 2^(Width - 2) /\ 2^(Width - 2) \in Nat
<1>1. WordBits \in Nat /\ WordBits > 2 /\ Width = WordBits
  BY IRAssumption, WidthAssumption DEF Width
<1> DEFINE n == WordBits - 3
<1>2. n \in Nat /\ Width = n + 3 /\ Width - 1 = n + 2 /\ Width - 2 = n + 1
  BY <1>1
<1> HIDE DEF n
<1>3. n + 1 \in Nat /\ n + 2 \in Nat /\ (n + 1) + 1 = n + 2 /\ (n + 2) + 1 = n + 3
  BY <1>2
<1>4. /\ 2^n \in Nat /\ 2^n > 0 /\ 2^(n + 1) = 2 * 2^n
      /\ 2^(n + 2) = 2 * 2^(n + 1) /\ 2^(n + 3) = 2 * 2^(n + 2)
  BY <1>2, <1>3, PowerNext, PowerPositive
<1>5. HalfRange = 2^(Width - 1)
  BY <1>1 DEF HalfRange
<1>6. QED
  BY <1>1, <1>2, <1>4, <1>5

\* A power of two above 1 is even.
LEMMA PowerEven ==
    ASSUME NEW j \in Nat, 2^j # 1
    PROVE  \E m \in Nat : 2^j = 2 * m
<1>1. j # 0
  BY PowerZero
<1>2. j - 1 \in Nat /\ (j - 1) + 1 = j
  BY <1>1
<1>3. 2^(j - 1) \in Nat /\ 2^j = 2 * 2^(j - 1)
  BY <1>2, PowerNext
<1>4. QED
  BY <1>3

\* What fits an unsigned word is not changed.
LEMMA UnsignedFits ==
    ASSUME NEW n \in 0 .. 2 * HalfRange - 1
    PROVE  Unsigned(n) = n
<1> DEFINE b == 2 * HalfRange
<1>1. b \in Nat /\ b > 0 /\ n \in Int /\ n = b * 0 + n /\ n \in 0 .. b - 1
  BY WordRange
<1>2. n % b = n
  <2> HIDE DEF b
  <2>1. QED
    BY <1>1, DivUnique
<1>3. QED
  BY <1>2 DEF Unsigned

-----------------------------------------------------------------------------
(* The divisor and the extreme dividend. *)

\* The number of dividends of the divisor's sign but 0.
Bound(d) == HalfRange + (IF d < 0 THEN 1 ELSE 0)

\* The divisor is at least 2, and the extreme dividend, which is one less than a
\* multiple of it, is less than one divisor away from the end of the range.
LEMMA Divisor ==
    ASSUME NEW d \in Words, TakesMagic(d)
    PROVE  /\ Magnitude(d) \in 2 .. HalfRange
           /\ Anc(d) \in 2 .. HalfRange
           /\ Bound(d) - Magnitude(d) =< Anc(d) /\ Anc(d) < Bound(d)
           /\ Magnitude(d) - 1 =< Anc(d)
           /\ \E c \in Nat : Anc(d) + 1 = Magnitude(d) * c
<1> DEFINE H == HalfRange
           m == Magnitude(d)
           t == Bound(d)
<1>1. H \in Nat /\ H >= 4
  BY WordRange
<1> HIDE DEF H
<1>2. d \in Int /\ -H =< d /\ d < H
  BY <1>1 DEF Words, H
<1>3. d # -1 /\ d # 0 /\ d # 1 /\ d # 2
  <2>1. 2 = 2^1 /\ 1 \in 0 .. WordBits - 2
    <3>1. 2^1 = 2
      BY PowerNext, PowerZero
    <3>2. QED
      BY <3>1, IRAssumption, WidthAssumption
  <2>2. IsPowerOfTwo(2)
    BY <2>1 DEF IsPowerOfTwo
  <2>3. QED
    BY <2>2 DEF TakesMagic
<1>4. m \in 2 .. H /\ (d > 0 => m > 2)
  BY <1>1, <1>2, <1>3 DEF Magnitude
<1>5. t \in Nat /\ t = IF d < 0 THEN H + 1 ELSE H
  BY <1>1, <1>2 DEF Bound, H
<1> DEFINE c == t \div m
           r == t % m
<1>6. Anc(d) = t - 1 - r
  BY <1>5 DEF Anc, Bound
<1> HIDE DEF m, t
<1>7. c \in Int /\ r \in 0 .. m - 1 /\ t = m * c + r
  BY <1>4, <1>5, DivMod
<1> HIDE DEF c, r
<1>8. c >= 1
  <2>1. m =< t
    BY <1>1, <1>2, <1>4, <1>5
  <2>2. m * c > 0
    BY <1>4, <1>7, <2>1
  <2>3. QED
    BY <1>4, <1>7, <2>2
<1>9. Anc(d) + 1 = m * c /\ Anc(d) \in Int
  BY <1>4, <1>5, <1>6, <1>7
<1>10. m * c >= m
  BY <1>4, <1>7, <1>8
<1>11. Anc(d) < t /\ t - m =< Anc(d) /\ m - 1 =< Anc(d)
  BY <1>4, <1>5, <1>6, <1>7, <1>9, <1>10
<1>12. Anc(d) =< H
  BY <1>1, <1>5, <1>9, <1>11
<1>13. Anc(d) >= 2
  <2>1. CASE m > 2
    BY <1>4, <1>9, <1>11, <2>1
  <2>2. CASE m = 2
    BY <1>1, <1>2, <1>4, <1>5, <1>9, <1>11, <2>2
  <2>3. QED
    BY <1>4, <2>1, <2>2
<1>14. QED
  BY <1>4, <1>8, <1>7, <1>9, <1>11, <1>12, <1>13 DEF m, t, H

-----------------------------------------------------------------------------
(* The search for a multiplier. *)

\* Quotient and remainder of n by m, doubled, are those of twice n, if the quotient is
\* less than half the range.
LEMMA DoubledExact ==
    ASSUME NEW m \in 1 .. HalfRange, NEW q \in Nat, q < HalfRange, NEW r \in 0 .. m - 1
    PROVE  /\ Doubled(q, r, m).q \in {2 * q, 2 * q + 1}
           /\ r = 0 => Doubled(q, r, m).q = 2 * q
           /\ Doubled(q, r, m).r \in 0 .. m - 1
           /\ Doubled(q, r, m).q * m + Doubled(q, r, m).r = 2 * (q * m + r)
<1> DEFINE H == HalfRange
<1>1. H \in Nat
  BY WordRange
<1>2. Unsigned(2 * r) = 2 * r
  BY WordRange, UnsignedFits
<1>3. CASE 2 * r >= m
  <2>1. Unsigned(2 * q + 1) = 2 * q + 1 /\ Unsigned(2 * r - m) = 2 * r - m
    BY WordRange, <1>3, UnsignedFits
  <2>2. Doubled(q, r, m).q = 2 * q + 1 /\ Doubled(q, r, m).r = 2 * r - m
    BY <1>2, <1>3, <2>1 DEF Doubled, Truth
  <2>3. r # 0 /\ 2 * r - m \in 0 .. m - 1 /\ (2 * q + 1) * m + (2 * r - m) = 2 * (q * m + r)
    BY <1>1, <1>3
  <2>4. QED
    BY <2>2, <2>3
<1>4. CASE ~(2 * r >= m)
  <2>1. Unsigned(2 * q + 0) = 2 * q /\ Unsigned(2 * r - 0) = 2 * r
    BY WordRange, <1>2, UnsignedFits
  <2>2. Doubled(q, r, m).q = 2 * q /\ Doubled(q, r, m).r = 2 * r
    BY <1>2, <1>4, <2>1 DEF Doubled, Truth
  <2>3. 2 * r \in 0 .. m - 1 /\ (2 * q) * m + 2 * r = 2 * (q * m + r)
    BY <1>1, <1>4
  <2>4. QED
    BY <2>2, <2>3
<1>5. QED
  BY <1>3, <1>4

\* n is q times m and a remainder.
Splits(n, q, r, m) == q \in Nat /\ r \in 0 .. m - 1 /\ q * m + r = n

\* A power of two not below half the range is a multiple of it by a power of two.
LEMMA PowerAbove ==
    ASSUME NEW e \in Nat, e >= Width - 1
    PROVE  /\ e - (Width - 1) \in Nat
           /\ 2^(e - (Width - 1)) \in Nat /\ 2^(e - (Width - 1)) > 0
           /\ 2^e = HalfRange * 2^(e - (Width - 1))
<1>1. Width - 1 \in Nat /\ e - (Width - 1) \in Nat /\ e = (Width - 1) + (e - (Width - 1))
  BY WordRange, WidthAssumption, IRAssumption
<1>2. 2^e = 2^(Width - 1) * 2^(e - (Width - 1))
  BY <1>1, PowerSum
<1>3. QED
  BY <1>1, <1>2, WordRange, PowerPositive

\* While the loop goes on, neither quotient has reached half the range, so that
\* doubling does not wrap; and the one by the divisor comes next to it exactly only.
LEMMA GoesOn ==
    ASSUME NEW d \in Words, TakesMagic(d), NEW e \in Nat, e >= Width - 1,
           NEW u \in Int, NEW r \in Int, NEW v \in Int, NEW s \in Int,
           Splits(2^e, u, r, Anc(d)), Splits(2^e, v, s, Magnitude(d)),
           ~Enough(u, r, Magnitude(d) - s)
    PROVE  u < HalfRange /\ v < HalfRange /\ (v = HalfRange - 1 => s = 0)
<1> DEFINE H == HalfRange
           m == Magnitude(d)
           a == Anc(d)
           n == 2^e
           delta == m - s
           w == 2^(e - (Width - 1))
<1>1. /\ H \in Nat /\ H >= 4 /\ \E h \in Nat : H = 2 * h
      /\ m \in 2 .. H /\ a \in 2 .. H
      /\ \E c \in Nat : a + 1 = m * c
  BY WordRange, Divisor
<1>2. w \in Nat /\ n = H * w /\ (w # 1 => \E x \in Nat : w = 2 * x)
  BY PowerAbove, PowerEven
<1>3. /\ u \in Nat /\ r \in 0 .. a - 1 /\ u * a + r = n
      /\ v \in Nat /\ s \in 0 .. m - 1 /\ v * m + s = n
  BY DEF Splits
<1>4. u < delta \/ (u = delta /\ r = 0)
  BY DEF Enough
<1>5. (m = H => a = H - 1) /\ (a = H => \E c \in Nat : H + 1 = m * c)
  <2>1. m = H => a = H - 1
    <3>1. SUFFICES ASSUME m = H PROVE a = H - 1
      OBVIOUS
    <3>2. d = -H /\ Bound(d) = H + 1
      BY <1>1, <3>1 DEF Magnitude, Words, Bound
    <3>3. H + 1 = H * 1 + 1 /\ 1 \in 0 .. H - 1 /\ H > 0 /\ H + 1 \in Int
      BY <1>1
    <3>4. (H + 1) % H = 1
      BY <1>1, <3>3, DivUnique
    <3>5. Anc(d) = (H + 1) - 1 - ((H + 1) % H)
      BY <1>1, <3>1, <3>2 DEF Anc, Bound
    <3>6. QED
      BY <1>1, <3>4, <3>5
  <2>2. QED
    BY <1>1, <2>1
<1> HIDE DEF H, m, a, n, w
<1>6. delta \in 1 .. m /\ n \in Nat
  BY <1>1, <1>2, <1>3
<1>7. n =< a * delta
  <2>1. CASE u < delta
    <3>1. (u + 1) * a =< delta * a
      BY <1>1, <1>3, <1>6, <2>1
    <3>2. (u + 1) * a = u * a + a
      BY <1>1, <1>3
    <3>3. QED
      BY <1>1, <1>3, <1>6, <3>1, <3>2
  <2>2. CASE u = delta /\ r = 0
    BY <1>1, <1>3, <1>6, <2>2
  <2>3. QED
    BY <1>4, <2>1, <2>2
<1>8. u < H
  <2>1. SUFFICES ASSUME ~(u < H) PROVE FALSE
    OBVIOUS
  <2>2. u = H /\ delta = H /\ m = H /\ r = 0
    BY <1>1, <1>3, <1>4, <1>6, <2>1
  <2>3. H * (H - 1) = H * w
    BY <1>1, <1>2, <1>3, <1>5, <2>2
  <2>4. w = H - 1
    BY <1>1, <1>2, <2>3
  <2>5. QED
    BY <1>1, <1>2, <2>4
<1>9. v * m =< a * delta
  BY <1>1, <1>3, <1>6, <1>7
<1>10. a * delta =< a * m
  BY <1>1, <1>6
<1>11. v =< a
  <2>1. m * v =< m * a
    BY <1>1, <1>3, <1>6, <1>9, <1>10
  <2>2. QED
    BY <1>1, <1>3, <2>1
<1>12. v < H
  <2>1. SUFFICES ASSUME ~(v < H) PROVE FALSE
    OBVIOUS
  <2>2. v = H /\ a = H
    BY <1>1, <1>3, <1>11, <2>1
  <2>3. H * m =< H * delta
    BY <1>1, <1>3, <1>6, <1>9, <2>2
  <2>4. delta = m
    BY <1>1, <1>6, <2>3
  <2>5. s = 0
    BY <1>1, <1>3, <2>4
  <2>6. H * m = H * w
    BY <1>1, <1>2, <1>3, <2>2, <2>5
  <2>7. m = w
    BY <1>1, <1>2, <2>6
  <2>81. PICK x \in Nat : m = 2 * x
    BY <1>1, <1>2, <2>7
  <2>82. PICK c \in Nat : H + 1 = m * c
    BY <1>5, <2>2
  <2>83. PICK h \in Nat : H = 2 * h
    BY <1>1
  <2>8. m * c = 2 * (x * c)
    BY <2>81
  <2>9. 2 * h + 1 = 2 * (x * c)
    BY <2>8, <2>82, <2>83
  <2>10. x * c \in Nat
    OBVIOUS
  <2>11. QED
    BY <2>9, <2>10
<1>13. ASSUME v = H - 1 PROVE s = 0
  <2>1. SUFFICES ASSUME s >= 1 PROVE FALSE
    BY <1>3
  <2>2. a * delta =< H * delta
    BY <1>1, <1>6
  <2>3. (H - 1) * m + s =< H * (m - s)
    BY <1>1, <1>3, <1>6, <1>7, <1>13, <2>2
  <2>4. s * (H + 1) =< m
    BY <1>1, <1>3, <2>3
  <2>5. s * (H + 1) >= H + 1
    BY <1>1, <1>3, <2>1
  <2>6. QED
    BY <1>1, <1>3, <2>4, <2>5
<1>14. QED
  BY <1>8, <1>12, <1>13 DEF H

\* When it ends, the power is above what the extreme dividend needs.
LEMMA Ends ==
    ASSUME NEW a \in Nat, NEW n \in Nat, NEW u \in Int, NEW r \in Int, NEW delta \in Nat,
           Splits(n, u, r, a), Enough(u, r, delta)
    PROVE  a * delta < n
<1>1. u \in Nat /\ r \in 0 .. a - 1 /\ u * a + r = n
  BY DEF Splits
<1>2. u >= delta /\ ~(u = delta /\ r = 0)
  BY <1>1 DEF Enough
<1>3. CASE u = delta
  BY <1>1, <1>2, <1>3
<1>4. CASE u > delta
  <2>1. u * a >= (delta + 1) * a
    BY <1>1, <1>4
  <2>2. (delta + 1) * a = a * delta + a
    OBVIOUS
  <2>3. a > 0 /\ u * a \in Int /\ a * delta \in Int
    BY <1>1
  <2>4. QED
    BY <1>1, <2>1, <2>2, <2>3
<1>5. QED
  BY <1>1, <1>2, <1>3, <1>4

\* The invariant of the search.
IInv ==
    /\ k \in Words /\ running \in BOOLEAN
    /\ p \in Nat /\ p >= Width - 1
    /\ running => TakesMagic(k)
    /\ TakesMagic(k) => /\ Splits(2^p, q1, r1, Anc(k))
                        /\ Splits(2^p, q2, r2, Magnitude(k))
    /\ running => /\ q1 < HalfRange /\ q2 < HalfRange
                  /\ q2 = HalfRange - 1 => r2 = 0
    /\ (TakesMagic(k) /\ ~running) => /\ p >= Width /\ q2 + 1 < 2 * HalfRange
                                      /\ Anc(k) * (Magnitude(k) - r2) < 2^p

\* The first quotients are those of half the range.
LEMMA InitKeeps == Init => IInv
<1> SUFFICES ASSUME Init PROVE IInv
  OBVIOUS
<1> DEFINE H == HalfRange
<1>1. /\ k \in Words /\ p = Width - 1 /\ running = TakesMagic(k) /\ running \in BOOLEAN
      /\ H \in Nat /\ H >= 4 /\ H = 2^p
  BY WordRange DEF Init, TakesMagic
<1>2. p \in Nat /\ p >= Width - 1
  BY <1>1, WordRange, WidthAssumption
<1>3. ASSUME TakesMagic(k)
      PROVE  /\ Splits(H, q1, r1, Anc(k)) /\ Splits(H, q2, r2, Magnitude(k))
             /\ q1 < H - 1 /\ q2 < H - 1
  <2>1. q1 = H \div Anc(k) /\ r1 = H % Anc(k) /\ q2 = H \div Magnitude(k) /\ r2 = H % Magnitude(k)
    BY <1>1, <1>3 DEF Init
  <2>2. Anc(k) \in 2 .. H /\ Magnitude(k) \in 2 .. H
    BY <1>1, <1>3, Divisor
  <2>3. ASSUME NEW m \in 2 .. H
        PROVE  Splits(H, H \div m, H % m, m) /\ H \div m < H - 1
    <3> DEFINE q == H \div m
               r == H % m
    <3>0. H \in Int /\ m \in Nat /\ m > 0
      BY <1>1
    <3>1. q \in Int /\ r \in 0 .. m - 1 /\ H = m * q + r
      BY <3>0, DivMod
    <3> HIDE DEF H, q, r
    <3>2. q >= 0
      <4>1. m * q > -m
        BY <1>1, <2>3, <3>1
      <4>2. q < 0 => m * q =< -m
        BY <1>1, <2>3, <3>1
      <4>3. QED
        BY <1>1, <2>3, <3>1, <4>1, <4>2
    <3>3. 2 * q =< m * q
      BY <1>1, <2>3, <3>1, <3>2
    <3>4. q < H - 1 /\ q * m + r = H
      BY <1>1, <2>3, <3>1, <3>3
    <3>5. QED
      BY <3>1, <3>2, <3>4 DEF Splits, q, r
  <2>4. QED
    BY <2>1, <2>2, <2>3
<1>4. QED
  BY <1>1, <1>2, <1>3 DEF IInv, Splits

\* A round keeps the quotients exact, and when it is the last the power is large
\* enough while the multiplier still is an unsigned word.
LEMMA RoundKeeps == IInv /\ Round => IInv'
<1> SUFFICES ASSUME IInv, Round PROVE IInv'
  OBVIOUS
<1> DEFINE H == HalfRange
           a == Anc(k)
           m == Magnitude(k)
           x == Doubled(q1, r1, a)
           y == Doubled(q2, r2, m)
<1>1. /\ running /\ TakesMagic(k) /\ k \in Words /\ k' = k /\ p \in Nat /\ p >= Width - 1
      /\ Splits(2^p, q1, r1, a) /\ Splits(2^p, q2, r2, m)
      /\ q1 < H /\ q2 < H /\ (q2 = H - 1 => r2 = 0)
  BY DEF IInv, Round
<1>2. /\ p' = p + 1 /\ q1' = x.q /\ r1' = x.r /\ q2' = y.q /\ r2' = y.r
      /\ running' = ~Enough(x.q, x.r, Unsigned(m - y.r))
  BY DEF Round
<1>3. H \in Nat /\ a \in 2 .. H /\ m \in 2 .. H /\ Width \in Nat
  BY <1>1, WordRange, Divisor
<1>4. p' \in Nat /\ p' >= Width /\ 2^p' = 2 * 2^p /\ 2^p \in Nat /\ 2^p' \in Nat
  <2>1. p + 1 \in Nat /\ 2^(p + 1) = 2 * 2^p /\ 2^p \in Nat /\ 2^(p + 1) \in Nat
    BY <1>1, PowerNext, PowerPositive
  <2>2. QED
    BY <1>1, <1>2, <1>3, <2>1
<1>5. Splits(2^p', q1', r1', a)
  <2>1. q1 \in Nat /\ r1 \in 0 .. a - 1 /\ q1 * a + r1 = 2^p /\ a \in 1 .. H
    BY <1>1, <1>3 DEF Splits
  <2>2. /\ x.q \in {2 * q1, 2 * q1 + 1} /\ x.r \in 0 .. a - 1
        /\ x.q * a + x.r = 2 * (q1 * a + r1)
    BY <1>1, <2>1, DoubledExact
  <2>3. QED
    BY <1>2, <1>4, <2>1, <2>2 DEF Splits
<1>6. Splits(2^p', q2', r2', m) /\ q2' + 1 < 2 * H
  <2>1. q2 \in Nat /\ r2 \in 0 .. m - 1 /\ q2 * m + r2 = 2^p /\ m \in 1 .. H
    BY <1>1, <1>3 DEF Splits
  <2>2. /\ y.q \in {2 * q2, 2 * q2 + 1} /\ y.r \in 0 .. m - 1
        /\ y.q * m + y.r = 2 * (q2 * m + r2)
        /\ r2 = 0 => y.q = 2 * q2
    BY <1>1, <2>1, DoubledExact
  <2>3. y.q + 1 < 2 * H
    BY <1>1, <1>3, <2>1, <2>2
  <2>4. QED
    BY <1>2, <1>4, <2>1, <2>2, <2>3 DEF Splits
<1>7. Unsigned(m - y.r) = m - r2' /\ m - r2' \in Nat
  <2>1. r2' \in 0 .. m - 1
    BY <1>6 DEF Splits
  <2>2. m - r2' \in 0 .. 2 * H - 1 /\ m - r2' \in Nat
    BY <1>3, <2>1
  <2>3. QED
    BY <1>2, <2>2, UnsignedFits
<1>8. running' = ~Enough(q1', r1', m - r2') /\ running' \in BOOLEAN
  BY <1>2, <1>7 DEF Enough
<1>9. q1' \in Int /\ r1' \in Int /\ q2' \in Int /\ r2' \in Int
  BY <1>5, <1>6 DEF Splits
<1>10. running' => q1' < H /\ q2' < H /\ (q2' = H - 1 => r2' = 0)
  <2>1. p' >= Width - 1
    BY <1>3, <1>4
  <2>2. SUFFICES ASSUME ~Enough(q1', r1', m - r2')
                 PROVE  q1' < H /\ q2' < H /\ (q2' = H - 1 => r2' = 0)
    BY <1>8
  <2>3. QED
    BY <1>1, <1>4, <1>5, <1>6, <1>9, <2>1, <2>2, GoesOn
<1>11. ~running' => a * (m - r2') < 2^p'
  <2>1. 2^p' \in Nat
    BY <1>4
  <2>2. a \in Nat
    BY <1>3
  <2>3. QED
    BY <1>5, <1>7, <1>8, <1>9, <2>1, <2>2, Ends
<1>12. p' >= Width - 1
  BY <1>3, <1>4
<1>13. QED
  BY <1>1, <1>4, <1>5, <1>6, <1>8, <1>10, <1>11, <1>12 DEF IInv

\* The invariant holds throughout the search, at every width.
THEOREM Invariant == Spec => []IInv
<1>1. Init => IInv
  BY InitKeeps
<1>2. IInv /\ [Next]_vars => IInv'
  <2> SUFFICES ASSUME IInv, [Next]_vars PROVE IInv'
    OBVIOUS
  <2>1. CASE Round
    BY <2>1, RoundKeeps
  <2>2. CASE UNCHANGED vars
    BY <2>2 DEF vars, IInv, Splits
  <2>3. QED
    BY <2>1, <2>2 DEF Next, Emitted
<1>3. QED
  BY <1>1, <1>2, PTL DEF Spec

\* The unsigned variables of computeDivMagic never wrap around: at any width of a word
\* they are the exact quotients and remainders of 2^p in every round.
THEOREM SearchExact == Spec => []DividesThePower
<1>1. IInv => DividesThePower
  BY DEF IInv, DividesThePower, Splits
<1>2. QED
  BY <1>1, Invariant, PTL

-----------------------------------------------------------------------------
(* Arithmetic that wraps around. *)

\* Wrapping an operand first changes nothing.
LEMMA WrapInner ==
    ASSUME NEW m \in Int, NEW n \in Int
    PROVE  /\ Wrap(m + Wrap(n)) = Wrap(m + n)
           /\ Wrap(m - Wrap(n)) = Wrap(m - n)
           /\ Wrap(Wrap(n) * m) = Wrap(n * m)
<1> DEFINE b == 2 * HalfRange
<1>1. PICK j \in Int : Wrap(n) = n + b * j
  BY WrapWord
<1>2. b \in Int
  BY WordRange
<1> HIDE DEF b
<1>3. Wrap(n) \in Int
  BY <1>1, <1>2
<1>4. Wrap(m + Wrap(n)) = Wrap(m + n)
  <2>1. m + Wrap(n) = (m + n) + b * j /\ m + n \in Int
    BY <1>1, <1>2
  <2>2. QED
    BY <2>1, WrapShift DEF b
<1>5. Wrap(m - Wrap(n)) = Wrap(m - n)
  <2>1. m - Wrap(n) = (m - n) + b * (-j) /\ m - n \in Int /\ -j \in Int
    BY <1>1, <1>2
  <2>2. QED
    BY <2>1, WrapShift DEF b
<1>6. Wrap(Wrap(n) * m) = Wrap(n * m)
  <2>1. Wrap(n) * m = (n * m) + b * (j * m) /\ n * m \in Int /\ j * m \in Int
    BY <1>1, <1>2
  <2>2. QED
    BY <2>1, WrapShift DEF b
<1>7. QED
  BY <1>4, <1>5, <1>6

\* A logical shift by all but one place gives the sign.
LEMMA SignBit ==
    ASSUME NEW v \in Words
    PROVE  Srli(v, Width - 1) = IF v < 0 THEN 1 ELSE 0
<1> DEFINE H == HalfRange
<1>1. H \in Nat /\ H >= 4 /\ 2^(Width - 1) = H
  BY WordRange
<1>2. v \in Int /\ -H =< v /\ v < H
  BY <1>1 DEF Words
<1>3. CASE v < 0
  <2>1. Unsigned(v) = v + 2 * H
    <3>1. v + 2 * H \in 0 .. 2 * H - 1 /\ 2 * H \in Nat /\ 2 * H > 0 /\ v = (2 * H) * (-1) + (v + 2 * H)
      BY <1>1, <1>2, <1>3
    <3>2. v % (2 * H) = v + 2 * H
      <4> DEFINE b == 2 * H
                 s == v + 2 * H
      <4>1. b \in Nat /\ b > 0 /\ s \in 0 .. b - 1 /\ v = b * (-1) + s /\ -1 \in Int
        BY <3>1
      <4> HIDE DEF b, s
      <4>2. v % b = s
        BY <1>2, <4>1, DivUnique
      <4>3. QED
        BY <4>2 DEF b, s
    <3>3. QED
      BY <3>2 DEF Unsigned
  <2>2. (v + 2 * H) \div H = 1
    <3>1. v + 2 * H = H * 1 + (v + H) /\ v + H \in 0 .. H - 1 /\ v + 2 * H \in Int /\ H > 0
      BY <1>1, <1>2, <1>3
    <3> HIDE DEF H
    <3>2. QED
      BY <1>1, <3>1, DivUnique
  <2>3. 1 \in Words
    BY <1>1 DEF Words
  <2>4. QED
    BY <1>1, <1>3, <2>1, <2>2, <2>3, WrapFits DEF Srli
<1>4. CASE ~(v < 0)
  <2>1. Unsigned(v) = v
    BY <1>1, <1>2, <1>4, UnsignedFits
  <2>2. v \div H = 0
    <3>1. v = H * 0 + v /\ v \in 0 .. H - 1 /\ H > 0
      BY <1>1, <1>2, <1>4
    <3> HIDE DEF H
    <3>2. QED
      BY <1>1, <3>1, DivUnique
  <2>3. 0 \in Words
    BY <1>1 DEF Words
  <2>4. QED
    BY <1>1, <1>4, <2>1, <2>2, <2>3, WrapFits DEF Srli
<1>5. QED
  BY <1>3, <1>4

-----------------------------------------------------------------------------
(* Division by multiplication. *)

\* f is a multiplier for the divisor m: the power N by m, rounded up by the error e.
Multiplies(f, m, N, e) ==
    /\ f \in Nat /\ m \in Nat /\ N \in Nat /\ m >= 2 /\ N > 0
    /\ e \in 1 .. m /\ f * m = N + e

\* A product with the multiplier is the quotient and a part that is too small to count
\* as long as the error, times the dividend, stays below the power.
LEMMA ProductOver ==
    ASSUME NEW f, NEW m, NEW N, NEW e, Multiplies(f, m, N, e),
           NEW n \in Nat, NEW q, NEW r, Splits(n, q, r, m)
    PROVE  /\ q * N =< n * f
           /\ n > 0 => q * N < n * f
           /\ n * e < (m - r) * N => n * f < (q + 1) * N
           /\ n * e =< (m - r) * N => n * f =< (q + 1) * N
<1>1. f \in Nat /\ m \in Nat /\ N \in Nat /\ m >= 2 /\ N > 0 /\ e \in 1 .. m /\ f * m = N + e
  BY DEF Multiplies
<1>2. q \in Nat /\ r \in 0 .. m - 1 /\ n = m * q + r
  BY <1>1 DEF Splits
<1>5. m * (n * f) = n * N + n * e
  <2>1. m * (n * f) = n * (f * m)
    BY <1>1
  <2>2. n * (N + e) = n * N + n * e
    BY <1>1
  <2>3. QED
    BY <1>1, <2>1, <2>2
<1>6. n * N = m * (q * N) + r * N
  <2>1. (m * q + r) * N = m * (q * N) + r * N
    BY <1>1, <1>2
  <2>2. QED
    BY <1>2, <2>1
<1> DEFINE A == n * f
           B == q * N
           C == r * N
           D == n * e
<1>7. A \in Int /\ B \in Int /\ C \in Int /\ D \in Int /\ C >= 0 /\ D >= 0 /\ (n > 0 => D > 0)
  BY <1>1, <1>2
<1>8. m * A = m * B + C + D
  BY <1>5, <1>6, <1>1, <1>7
<1>9. (m - r) * N = m * N - C /\ (q + 1) * N = B + N /\ m * (B + N) = m * B + m * N
  BY <1>1, <1>2
<1> HIDE DEF A, B, C, D
<1>10. m * B =< m * A /\ (n > 0 => m * B < m * A)
  BY <1>1, <1>7, <1>8
<1>11. B =< A /\ (n > 0 => B < A)
  BY <1>1, <1>7, <1>10
<1>12. D < (m - r) * N => A < (q + 1) * N
  <2>1. SUFFICES ASSUME D < m * N - C PROVE A < B + N
    BY <1>9
  <2>2. m * A < m * (B + N)
    BY <1>1, <1>7, <1>8, <1>9, <2>1
  <2>3. QED
    BY <1>1, <1>7, <2>2
<1>13. D =< (m - r) * N => A =< (q + 1) * N
  <2>1. SUFFICES ASSUME D =< m * N - C PROVE A =< B + N
    BY <1>9
  <2>2. m * A =< m * (B + N)
    BY <1>1, <1>7, <1>8, <1>9, <2>1
  <2>3. QED
    BY <1>1, <1>7, <2>2
<1>14. QED
  BY <1>11, <1>12, <1>13 DEF A, B, D

\* So it is for every dividend up to less than one divisor after the extreme one ...
LEMMA ErrorSmall ==
    ASSUME NEW f, NEW m, NEW N, NEW e, Multiplies(f, m, N, e),
           NEW a \in Nat, m - 1 =< a, NEW c \in Nat, a + 1 = m * c, a * e < N,
           NEW n \in Nat, n < a + m, NEW q, NEW r, Splits(n, q, r, m)
    PROVE  n * e < (m - r) * N
<1>1. m \in Nat /\ N \in Nat /\ m >= 2 /\ N > 0 /\ e \in 1 .. m
  BY DEF Multiplies
<1>2. q \in Nat /\ r \in 0 .. m - 1 /\ n = m * q + r
  BY <1>1 DEF Splits
<1>3. n > a => r = n - a - 1
  <2>1. SUFFICES ASSUME n > a PROVE r = n - a - 1
    OBVIOUS
  <2>2. n - a - 1 \in 0 .. m - 1 /\ n = m * c + (n - a - 1) /\ m > 0
    BY <1>1, <2>1
  <2>3. m * (q - c) = (n - a - 1) - r /\ q - c \in Int
    BY <1>1, <1>2, <2>2
  <2>4. m * (q - c) < m /\ -m < m * (q - c)
    BY <1>1, <1>2, <2>2, <2>3
  <2>5. q - c = 0
    BY <1>1, <2>3, <2>4, SmallMultiple
  <2>6. QED
    BY <1>1, <1>2, <2>3, <2>5
<1>4. CASE n =< a
  <2>1. n * e =< a * e
    BY <1>1, <1>4
  <2>2. N =< (m - r) * N
    BY <1>1, <1>2
  <2>3. n * e \in Int /\ a * e \in Int /\ (m - r) * N \in Int
    BY <1>1, <1>2
  <2>4. QED
    BY <1>1, <2>1, <2>2, <2>3
<1>5. CASE n > a
  <2>1. r = n - a - 1 /\ r =< m - 2
    BY <1>1, <1>3, <1>5
  <2>2. n * e = a * e + (r + 1) * e
    BY <1>1, <2>1
  <2>3. (r + 1) * e =< a * e
    BY <1>1, <1>2, <2>1
  <2>4. 2 * N =< (m - r) * N
    BY <1>1, <1>2, <2>1
  <2>5. n * e \in Int /\ a * e \in Int /\ (r + 1) * e \in Int /\ (m - r) * N \in Int
    BY <1>1, <1>2
  <2>6. QED
    BY <1>1, <2>2, <2>3, <2>4, <2>5
<1>6. QED
  BY <1>4, <1>5

\* ... and, short of equality, for the least word, which lies one divisor after it when
\* the range ends just before a multiple of the divisor.
LEMMA ErrorLeastWord ==
    ASSUME NEW f, NEW m, NEW N, NEW e, Multiplies(f, m, N, e),
           NEW n \in Nat, NEW w \in Nat, w > 0, N = n * w,
           NEW q, NEW r, Splits(n, q, r, m), r = m - 1
    PROVE  n * e =< (m - r) * N
<1>1. f \in Nat /\ m \in Nat /\ N \in Nat /\ m >= 2 /\ e \in 1 .. m /\ f * m = n * w + e
  BY DEF Multiplies
<1>2. q \in Nat /\ n + 1 = m * (q + 1)
  BY <1>1 DEF Splits
<1>3. e =< w
  <2>1. SUFFICES ASSUME e > w PROVE FALSE
    BY <1>1
  <2>2. m * (f - (q + 1) * w) = e - w
    <3>1. m * (f - (q + 1) * w) = f * m - (m * (q + 1)) * w
      BY <1>1, <1>2
    <3>2. (n + 1) * w = n * w + w
      OBVIOUS
    <3>3. n * w \in Int
      OBVIOUS
    <3>4. QED
      BY <1>1, <1>2, <3>1, <3>2, <3>3
  <2>3. f - (q + 1) * w \in Int /\ m * (f - (q + 1) * w) < m /\ -m < m * (f - (q + 1) * w)
    BY <1>1, <1>2, <2>1, <2>2
  <2>4. f - (q + 1) * w = 0
    BY <1>1, <2>3, SmallMultiple
  <2>5. QED
    BY <1>1, <2>1, <2>2, <2>4
<1>4. n * e =< n * w
  BY <1>1, <1>3
<1>5. (m - r) * N = N
  BY <1>1
<1>6. QED
  BY <1>4, <1>5

\* Division of a product by the power gives the quotient; of its negation, one less than
\* the negated quotient.
LEMMA ProductDivided ==
    ASSUME NEW f, NEW m, NEW N, NEW e, Multiplies(f, m, N, e),
           NEW n \in Nat, NEW q, NEW r, Splits(n, q, r, m)
    PROVE  /\ n * e < (m - r) * N => (n * f) \div N = q
           /\ (n > 0 /\ n * e =< (m - r) * N) => (-(n * f)) \div N = -q - 1
<1>1. f \in Nat /\ m \in Nat /\ N \in Nat /\ N > 0 /\ q \in Nat
  BY DEF Multiplies, Splits
<1> DEFINE A == n * f
           B == q * N
<1>2. /\ A \in Int /\ B \in Int /\ (q + 1) * N = B + N
      /\ N * q = B /\ N * (-q - 1) = -B - N
  BY <1>1
<1>3. /\ B =< A
      /\ n > 0 => B < A
      /\ n * e < (m - r) * N => A < B + N
      /\ n * e =< (m - r) * N => A =< B + N
  BY <1>2, ProductOver
<1> HIDE DEF A, B
<1>4. ASSUME n * e < (m - r) * N PROVE A \div N = q
  <2>1. A = N * q + (A - B) /\ A - B \in 0 .. N - 1 /\ q \in Int
    BY <1>1, <1>2, <1>3, <1>4
  <2>2. QED
    BY <1>1, <1>2, <2>1, DivUnique
<1>5. ASSUME n > 0, n * e =< (m - r) * N PROVE (-A) \div N = -q - 1
  <2>1. /\ -A = N * (-q - 1) + (B + N - A) /\ B + N - A \in 0 .. N - 1
        /\ -q - 1 \in Int /\ -A \in Int
    BY <1>1, <1>2, <1>3, <1>5
  <2>2. QED
    BY <1>1, <2>1, DivUnique
<1>6. QED
  BY <1>4, <1>5 DEF A

\* When the search has ended, its quotient plus one is a multiplier for the divisor.
LEMMA Found ==
    ASSUME IInv, ~running, TakesMagic(k)
    PROVE  /\ q2 + 1 \in 1 .. 2 * HalfRange - 1
           /\ Multiplies(q2 + 1, Magnitude(k), 2^p, Magnitude(k) - r2)
           /\ Anc(k) * (Magnitude(k) - r2) < 2^p
           /\ Shift \in Nat /\ 2^Shift \in Nat /\ 2^Shift > 0
           /\ 2^p = (2 * HalfRange) * 2^Shift
           /\ \E w \in Nat : w > 0 /\ 2^p = HalfRange * w
<1> DEFINE m == Magnitude(k)
<1>1. /\ k \in Words /\ p \in Nat /\ p >= Width /\ q2 + 1 < 2 * HalfRange
      /\ Anc(k) * (m - r2) < 2^p
      /\ q2 \in Nat /\ r2 \in 0 .. m - 1 /\ q2 * m + r2 = 2^p
  BY DEF IInv, Splits
<1>2. m \in 2 .. HalfRange /\ HalfRange \in Nat
  BY <1>1, Divisor, WordRange
<1>3. Shift \in Nat /\ Width \in Nat /\ p = Width + Shift
  BY <1>1, WordRange DEF Shift
<1>4. 2^Shift \in Nat /\ 2^Shift > 0 /\ 2^p \in Nat /\ 2^p > 0
  BY <1>1, <1>3, PowerPositive
<1>5. 2^p = (2 * HalfRange) * 2^Shift
  BY <1>3, PowerSum, WordRange
<1>6. \E w \in Nat : w > 0 /\ 2^p = HalfRange * w
  <2>1. p >= Width - 1
    BY <1>1, <1>3
  <2>2. QED
    BY <1>1, <2>1, PowerAbove
<1>7. (q2 + 1) * m = 2^p + (m - r2) /\ m - r2 \in 1 .. m /\ m \in Nat /\ m >= 2 /\ q2 + 1 \in Nat
  <2> HIDE DEF m
  <2>1. QED
    BY <1>1, <1>2
<1>8. Multiplies(q2 + 1, m, 2^p, m - r2)
  BY <1>4, <1>7 DEF Multiplies
<1>9. QED
  BY <1>1, <1>2, <1>3, <1>4, <1>5, <1>6, <1>8

\* Its error is small enough for every dividend; for the least word by a positive divisor
\* it may just be.
LEMMA FoundSmall ==
    ASSUME IInv, ~running, TakesMagic(k), NEW n \in 0 .. HalfRange, NEW q, NEW r,
           Splits(n, q, r, Magnitude(k))
    PROVE  /\ n * (Magnitude(k) - r2) =< (Magnitude(k) - r) * 2^p
           /\ n < Bound(k) => n * (Magnitude(k) - r2) < (Magnitude(k) - r) * 2^p
<1> DEFINE m == Magnitude(k)
           e == m - r2
           N == 2^p
           a == Anc(k)
<1>1. /\ Multiplies(q2 + 1, m, N, e) /\ a * e < N
      /\ \E w \in Nat : w > 0 /\ N = HalfRange * w
  BY Found
<1>2. k \in Words
  BY DEF IInv
<1>3. /\ m \in 2 .. HalfRange /\ a \in 2 .. HalfRange /\ HalfRange \in Nat
      /\ Bound(k) - m =< a /\ m - 1 =< a
      /\ \E c \in Nat : a + 1 = m * c
      /\ Bound(k) \in Nat /\ HalfRange =< Bound(k)
  <2>1. Bound(k) \in Nat /\ HalfRange =< Bound(k)
    BY <1>2, WordRange DEF Bound
  <2>2. QED
    BY <1>2, <2>1, Divisor, WordRange
<1>4. q \in Nat /\ r \in 0 .. m - 1 /\ q * m + r = n
  BY DEF Splits
<1>5. n \in Nat /\ a \in Nat /\ e \in Int /\ N \in Nat
  BY <1>1, <1>3 DEF Multiplies
<1> HIDE DEF m, e, N, a
<1>6. n < a + m => n * e < (m - r) * N
  <2>1. PICK c \in Nat : a + 1 = m * c
    BY <1>3
  <2>2. QED
    BY <1>1, <1>3, <1>5, <2>1, ErrorSmall DEF m
<1>7. n < Bound(k) => n < a + m
  BY <1>3, <1>5
<1>8. n * e \in Int /\ (m - r) * N \in Int
  BY <1>3, <1>4, <1>5
<1>9. ASSUME ~(n < a + m) PROVE n * e =< (m - r) * N
  <2>1. n = HalfRange /\ n = a + m
    BY <1>3, <1>5, <1>7, <1>9
  <2>2. r = m - 1
    <3>1. PICK c \in Nat : a + 1 = m * c
      BY <1>3
    <3>2. m * (q - c) = (m - 1) - r /\ q - c \in Int /\ m \in Nat
      BY <1>3, <1>4, <1>5, <2>1, <3>1
    <3>3. m * (q - c) < m /\ -m < m * (q - c)
      BY <1>3, <1>4, <3>2
    <3>4. q - c = 0
      BY <3>2, <3>3, SmallMultiple
    <3>5. QED
      BY <1>3, <1>4, <3>2, <3>4
  <2>3. PICK w \in Nat : w > 0 /\ N = n * w
    BY <1>1, <2>1
  <2>4. QED
    BY <1>1, <1>5, <2>2, <2>3, ErrorLeastWord DEF m
<1>10. QED
  BY <1>6, <1>7, <1>8, <1>9 DEF m, e, N

\* The multiplier with the sign of the divisor.  It may not fit a word.
Signed == IF k < 0 THEN -(q2 + 1) ELSE q2 + 1

\* Multiplication by it and division by the power gives the quotient, but one less if
\* the quotient is rounded up to it.
LEMMA Rounded ==
    ASSUME IInv, ~running, TakesMagic(k), NEW x \in Words
    PROVE  (x * Signed) \div 2^p
              = Quotient(x, k) - (IF x # 0 /\ (x < 0) # (k < 0) THEN 1 ELSE 0)
<1> DEFINE m == Magnitude(k)
           e == m - r2
           N == 2^p
           f == q2 + 1
           n == Magnitude(x)
           q == n \div m
           r == n % m
           H == HalfRange
<1>1. Multiplies(f, m, N, e)
  BY Found
<1>2. k \in Words /\ x \in Words
  BY DEF IInv
<1>3. /\ H \in Nat /\ x \in Int /\ k \in Int /\ k # 0 /\ -H =< x /\ x < H
      /\ n \in 0 .. H /\ x = (IF x < 0 THEN -n ELSE n)
      /\ Bound(k) = IF k < 0 THEN H + 1 ELSE H
  BY <1>2, WordRange DEF Words, TakesMagic, Magnitude, Bound
<1>4. Quotient(x, k) = IF (x < 0) = (k < 0) THEN q ELSE -q
  BY DEF Quotient
<1>5. Signed = IF k < 0 THEN -f ELSE f
  BY DEF Signed
<1>6. f \in Nat /\ m \in Nat /\ m > 0 /\ N \in Nat /\ N > 0 /\ n \in Nat /\ e \in Int
  BY <1>1, <1>3 DEF Multiplies
<1>7. q \in Nat /\ Splits(n, q, r, m)
  <2>1. q \in Nat
    BY <1>2, <1>3, QuotientWord
  <2>2. r \in 0 .. m - 1 /\ n = m * q + r
    <3> HIDE DEF m, n
    <3>1. QED
      BY <1>6, DivMod
  <2>3. q * m + r = n
    <3> HIDE DEF m, n, q, r
    <3>1. QED
      BY <1>6, <2>1, <2>2
  <2>4. QED
    BY <2>1, <2>2, <2>3 DEF Splits
<1>8. n * e =< (m - r) * N /\ (n < Bound(k) => n * e < (m - r) * N)
  BY <1>3, <1>7, FoundSmall
<1> HIDE DEF m, e, N, f, n, q, r, H
<1>9. (n < Bound(k) => (n * f) \div N = q) /\ (n > 0 => (-(n * f)) \div N = -q - 1)
  BY <1>1, <1>6, <1>7, <1>8, ProductDivided
<1>10. n = 0 => q = 0
  <2>1. SUFFICES ASSUME n = 0 PROVE q = 0
    OBVIOUS
  <2>2. (0 * f) \div N = q /\ 0 * f = 0
    BY <1>3, <1>6, <1>9, <2>1
  <2>3. 0 \div N = 0
    BY <1>6, DivUnique
  <2>4. QED
    BY <2>2, <2>3
<1>11. CASE (x < 0) = (k < 0)
  <2>1. x * Signed = n * f
    BY <1>3, <1>5, <1>6, <1>11
  <2>2. n < Bound(k)
    BY <1>3, <1>6, <1>11
  <2>3. QED
    BY <1>4, <1>7, <1>9, <1>11, <2>1, <2>2 DEF N
<1>12. CASE x # 0 /\ (x < 0) # (k < 0)
  <2>1. x * Signed = -(n * f)
    BY <1>3, <1>5, <1>6, <1>12
  <2>2. n > 0
    BY <1>3, <1>6, <1>12
  <2>3. QED
    BY <1>4, <1>7, <1>9, <1>12, <2>1, <2>2 DEF N
<1>13. CASE x = 0 /\ (x < 0) # (k < 0)
  <2>1. n = 0 /\ x * Signed = 0
    BY <1>3, <1>5, <1>6, <1>13
  <2>2. 0 \div N = 0
    BY <1>6, DivUnique
  <2>3. QED
    BY <1>4, <1>10, <1>13, <2>1, <2>2 DEF N
<1>14. QED
  BY <1>11, <1>12, <1>13

\* The word in its place: the multiplier itself, or one range away from it when the
\* marker asks for a correction.
LEMMA MultiplierWord ==
    ASSUME IInv, ~running, TakesMagic(k)
    PROVE  /\ Multiplier \in Words
           /\ Multiplier = IF AddMarker(k, Multiplier)
                           THEN IF k > 0 THEN Signed - 2 * HalfRange ELSE Signed + 2 * HalfRange
                           ELSE Signed
<1> DEFINE H == HalfRange
           f == q2 + 1
           m == Wrap(f)
<1>1. H \in Nat /\ H >= 4 /\ k \in Int /\ k # 0 /\ f \in 1 .. 2 * H - 1
  BY WordRange, Found DEF IInv, Words, TakesMagic
<1>2. Words = -H .. H - 1
  BY DEF Words
<1>3. Multiplier = IF k < 0 THEN Wrap(-m) ELSE m
  BY DEF Multiplier
<1>4. Signed = IF k < 0 THEN -f ELSE f
  BY DEF Signed
<1>5. AddMarker(k, Multiplier) <=> ((k > 0 /\ Multiplier < 0) \/ (k < 0 /\ Multiplier > 0))
  BY DEF AddMarker
<1>6. m = IF f < H THEN f ELSE f - 2 * H
  <2>1. CASE f < H
    <3>1. f \in Words
      BY <1>1, <1>2, <2>1
    <3>2. QED
      BY <2>1, <3>1, WrapFits
  <2>2. CASE ~(f < H)
    <3>1. f - 2 * H \in Words
      BY <1>1, <1>2, <2>2
    <3>2. f \in Int /\ -1 \in Int
      BY <1>1
    <3>3. Wrap(f + (2 * H) * (-1)) = Wrap(f)
      BY <3>2, WrapShift
    <3>4. f + (2 * H) * (-1) = f - 2 * H
      <4> HIDE DEF f, H
      <4>1. QED
        BY <1>1
    <3>5. Wrap(f) = Wrap(f - 2 * H)
      BY <3>3, <3>4
    <3>6. QED
      BY <2>2, <3>1, <3>5, WrapFits
  <2>3. QED
    BY <2>1, <2>2
<1>7. Wrap(H) = -H
  <2>1. -H \in Words
    BY <1>1, <1>2
  <2>2. Wrap(H + (2 * H) * (-1)) = Wrap(H) /\ H + (2 * H) * (-1) = -H
    BY <1>1, WrapShift
  <2>3. QED
    BY <2>1, <2>2, WrapFits
<1> DEFINE g == AddMarker(k, Multiplier)
           u == Multiplier
           v == Signed
<1> HIDE DEF H, f, m, g, u, v
<1>8. CASE k > 0
  <2>0. u = m /\ v = f /\ ~(k < 0)
    BY <1>1, <1>3, <1>4, <1>8 DEF u, v
  <2>01. g <=> u < 0
    BY <1>5, <1>8, <2>0 DEF g, u
  <2>1. u = m /\ v = f /\ (g <=> m < 0)
    BY <2>0, <2>01
  <2>2. /\ u \in -H .. H - 1
        /\ g => u = v - 2 * H
        /\ ~g => u = v
    BY <1>1, <1>6, <2>1
  <2>3. QED
    BY <1>2, <1>8, <2>2 DEF g, u, v, H
<1>9. CASE k < 0
  <2>01. u = Wrap(-m) /\ v = -f /\ m \in Int /\ ~(k > 0)
    BY <1>1, <1>3, <1>4, <1>6, <1>9 DEF u, v
  <2>02. g <=> u > 0
    BY <1>5, <1>9, <2>01 DEF g, u
  <2>0. u = Wrap(-m) /\ v = -f /\ (g <=> u > 0) /\ m \in Int
    BY <2>01, <2>02
  <2>1. CASE f = H
    <3>1. m = -H /\ -m = H
      BY <1>1, <1>6, <2>1
    <3>2. u = -H
      BY <1>7, <2>0, <3>1 DEF H
    <3>3. /\ u \in -H .. H - 1
          /\ g => u = v + 2 * H
          /\ ~g => u = v
      BY <1>1, <1>2, <2>0, <2>1, <3>2
    <3>4. QED
      BY <1>1, <1>2, <1>9, <3>3 DEF g, u, v, H
  <2>2. CASE f # H
    <3>1. -m \in Words
      BY <1>1, <1>2, <1>6, <2>2
    <3>2. Wrap(-m) = -m
      BY <3>1, WrapFits
    <3>3. /\ u \in -H .. H - 1
          /\ g => u = v + 2 * H
          /\ ~g => u = v
      BY <1>1, <1>2, <1>6, <2>0, <2>2, <3>1, <3>2
    <3>4. QED
      BY <1>1, <1>2, <1>9, <3>3 DEF g, u, v, H
  <2>3. QED
    BY <2>1, <2>2
<1>10. QED
  BY <1>1, <1>8, <1>9

\* The high word of a product by a number less than the range away from 0 is a word.
LEMMA HighWord ==
    ASSUME NEW x \in Words, NEW s \in Int, -(2 * HalfRange) < s, s < 2 * HalfRange
    PROVE  (x * s) \div (2 * HalfRange) \in Words
<1> DEFINE H == HalfRange
           b == 2 * H
           y == (x * s) \div b
           z == (x * s) % b
<1>1. H \in Nat /\ H > 0 /\ x \in Int /\ -H =< x /\ x < H /\ Words = -H .. H - 1
  BY WordRange DEF Words
<1>2. b \in Nat /\ b > 0 /\ b = 2 * H /\ -b < s /\ s < b
  BY <1>1
<1>3. x * s \in Int
  BY <1>1
<1> HIDE DEF H, b
<1>4. y \in Int /\ z \in 0 .. b - 1 /\ x * s = b * y + z
  BY <1>2, <1>3, DivMod
<1> HIDE DEF y, z
<1>5. -(H * b) < x * s /\ x * s < H * b
  <2>1. CASE x >= 0 /\ s >= 0
    <3>1. x * s =< H * s /\ H * s < H * b /\ 0 =< x * s /\ 0 < H * b
      BY <1>1, <1>2, <2>1
    <3>2. QED
      BY <1>1, <1>2, <1>3, <3>1
  <2>2. CASE x >= 0 /\ s < 0
    <3>1. x * (-s) =< H * (-s) /\ H * (-s) < H * b /\ 0 =< x * (-s) /\ 0 < H * b
      BY <1>1, <1>2, <2>2
    <3>2. x * (-s) = -(x * s)
      BY <1>1
    <3>3. QED
      BY <1>1, <1>2, <1>3, <3>1, <3>2
  <2>3. CASE x < 0 /\ s >= 0
    <3>1. (-x) * s =< H * s /\ H * s < H * b /\ 0 =< (-x) * s /\ 0 < H * b
      BY <1>1, <1>2, <2>3
    <3>2. (-x) * s = -(x * s)
      BY <1>1
    <3>3. QED
      BY <1>1, <1>2, <1>3, <3>1, <3>2
  <2>4. CASE x < 0 /\ s < 0
    <3>1. (-x) * (-s) =< H * (-s) /\ H * (-s) < H * b /\ 0 =< (-x) * (-s) /\ 0 < H * b
      BY <1>1, <1>2, <2>4
    <3>2. (-x) * (-s) = x * s
      BY <1>1
    <3>3. QED
      BY <1>1, <1>2, <1>3, <3>1, <3>2
  <2>5. QED
    BY <1>1, <2>1, <2>2, <2>3, <2>4
<1>6. y < H
  <2>1. SUFFICES ASSUME y >= H PROVE FALSE
    BY <1>1, <1>4
  <2>2. b * y >= H * b
    BY <1>1, <1>2, <1>4, <2>1
  <2>3. QED
    BY <1>1, <1>2, <1>3, <1>4, <1>5, <2>2
<1>7. y >= -H
  <2>1. SUFFICES ASSUME y + 1 =< -H PROVE FALSE
    BY <1>1, <1>4
  <2>2. b * (y + 1) =< b * (-H)
    BY <1>1, <1>2, <1>4, <2>1
  <2>3. b * (y + 1) = b * y + b /\ b * (-H) = -(H * b)
    BY <1>1, <1>2, <1>4
  <2>4. QED
    BY <1>1, <1>2, <1>3, <1>4, <1>5, <2>2, <2>3
<1>8. QED
  BY <1>1, <1>4, <1>6, <1>7 DEF y, b, H

\* mulh and the correction leave the high word of the product with the multiplier.
LEMMA Corrected ==
    ASSUME IInv, ~running, TakesMagic(k), NEW x \in Words
    PROVE  /\ (x * Signed) \div (2 * HalfRange) \in Words
           /\ AddMarker(k, Multiplier) /\ k > 0 =>
                 Add(Mulh(x, Multiplier), x) = (x * Signed) \div (2 * HalfRange)
           /\ AddMarker(k, Multiplier) /\ k < 0 =>
                 Sub(Mulh(x, Multiplier), x) = (x * Signed) \div (2 * HalfRange)
           /\ ~AddMarker(k, Multiplier) =>
                 Mulh(x, Multiplier) = (x * Signed) \div (2 * HalfRange)
<1> DEFINE b == 2 * HalfRange
           f == Multiplier
           s == Signed
           y == (x * s) \div b
<1>1. b \in Nat /\ b > 0 /\ b = 2^Width
  BY WordRange
<1>2. s \in Int /\ -b < s /\ s < b
  BY Found, WordRange DEF Signed
<1>3. x \in Int
  BY WordRange DEF Words
<1>4. y \in Words
  BY <1>2, HighWord
<1>5. f = IF AddMarker(k, f) THEN IF k > 0 THEN s - b ELSE s + b ELSE s
  BY MultiplierWord
<1>6. Mulh(x, f) = (x * f) \div b
  BY <1>1 DEF Mulh
<1>7. y \in Int
  BY <1>4, WordRange DEF Words
<1> HIDE DEF s, f
<1>8. ASSUME f = s - b PROVE Add(Mulh(x, f), x) = y
  <2>1. x * f = x * s + b * (-x)
    <3> HIDE DEF b
    <3>1. QED
      BY <1>1, <1>2, <1>3, <1>8
  <2>2. x * s \in Int /\ -x \in Int
    BY <1>2, <1>3
  <2>3. (x * s + b * (-x)) \div b = (x * s) \div b + (-x)
    <3> HIDE DEF b
    <3>1. QED
      BY <1>1, <2>2, DivShift
  <2>4. Mulh(x, f) = y + (-x)
    BY <1>6, <2>1, <2>3
  <2>5. Mulh(x, f) + x = y
    <3> HIDE DEF y
    <3>1. QED
      BY <1>3, <1>7, <2>4
  <2>6. QED
    BY <1>4, <2>5, WrapFits DEF Add
<1>9. ASSUME f = s + b PROVE Sub(Mulh(x, f), x) = y
  <2>1. x * f = x * s + b * x
    <3> HIDE DEF b
    <3>1. QED
      BY <1>1, <1>2, <1>3, <1>9
  <2>2. x * s \in Int
    BY <1>2, <1>3
  <2>3. (x * s + b * x) \div b = (x * s) \div b + x
    <3> HIDE DEF b
    <3>1. QED
      BY <1>1, <1>3, <2>2, DivShift
  <2>4. Mulh(x, f) = y + x
    BY <1>6, <2>1, <2>3
  <2>5. Mulh(x, f) - x = y
    <3> HIDE DEF y
    <3>1. QED
      BY <1>3, <1>7, <2>4
  <2>6. QED
    BY <1>4, <2>5, WrapFits DEF Sub
<1>10. ASSUME f = s PROVE Mulh(x, f) = y
  BY <1>6, <1>10
<1>11. k < 0 => ~(k > 0)
  BY WordRange DEF IInv, Words
<1>12. QED
  BY <1>4, <1>5, <1>8, <1>9, <1>10, <1>11 DEF s, f

\* At any width the code for a division leaves the quotient, rounded towards zero.
LEMMA MagicQuotient ==
    ASSUME IInv, ~running, TakesMagic(k), NEW x \in Words
    PROVE  QuotientByMagic(x) = Quotient(x, k)
<1> DEFINE H == HalfRange
           high == Mulh(x, Multiplier)
           fix == CASE AddMarker(k, Multiplier) /\ k > 0 -> Add(high, x)
                    [] AddMarker(k, Multiplier) /\ k < 0 -> Sub(high, x)
                    [] OTHER -> high
           y == (x * Signed) \div (2 * H)
           q == Srai(fix, Shift)
<1>1. k \in Words /\ k \in Int /\ k # 0 /\ k # -1 /\ x \in Int /\ H \in Nat /\ H >= 4
  BY WordRange DEF IInv, Words, TakesMagic
<1>2. k > 0 \/ k < 0
  BY <1>1
<1>3. fix = y
  <2>1. CASE AddMarker(k, Multiplier) /\ k > 0
    BY <1>1, <2>1, Corrected
  <2>2. CASE AddMarker(k, Multiplier) /\ k < 0
    BY <1>1, <2>2, Corrected
  <2>3. CASE ~AddMarker(k, Multiplier)
    BY <2>3, Corrected
  <2>4. QED
    BY <1>2, <2>1, <2>2, <2>3
<1>4. q = (x * Signed) \div 2^p
  <2>1. 2^Shift \in Nat /\ 2^Shift > 0 /\ 2^p = (2 * H) * 2^Shift
    BY Found
  <2>2. x * Signed \in Int
    BY <1>1, Found DEF Signed
  <2>3. q = y \div 2^Shift
    BY <1>3 DEF Srai
  <2>4. 2 * H \in Nat /\ 2 * H > 0
    BY <1>1
  <2>5. y \div 2^Shift = (x * Signed) \div ((2 * H) * 2^Shift)
    BY <2>1, <2>2, <2>4, DivTwice
  <2>6. QED
    BY <2>1, <2>3, <2>5
<1>5. q = Quotient(x, k) - (IF x # 0 /\ (x < 0) # (k < 0) THEN 1 ELSE 0)
  BY <1>4, Rounded
<1> DEFINE n == Magnitude(x)
           m == Magnitude(k)
           u == n \div m
           v == n % m
<1>6. QuotientByMagic(x) = Add(q, Srli(IF k > 0 THEN x ELSE q, Width - 1))
  BY DEF QuotientByMagic
<1>7. m \in 2 .. H /\ n \in 0 .. H /\ u \in Nat /\ Quotient(x, k) \in Words
  BY <1>1, Divisor, QuotientWord
<1>8. Quotient(x, k) = IF (x < 0) = (k < 0) THEN u ELSE -u
  BY DEF Quotient
<1>9. v \in 0 .. m - 1 /\ n = m * u + v
  <2>1. n \in Int /\ m \in Nat /\ m > 0
    BY <1>1, <1>7
  <2> HIDE DEF m, n
  <2>2. QED
    BY <2>1, DivMod
<1>10. x >= 0 => n = x
  BY <1>1 DEF Magnitude
<1>11. Words = -H .. H - 1
  BY DEF Words
<1> HIDE DEF H, m, n, u, v, q
<1>12. 2 * u =< H
  <2>1. 2 * u =< m * u
    BY <1>1, <1>7
  <2>2. QED
    BY <1>1, <1>7, <1>9, <2>1
<1>13. q + (IF x # 0 /\ (x < 0) # (k < 0) THEN 1 ELSE 0) = Quotient(x, k)
  BY <1>5, <1>7, <1>11
<1>14. CASE k > 0
  <2>1. Srli(x, Width - 1) = IF x < 0 THEN 1 ELSE 0
    BY SignBit
  <2>2. q + Srli(x, Width - 1) = Quotient(x, k)
    BY <1>1, <1>13, <1>14, <2>1
  <2>3. QED
    BY <1>6, <1>7, <1>14, <2>2, WrapFits DEF Add
<1>15. CASE k < 0
  <2>1. q \in Words /\ ((x # 0 /\ (x < 0) # (k < 0)) <=> q < 0)
    <3>1. CASE x < 0
      BY <1>1, <1>5, <1>7, <1>8, <1>11, <1>12, <1>15, <3>1
    <3>2. CASE x = 0
      <4>1. m * u + v = 0
        BY <1>9, <1>10, <3>2
      <4>2. u = 0
        <5>1. u =< m * u
          BY <1>1, <1>7
        <5>2. QED
          BY <1>1, <1>7, <1>9, <4>1, <5>1
      <4>3. Quotient(x, k) = -u /\ q = Quotient(x, k) - 0
        BY <1>5, <1>8, <1>15, <3>2
      <4>5. q = 0
        BY <4>2, <4>3
      <4>4. QED
        BY <1>1, <1>11, <3>2, <4>5
    <3>3. CASE x > 0
      BY <1>1, <1>5, <1>7, <1>8, <1>11, <1>12, <1>15, <3>3
    <3>4. QED
      BY <1>1, <3>1, <3>2, <3>3
  <2>2. Srli(q, Width - 1) = IF q < 0 THEN 1 ELSE 0
    BY <2>1, SignBit
  <2>3. q + Srli(q, Width - 1) = Quotient(x, k)
    BY <1>13, <2>1, <2>2
  <2>4. (IF k > 0 THEN x ELSE q) = q
    BY <1>1, <1>15
  <2>5. QED
    BY <1>6, <1>7, <2>3, <2>4, WrapFits DEF Add
<1>16. QED
  BY <1>2, <1>14, <1>15

\* And the code for a remainder what the division leaves.
LEMMA MagicRemainder ==
    ASSUME IInv, ~running, TakesMagic(k), NEW x \in Words
    PROVE  RemainderByMagic(x) = x - k * Quotient(x, k)
<1>1. k \in Words /\ k \in Int /\ k # 0 /\ x \in Int
  BY WordRange DEF IInv, Words, TakesMagic
<1>2. Quotient(x, k) \in Int /\ x - k * Quotient(x, k) \in Words
  BY <1>1, QuotientWord
<1>3. RemainderByMagic(x) = Wrap(x - Wrap(Quotient(x, k) * k))
  BY MagicQuotient DEF RemainderByMagic, Sub
<1>4. Quotient(x, k) * k \in Int /\ Quotient(x, k) * k = k * Quotient(x, k)
  BY <1>1, <1>2
<1>5. Wrap(x - Wrap(Quotient(x, k) * k)) = Wrap(x - k * Quotient(x, k))
  BY <1>1, <1>4, WrapInner
<1>6. QED
  BY <1>2, <1>3, <1>5, WrapFits

-----------------------------------------------------------------------------
(* Division by a power of two. *)

\* The exponent of a power of two above 1 is neither 0 nor that of the sign bit.
LEMMA Exponent ==
    ASSUME NEW d \in Words, d > 1, IsPowerOfTwo(d)
    PROVE  Log2(d) \in 1 .. Width - 2 /\ d = 2^Log2(d)
<1>1. Log2(d) \in 0 .. Width - 2 /\ d = 2^Log2(d)
  BY DEF IsPowerOfTwo, Log2, Width
<1>2. SUFFICES ASSUME Log2(d) = 0 PROVE FALSE
  BY <1>1
<1>3. d = 2^0
  BY <1>1, <1>2
<1>4. QED
  BY <1>3, PowerZero

\* Half the range and the range are multiples of it.
LEMMA PowerInRange ==
    ASSUME NEW n \in 1 .. Width - 2
    PROVE  /\ 2^n \in Nat /\ 2^n >= 2 /\ 2 * 2^n =< HalfRange /\ 2^n \in Words
           /\ 2^(Width - n) \in Nat /\ 2^(Width - n) > 0
           /\ 2 * HalfRange = 2^(Width - n) * 2^n
<1>1. Width \in Nat /\ HalfRange = 2^(Width - 1) /\ 2 * HalfRange = 2^Width /\ HalfRange \in Nat
  BY WordRange
<1>2. /\ n \in Nat /\ n - 1 \in Nat /\ (n - 1) + 1 = n
      /\ Width - 1 \in Nat /\ n < Width - 1
      /\ Width - n \in Nat /\ Width = (Width - n) + n
  BY <1>1
<1>3. 2^n \in Nat /\ 2^n > 0 /\ 2^(n - 1) \in Nat /\ 2^(n - 1) > 0 /\ 2^n = 2 * 2^(n - 1)
  BY <1>2, PowerPositive, PowerNext
<1>4. 2 * 2^n =< HalfRange
  BY <1>1, <1>2, PowerGrows
<1>5. 2^(Width - n) \in Nat /\ 2^(Width - n) > 0 /\ 2^Width = 2^(Width - n) * 2^n
  BY <1>2, PowerPositive, PowerSum
<1>6. 2^n >= 2 /\ 2^n \in Words
  BY <1>1, <1>3, <1>4 DEF Words
<1>7. QED
  BY <1>1, <1>3, <1>4, <1>5, <1>6

\* The sign shifted down to n bits is the divisor less 1, for a negative word only.
LEMMA Bias ==
    ASSUME NEW x \in Words, NEW n \in 1 .. Width - 2
    PROVE  Srli(Srai(x, Width - 1), Width - n) = IF x < 0 THEN 2^n - 1 ELSE 0
<1> DEFINE H == HalfRange
           b == 2 * H
           B == 2^n
           C == 2^(Width - n)
           v == Srai(x, Width - 1)
<1>1. /\ H \in Nat /\ H >= 4 /\ 2^(Width - 1) = H
      /\ B \in Nat /\ B >= 2 /\ 2 * B =< H /\ C \in Nat /\ C > 0 /\ 2 * H = C * B
  BY WordRange, PowerInRange
<1>2. x \in Int /\ -H =< x /\ x < H /\ Words = -H .. H - 1
  BY <1>1 DEF Words
<1>3. v = x \div H
  BY <1>1 DEF Srai
<1>4. Srli(v, Width - n) = Wrap(Unsigned(v) \div C)
  BY DEF Srli
<1>5. b \in Nat /\ b > 0 /\ b = 2 * H
  BY <1>1
<1>6. \A s : Unsigned(s) = s % b
  BY DEF Unsigned
<1> HIDE DEF H, b, B, C, v
<1>7. CASE x < 0
  <2>1. v = -1
    <3>1. x = H * (-1) + (x + H) /\ x + H \in 0 .. H - 1 /\ -1 \in Int /\ H > 0
      BY <1>1, <1>2, <1>7
    <3>2. QED
      BY <1>1, <1>2, <1>3, <3>1, DivUnique
  <2>2. (-1) % b = b - 1
    <3>1. ASSUME NEW a \in Int, NEW q \in Int, NEW r \in 0 .. b - 1, a = b * q + r
          PROVE  a % b = r
      BY <1>5, <3>1, DivUnique
    <3>2. -1 \in Int /\ -1 = b * (-1) + (b - 1) /\ b - 1 \in 0 .. b - 1
      BY <1>5
    <3>3. QED
      BY <3>1, <3>2
  <2>3. (b - 1) \div C = B - 1
    <3>1. b - 1 = C * (B - 1) + (C - 1) /\ C - 1 \in 0 .. C - 1 /\ B - 1 \in Int /\ b - 1 \in Int
      BY <1>1, <1>5
    <3>2. QED
      BY <1>1, <3>1, DivUnique
  <2>4. B - 1 \in Words
    BY <1>1, <1>2
  <2>5. Srli(v, Width - n) = B - 1
    BY <1>4, <1>6, <2>1, <2>2, <2>3, <2>4, WrapFits
  <2>6. QED
    BY <1>7, <2>5 DEF v, B
<1>8. CASE ~(x < 0)
  <2>1. v = 0
    <3>1. x = H * 0 + x /\ x \in 0 .. H - 1 /\ H > 0
      BY <1>1, <1>2, <1>8
    <3>2. QED
      BY <1>1, <1>2, <1>3, <3>1, DivUnique
  <2>2. 0 % b = 0
    BY <1>5, DivUnique
  <2>3. 0 \div C = 0
    BY <1>1, DivUnique
  <2>4. 0 \in Words
    BY <1>1, <1>2
  <2>5. Srli(v, Width - n) = 0
    BY <1>4, <1>6, <2>1, <2>2, <2>3, <2>4, WrapFits
  <2>6. QED
    BY <1>8, <2>5 DEF v
<1>9. QED
  BY <1>7, <1>8

\* With it added, the arithmetic shift rounds towards zero.
LEMMA PowerQuotient ==
    ASSUME NEW x \in Words, NEW n \in 1 .. Width - 2
    PROVE  QuotientByPower(x, n) = Quotient(x, 2^n)
<1> DEFINE H == HalfRange
           B == 2^n
           t == IF x < 0 THEN B - 1 ELSE 0
           g == Magnitude(x)
           u == g \div B
           v == g % B
<1>1. H \in Nat /\ B \in Nat /\ B >= 2 /\ 2 * B =< H
  BY WordRange, PowerInRange
<1>2. x \in Int /\ -H =< x /\ x < H /\ Words = -H .. H - 1
  BY <1>1 DEF Words
<1>3. QuotientByPower(x, n) = Wrap(x + t) \div B
  BY Bias DEF QuotientByPower, Add, Srai
<1>4. x + t \in Words
  <2> HIDE DEF B, H
  <2>1. QED
    BY <1>1, <1>2
<1>5. QuotientByPower(x, n) = (x + t) \div B
  BY <1>3, <1>4, WrapFits
<1>6. g = (IF x < 0 THEN -x ELSE x) /\ Magnitude(B) = B
  BY <1>1 DEF Magnitude
<1>7. Quotient(x, B) = IF x < 0 THEN -u ELSE u
  BY <1>1, <1>6 DEF Quotient
<1> HIDE DEF H, B, g
<1>8. u \in Int /\ v \in 0 .. B - 1 /\ g = B * u + v
  <2>1. g \in Int /\ B > 0
    BY <1>1, <1>2, <1>6
  <2>2. QED
    BY <1>1, <2>1, DivMod
<1> HIDE DEF u, v
<1>9. CASE x < 0
  <2>1. x + t = B * (-u) + (B - 1 - v)
    BY <1>1, <1>2, <1>6, <1>8, <1>9
  <2>2. B - 1 - v \in 0 .. B - 1 /\ -u \in Int /\ B > 0 /\ x + t \in Int
    BY <1>1, <1>2, <1>8
  <2>3. (x + t) \div B = -u
    <3> HIDE DEF t
    <3>1. QED
      BY <1>1, <2>1, <2>2, DivUnique
  <2>4. QED
    BY <1>5, <1>7, <1>9, <2>3 DEF B
<1>10. CASE ~(x < 0)
  <2>1. x + t = g
    BY <1>2, <1>6, <1>10
  <2>2. QED
    BY <1>5, <1>7, <1>10, <2>1 DEF B, u
<1>11. QED
  BY <1>9, <1>10

\* The quotient shifted back and subtracted gives the remainder.
LEMMA PowerRemainder ==
    ASSUME NEW x \in Words, NEW n \in 1 .. Width - 2
    PROVE  Sub(x, Slli(QuotientByPower(x, n), n)) = x - 2^n * Quotient(x, 2^n)
<1> DEFINE B == 2^n
           q == Quotient(x, B)
<1>1. B \in Words /\ B \in Nat /\ B # 0 /\ x \in Int
  BY PowerInRange, WordRange DEF Words
<1>2. q \in Int /\ x - B * q \in Words
  BY <1>1, QuotientWord
<1>3. Sub(x, Slli(QuotientByPower(x, n), n)) = Wrap(x - Wrap(q * B))
  BY PowerQuotient DEF Sub, Slli
<1> HIDE DEF B, q
<1>4. q * B \in Int /\ q * B = B * q
  BY <1>1, <1>2
<1> DEFINE w == q * B
<1>5. Wrap(x - Wrap(w)) = Wrap(x - w)
  <2> HIDE DEF w
  <2>1. ASSUME NEW y \in Int PROVE Wrap(x - Wrap(y)) = Wrap(x - y)
    BY <1>1, WrapInner
  <2>2. w \in Int
    BY <1>4 DEF w
  <2>3. QED
    BY <2>1, <2>2
<1>6. w = B * q
  BY <1>4
<1>7. Wrap(x - B * q) = x - B * q
  BY <1>2, WrapFits
<1>8. QED
  BY <1>3, <1>5, <1>6, <1>7 DEF B, q

-----------------------------------------------------------------------------
(* The immediate. *)

\* The assembler keeps a constant that fits the operand.
LEMMA Immediate ==
    ASSUME NEW c, FitsImmediate(c)
    PROVE  AddsImmediate(c) = c /\ c \in Int
<1> DEFINE i == 2^(ImmBits - 1)
           j == 2^ImmBits
<1>1. i \in Nat /\ i > 0 /\ j = 2 * i
  <2>1. ImmBits - 1 \in Nat /\ (ImmBits - 1) + 1 = ImmBits
    BY ImmediateAssumption, IRAssumption
  <2>2. QED
    BY <2>1, PowerNext, PowerPositive
<1>2. c \in -i .. i - 1 /\ AddsImmediate(c) = ((c + i) % j) - i
  BY DEF FitsImmediate, AddsImmediate
<1> HIDE DEF i, j
<1>3. c + i \in Int /\ c + i = j * 0 + (c + i) /\ c + i \in 0 .. j - 1 /\ j \in Nat /\ j > 0
  BY <1>1, <1>2
<1>4. (c + i) % j = c + i
  BY <1>3, DivUnique
<1>5. QED
  BY <1>1, <1>2, <1>4
-----------------------------------------------------------------------------
(* Every sequence. *)

\* By 1 a word is its own quotient, by -1 its negation.
LEMMA QuotientByOne ==
    ASSUME NEW x \in Words
    PROVE  Quotient(x, 1) = x /\ Quotient(x, -1) = -x /\ x \in Int
<1> DEFINE g == Magnitude(x)
<1>1. x \in Int
  BY WordRange DEF Words
<1>2. g \in Nat /\ g = IF x < 0 THEN -x ELSE x
  BY <1>1 DEF Magnitude
<1>3. Magnitude(1) = 1 /\ Magnitude(-1) = 1
  <2>1. \A n \in Int : (n = 1 \/ n = -1) => Magnitude(n) = 1
    BY DEF Magnitude
  <2>2. 1 \in Int /\ -1 \in Int
    OBVIOUS
  <2>3. QED
    BY <2>1, <2>2
<1>4. Quotient(x, 1) = IF x < 0 THEN -(g \div 1) ELSE g \div 1
  BY <1>3 DEF Quotient
<1>5. Quotient(x, -1) = IF x < 0 THEN g \div 1 ELSE -(g \div 1)
  BY <1>3 DEF Quotient
<1> HIDE DEF g
<1>6. g \div 1 = g
  BY <1>2, DivUnique
<1>7. QED
  BY <1>1, <1>2, <1>4, <1>5, <1>6

\* A sum or a difference with an immediate.
LEMMA AddiExact ==
    ASSUME k \in Words, NEW x \in Words
    PROVE  /\ FitsImmediate(k) => ShapeResult("addi", "add", x) = Wrap(x + k)
           /\ FitsImmediate(Wrap(-k)) => ShapeResult("addi", "sub", x) = Wrap(x - k)
<1>1. x \in Int /\ k \in Int /\ -k \in Int
  BY WordRange DEF Words
<1>2. ASSUME FitsImmediate(k) PROVE ShapeResult("addi", "add", x) = Wrap(x + k)
  <2>1. AddsImmediate(k) = k
    BY <1>2, Immediate
  <2>2. QED
    BY <2>1 DEF ShapeResult, Add
<1>3. ASSUME FitsImmediate(Wrap(-k)) PROVE ShapeResult("addi", "sub", x) = Wrap(x - k)
  <2>1. AddsImmediate(Wrap(-k)) = Wrap(-k)
    BY <1>3, Immediate
  <2>2. ShapeResult("addi", "sub", x) = Wrap(x + Wrap(-k))
    BY <2>1 DEF ShapeResult, Add
  <2>3. Wrap(x + Wrap(-k)) = Wrap(x + (-k))
    BY <1>1, WrapInner
  <2>4. x + (-k) = x - k
    BY <1>1
  <2>5. QED
    BY <2>2, <2>3, <2>4
<1>4. QED
  BY <1>2, <1>3

\* A product.
LEMMA ProductExact ==
    ASSUME k \in Words, NEW x \in Words, RightShape("mul", k) # "generic"
    PROVE  ShapeResult(RightShape("mul", k), "mul", x) = Wrap(x * k)
<1>1. x \in Int /\ k \in Int /\ 0 \in Words
  BY WordRange DEF Words
<1>2. k = 0 \/ k = 1 \/ k = -1 \/ (k > 1 /\ IsPowerOfTwo(k))
  BY <1>1 DEF RightShape
<1>3. CASE k = 0
  <2>1. RightShape("mul", k) = "zero" /\ x * k = 0
    BY <1>1, <1>3 DEF RightShape
  <2>2. QED
    BY <1>1, <2>1, WrapFits DEF ShapeResult
<1>4. CASE k = 1
  <2>1. RightShape("mul", k) = "copy" /\ x * k = x
    BY <1>1, <1>4 DEF RightShape
  <2>2. QED
    BY <2>1, WrapFits DEF ShapeResult
<1>5. CASE k = -1
  <2>1. RightShape("mul", k) = "neg" /\ x * k = -x
    BY <1>1, <1>5 DEF RightShape
  <2>2. QED
    BY <2>1 DEF ShapeResult, Neg
<1>6. CASE k > 1 /\ IsPowerOfTwo(k)
  <2>1. RightShape("mul", k) = "slli"
    BY <1>1, <1>6 DEF RightShape
  <2>2. k = 2^Log2(k)
    BY <1>6, Exponent
  <2>3. QED
    BY <2>1, <2>2 DEF ShapeResult, Slli
<1>7. QED
  BY <1>2, <1>3, <1>4, <1>5, <1>6

\* A quotient.
LEMMA QuotientExact ==
    ASSUME IInv, ~running, NEW x \in Words, RightShape("div", k) # "generic"
    PROVE  k # 0 /\ ShapeResult(RightShape("div", k), "div", x) = Wrap(Quotient(x, k))
<1>1. x \in Int /\ k \in Int /\ k \in Words
  BY WordRange DEF Words, IInv
<1>2. k = 1 \/ k = -1 \/ (k > 1 /\ IsPowerOfTwo(k)) \/ TakesMagic(k)
  BY <1>1 DEF RightShape
<1>3. CASE k = 1
  <2>1. RightShape("div", k) = "copy" /\ Quotient(x, k) = x
    BY <1>1, <1>3, QuotientByOne DEF RightShape, TakesMagic
  <2>2. QED
    BY <1>3, <2>1, WrapFits DEF ShapeResult
<1>4. CASE k = -1
  <2>1. RightShape("div", k) = "neg" /\ Quotient(x, k) = -x
    BY <1>1, <1>4, QuotientByOne DEF RightShape, TakesMagic
  <2>2. QED
    BY <1>4, <2>1 DEF ShapeResult, Neg
<1>5. CASE k > 1 /\ IsPowerOfTwo(k)
  <2>1. RightShape("div", k) = "power"
    BY <1>1, <1>5 DEF RightShape, TakesMagic
  <2>2. k = 2^Log2(k) /\ Log2(k) \in 1 .. Width - 2
    BY <1>1, <1>5, Exponent
  <2>3. QuotientByPower(x, Log2(k)) = Quotient(x, k)
    BY <2>2, PowerQuotient
  <2>4. k # 0 /\ k # -1 /\ Quotient(x, k) \in Words
    BY <1>1, <1>5, QuotientWord
  <2>5. QED
    BY <2>1, <2>3, <2>4, WrapFits DEF ShapeResult
<1>6. CASE TakesMagic(k)
  <2>1. k # 0 /\ k # 1 /\ k # -1 /\ ~IsPowerOfTwo(k)
    BY <1>6 DEF TakesMagic
  <2>2. RightShape("div", k) = "magic"
    BY <1>6, <2>1 DEF RightShape
  <2>3. QuotientByMagic(x) = Quotient(x, k) /\ Quotient(x, k) \in Words
    BY <1>1, <1>6, <2>1, MagicQuotient, QuotientWord
  <2>4. QED
    BY <2>1, <2>2, <2>3, WrapFits DEF ShapeResult
<1>7. QED
  BY <1>2, <1>3, <1>4, <1>5, <1>6

\* A remainder.
LEMMA RemainderExact ==
    ASSUME IInv, ~running, NEW x \in Words, RightShape("mod", k) # "generic"
    PROVE  k # 0 /\ ShapeResult(RightShape("mod", k), "mod", x) = x - k * Quotient(x, k)
<1>1. x \in Int /\ k \in Int /\ k \in Words
  BY WordRange DEF Words, IInv
<1>2. k = 1 \/ k = -1 \/ (k > 1 /\ IsPowerOfTwo(k)) \/ TakesMagic(k)
  BY <1>1 DEF RightShape
<1>3. CASE k = 1 \/ k = -1
  <2>1. RightShape("mod", k) = "zero" /\ k # 0
    BY <1>1, <1>3 DEF RightShape, TakesMagic
  <2>2. x - k * Quotient(x, k) = 0
    BY <1>1, <1>3, QuotientByOne
  <2>3. QED
    BY <2>1, <2>2 DEF ShapeResult
<1>4. CASE k > 1 /\ IsPowerOfTwo(k)
  <2>1. RightShape("mod", k) = "power"
    BY <1>1, <1>4 DEF RightShape, TakesMagic
  <2>2. k = 2^Log2(k) /\ Log2(k) \in 1 .. Width - 2 /\ k # 0
    BY <1>1, <1>4, Exponent
  <2>3. ShapeResult("power", "mod", x) = Sub(x, Slli(QuotientByPower(x, Log2(k)), Log2(k)))
    BY DEF ShapeResult
  <2>4. QED
    BY <2>1, <2>2, <2>3, PowerRemainder
<1>5. CASE TakesMagic(k)
  <2>1. k # 0 /\ k # 1 /\ k # -1 /\ ~IsPowerOfTwo(k)
    BY <1>5 DEF TakesMagic
  <2>2. RightShape("mod", k) = "magic"
    BY <1>5, <2>1 DEF RightShape
  <2>3. QED
    BY <1>5, <2>1, <2>2, MagicRemainder DEF ShapeResult
<1>6. QED
  BY <1>2, <1>3, <1>4, <1>5

\* The constant on the left is asked for operators that commute only, and takes the shape
\* it has on the right.
LEMMA LeftIsRight ==
    ASSUME k \in Words, NEW x \in Words, NEW op, LeftShape(op, k) # "generic"
    PROVE  /\ LeftShape(op, k) = RightShape(op, k)
           /\ op = "add" \/ op = "mul"
           /\ BinaryValue(op, k, x) = BinaryValue(op, x, k)
<1>1. x \in Int /\ k \in Int
  BY WordRange DEF Words
<1>2. op = "add" \/ op = "mul"
  BY DEF LeftShape
<1>3. LeftShape(op, k) = RightShape(op, k)
  BY <1>1, <1>2 DEF LeftShape, RightShape
<1>4. x + k = k + x /\ x * k = k * x
  BY <1>1
<1>5. QED
  BY <1>2, <1>3, <1>4 DEF BinaryValue

\* Whatever the width of a word, the constant and the other operand, the code emitBinary
\* and emitDivByConst write for an instruction with a constant leaves its result.
THEOREM CodeExact == Spec => []SequencesExact
<1>1. ASSUME IInv, ~running, NEW op \in {"add", "sub", "mul", "div", "mod"}, NEW x \in Words,
             RightShape(op, k) # "generic"
      PROVE  ShapeResult(RightShape(op, k), op, x) = BinaryValue(op, x, k)
  <2>1. k \in Words
    BY <1>1 DEF IInv
  <2>2. CASE op = "add"
    <3>1. FitsImmediate(k) /\ RightShape(op, k) = "addi"
      BY <1>1, <2>2 DEF RightShape
    <3>2. QED
      BY <2>1, <2>2, <3>1, AddiExact DEF BinaryValue
  <2>3. CASE op = "sub"
    <3>1. FitsImmediate(Wrap(-k)) /\ RightShape(op, k) = "addi"
      BY <1>1, <2>3 DEF RightShape
    <3>2. QED
      BY <2>1, <2>3, <3>1, AddiExact DEF BinaryValue
  <2>4. CASE op = "mul"
    BY <1>1, <2>1, <2>4, ProductExact DEF BinaryValue
  <2>5. CASE op = "div"
    BY <1>1, <2>5, QuotientExact DEF BinaryValue
  <2>6. CASE op = "mod"
    BY <1>1, <2>6, RemainderExact DEF BinaryValue
  <2>7. QED
    BY <1>1, <2>2, <2>3, <2>4, <2>5, <2>6
<1>2. ASSUME IInv, ~running, NEW op \in {"add", "sub", "mul", "div", "mod"}, NEW x \in Words,
             LeftShape(op, k) # "generic"
      PROVE  ShapeResult(LeftShape(op, k), op, x) = BinaryValue(op, k, x)
  <2>1. k \in Words
    BY <1>2 DEF IInv
  <2>2. /\ LeftShape(op, k) = RightShape(op, k)
        /\ BinaryValue(op, k, x) = BinaryValue(op, x, k)
    BY <1>2, <2>1, LeftIsRight
  <2>3. QED
    BY <1>1, <1>2, <2>2
<1>3. IInv => SequencesExact
  BY <1>1, <1>2 DEF SequencesExact
<1>4. QED
  BY <1>3, Invariant, PTL
=============================================================================
