--------------------------- MODULE ConstantOperand ---------------------------
(***************************************************************************)
(* A binary instruction with a constant operand: the code emitBinary and   *)
(* emitDivByConst write for it (src/backend/riscv.cpp), run on a dividend  *)
(* or a factor x, and computeDivMagic, whose loop finds the multiplier a   *)
(* division is replaced with.                                              *)
(*                                                                         *)
(* The constant k is any word.  Registers and the loop's unsigned          *)
(* variables are WordBits wide, an immediate ImmBits; the code has 32 and  *)
(* 12, so its 31, 32 and 0x80000000 are Width - 1, Width and HalfRange.    *)
(***************************************************************************)
EXTENDS BinaryShape

\* 32 in the code; in a word of two bits the search for -2 wraps around
ASSUME WidthAssumption == WordBits > 2

VARIABLES
    k,              \* the constant operand
    p,              \* the power of two reached
    q1, r1,         \* 2^p by anc
    q2, r2,         \* 2^p by the magnitude of k
    running         \* the loop goes on

vars == <<k, p, q1, r1, q2, r2, running>>

Width == WordBits
Unsigned(n) == n % (2 * HalfRange)
Log2(n) == CHOOSE e \in 0 .. Width - 2 : n = 2^e

-----------------------------------------------------------------------------
(* computeDivMagic *)

\* the magnitude of the extreme dividend that leaves the remainder |d| - 1
Anc(d) == LET t == HalfRange + (IF d < 0 THEN 1 ELSE 0) IN (t - 1) - (t % Magnitude(d))

Init ==
    /\ k \in Words
    /\ p = Width - 1
    /\ running = TakesMagic(k)
    /\ LET m == IF running THEN Anc(k) ELSE 1
           d == IF running THEN Magnitude(k) ELSE 1
       IN  /\ q1 = HalfRange \div m /\ r1 = HalfRange % m
           /\ q2 = HalfRange \div d /\ r2 = HalfRange % d

\* mutant: the quotient is doubled without the carry from the remainder
DoubledNoCarry(q, r, m) ==
    [q |-> Unsigned(2 * q), r |-> IF Unsigned(2 * r) >= m THEN Unsigned(Unsigned(2 * r) - m)
                                                         ELSE Unsigned(2 * r)]

\* quotient and remainder by m of twice the number
Doubled(q, r, m) ==
    LET over == Unsigned(2 * r) >= m
    IN  [q |-> Unsigned(2 * q + Truth(over)), r |-> Unsigned(2 * r - (IF over THEN m ELSE 0))]

\* mutant: waits for the quotient to hit the bound
EnoughExact(q, r, delta) == q = delta

\* the exit of the do-while loop
Enough(q, r, delta) == ~(q < delta \/ (q = delta /\ r = 0))

RoundBound == 2 * Width     \* bounds p in case the loop ran on

\* one round of the do-while loop
Round ==
    /\ running
    /\ p < RoundBound
    /\ LET x == Doubled(q1, r1, Anc(k))
           y == Doubled(q2, r2, Magnitude(k))
       IN  /\ q1' = x.q /\ r1' = x.r
           /\ q2' = y.q /\ r2' = y.r
           /\ running' = ~Enough(x.q, x.r, Unsigned(Magnitude(k) - y.r))
    /\ p' = p + 1
    /\ UNCHANGED k

Emitted == ~running /\ UNCHANGED vars

Next == Round \/ Emitted
Spec == Init /\ [][Next]_vars
FairSpec == Spec /\ WF_vars(Round)

Multiplier == LET m == Wrap(q2 + 1) IN IF k < 0 THEN Wrap(-m) ELSE m
Shift == p - Width

\* mutant: a wrapped multiplier is corrected for positive divisors only
AddMarkerPositive(d, m) == d > 0 /\ m < 0
AddMarker(d, m) == (d > 0 /\ m < 0) \/ (d < 0 /\ m > 0)

-----------------------------------------------------------------------------
(* The instructions used. *)

Srai(v, n) == v \div 2^n
Srli(v, n) == Wrap(Unsigned(v) \div 2^n)
Slli(v, n) == Wrap(v * 2^n)
Mulh(v, w) == (v * w) \div 2^Width
Add(v, w) == Wrap(v + w)
Sub(v, w) == Wrap(v - w)
Neg(v) == Wrap(-v)

\* srai, srli, add, srai: 2^n - 1 is added to a negative dividend first
QuotientByPower(x, n) == Srai(Add(x, Srli(Srai(x, Width - 1), Width - n)), n)

\* emitDivByConst
QuotientByMagic(x) ==
    LET high == Mulh(x, Multiplier)
        fix  == CASE AddMarker(k, Multiplier) /\ k > 0 -> Add(high, x)
                  [] AddMarker(k, Multiplier) /\ k < 0 -> Sub(high, x)
                  [] OTHER -> high
        q    == Srai(fix, Shift)
    IN  Add(q, Srli(IF k > 0 THEN x ELSE q, Width - 1))
RemainderByMagic(x) == Sub(x, Wrap(QuotientByMagic(x) * k))

\* what an addi with this immediate adds: the assembler keeps ImmBits of it
AddsImmediate(c) == ((c + 2^(ImmBits - 1)) % 2^ImmBits) - 2^(ImmBits - 1)

ShapeResult(shape, op, x) ==
    CASE shape = "addi" -> Add(x, AddsImmediate(IF op = "sub" THEN Wrap(-k) ELSE k))
      [] shape = "zero" -> 0
      [] shape = "copy" -> x
      [] shape = "neg" -> Neg(x)
      [] shape = "slli" -> Slli(x, Log2(k))
      [] shape = "power" /\ op = "div" -> QuotientByPower(x, Log2(k))
      [] shape = "power" /\ op = "mod" ->
            Sub(x, Slli(QuotientByPower(x, Log2(k)), Log2(k)))
      [] shape = "magic" /\ op = "div" -> QuotientByMagic(x)
      [] shape = "magic" /\ op = "mod" -> RemainderByMagic(x)

-----------------------------------------------------------------------------
(* Properties. *)

\* The unsigned variables never wrap around: in every round they are the exact
\* quotient and remainder of 2^p, which the exit test compares.
DividesThePower ==
    TakesMagic(k) =>
        /\ q1 * Anc(k) + r1 = 2^p /\ r1 \in 0 .. Anc(k) - 1
        /\ q2 * Magnitude(k) + r2 = 2^p /\ r2 \in 0 .. Magnitude(k) - 1

\* Whatever the constant and whatever the other operand, the sequence that stands
\* for an instruction leaves the instruction's result: every quotient rounds towards
\* zero and every remainder has the sign of the dividend, though the multiplier is
\* rounded and may not fit a word.
SequencesExact ==
    ~running =>
        \A op \in {"add", "sub", "mul", "div", "mod"} : \A x \in Words :
            /\ RightShape(op, k) # "generic" =>
                  ShapeResult(RightShape(op, k), op, x) = BinaryValue(op, x, k)
            /\ LeftShape(op, k) # "generic" =>
                  ShapeResult(LeftShape(op, k), op, x) = BinaryValue(op, k, x)

\* The search for a multiplier ends for every divisor, with a shift the machine has.
Terminates == <>(~running /\ (TakesMagic(k) => Shift \in 0 .. Width - 1))

=============================================================================
