---------------------------- MODULE BinaryShape ----------------------------
(***************************************************************************)
(* How emitBinary (src/backend/riscv.cpp) writes a binary instruction one  *)
(* of whose operands is a constant of the table: with an immediate, by     *)
(* shifts, by a multiplication, or like any other.                         *)
(***************************************************************************)
EXTENDS ToyIR

CONSTANT ImmBits    \* the width of an immediate operand; 12 in the code

ASSUME ImmediateAssumption == ImmBits \in 2 .. WordBits

IsPowerOfTwo(n) == \E e \in 0 .. WordBits - 2 : n = 2^e
FitsImmediate(v) == v \in -(2^(ImmBits - 1)) .. 2^(ImmBits - 1) - 1

\* the divisors that take the sequence of emitDivByConst
TakesMagic(d) == d \notin {-1, 0, 1} /\ ~IsPowerOfTwo(d)

\* the constant c on the right
RightShape(op, c) ==
    CASE op = "add" /\ FitsImmediate(c) -> "addi"
      [] op = "sub" /\ FitsImmediate(Wrap(-c)) -> "addi"
      [] op = "mul" /\ c = 0 -> "zero"
      [] op \in {"mul", "div"} /\ c = 1 -> "copy"
      [] op \in {"mul", "div"} /\ c = -1 -> "neg"
      [] op = "mul" /\ c > 1 /\ IsPowerOfTwo(c) -> "slli"
      [] op = "mod" /\ c \in {1, -1} -> "zero"
      [] op \in {"div", "mod"} /\ c > 1 /\ IsPowerOfTwo(c) -> "power"
      [] op \in {"div", "mod"} /\ TakesMagic(c) -> "magic"
      [] OTHER -> "generic"

\* c on the left, asked second: only operators that commute
LeftShape(op, c) ==
    CASE op = "add" /\ FitsImmediate(c) -> "addi"
      [] op = "mul" /\ c = 0 -> "zero"
      [] op = "mul" /\ c = 1 -> "copy"
      [] op = "mul" /\ c > 1 /\ IsPowerOfTwo(c) -> "slli"
      [] OTHER -> "generic"

=============================================================================
