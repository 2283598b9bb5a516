------------------------------- MODULE ToyIR -------------------------------
(***************************************************************************)
(* The intermediate representation (src/ir/ir.hpp) and what it means.      *)
(*                                                                         *)
(* A function is a list of instructions over numbered slots; a program is  *)
(* a list of functions and the names of its globals.  Labels are tuples    *)
(* <<prefix, number>>, the parts the C++ strings are glued from, and the   *)
(* empty tuple where the C++ string is empty.                              *)
(*                                                                         *)
(* Outcome runs a program the way the emitted code does.  A slot that was  *)
(* never assigned and a division by zero give Undef, which spreads through *)
(* arithmetic and matters only where the program is steered by it or       *)
(* returns it.                                                             *)
(***************************************************************************)
EXTENDS Integers, Sequences, FiniteSets, TLC

CONSTANTS
    WordBits,   \* the width of int; 32 in the code
    Undef,      \* no defined value
    Fuel        \* Outcome gives up after Fuel * Fuel instructions

ASSUME IRAssumption ==
    /\ WordBits \in Nat /\ WordBits > 1
    /\ Fuel \in Nat
    /\ Undef \notin Int

-----------------------------------------------------------------------------
(* Words and operators. *)

HalfRange == 2^(WordBits - 1)
Words == -HalfRange .. HalfRange - 1
Wrap(n) == ((n + HalfRange) % (2 * HalfRange)) - HalfRange

Truth(b) == IF b THEN 1 ELSE 0
Magnitude(n) == IF n < 0 THEN -n ELSE n

\* division rounds towards zero
Quotient(a, b) ==
    LET q == Magnitude(a) \div Magnitude(b) IN IF (a < 0) = (b < 0) THEN q ELSE -q

UnaryValue(op, v) ==
    CASE op = "plus" -> v [] op = "minus" -> Wrap(-v) [] op = "not" -> Truth(v = 0)

\* foldConstBinary: a division by zero folds to 0
BinaryValue(op, a, b) ==
    CASE op = "lt"  -> Truth(a < b)
      [] op = "gt"  -> Truth(a > b)
      [] op = "le"  -> Truth(a =< b)
      [] op = "ge"  -> Truth(a >= b)
      [] op = "eq"  -> Truth(a = b)
      [] op = "ne"  -> Truth(a # b)
      [] op = "add" -> Wrap(a + b)
      [] op = "sub" -> Wrap(a - b)
      [] op = "mul" -> Wrap(a * b)
      [] op = "div" -> IF b = 0 THEN 0 ELSE Wrap(Quotient(a, b))
      [] op = "mod" -> IF b = 0 THEN 0 ELSE a - b * Quotient(a, b)

\* mutant: a zero divisor reaches the host's division as well
OverflowsOrZero(op, a, b) == op \in {"div", "mod"} /\ (b = 0 \/ (a = -HalfRange /\ b = -1))

\* The quotient is no word.  C leaves it undefined, the target's div gives the
\* dividend back, and the machine the compiler runs on stops the compiler.
Overflows(op, a, b) == op \in {"div", "mod"} /\ a = -HalfRange /\ b = -1

-----------------------------------------------------------------------------
(* Instructions. *)

NoSlot == -1
NoLabel == <<>>

Blank ==
    [op |-> "Label", dest |-> NoSlot, lhs |-> NoSlot, rhs |-> NoSlot, value |-> 0,
     oper |-> "plus", label |-> NoLabel, falseLabel |-> NoLabel, name |-> "",
     args |-> <<>>]

Label(l) == [Blank EXCEPT !.label = l]
Goto(l) == [Blank EXCEPT !.op = "Goto", !.label = l]
Branch(s, onTrue, onFalse) ==
    [Blank EXCEPT !.op = "Branch", !.lhs = s, !.label = onTrue, !.falseLabel = onFalse]
Const(d, v) == [Blank EXCEPT !.op = "Const", !.dest = d, !.value = v]
Move(d, s) == [Blank EXCEPT !.op = "Move", !.dest = d, !.lhs = s]
LoadGlobal(d, g) == [Blank EXCEPT !.op = "LoadGlobal", !.dest = d, !.name = g]
StoreGlobal(g, s) == [Blank EXCEPT !.op = "StoreGlobal", !.lhs = s, !.name = g]
Unary(d, o, s) == [Blank EXCEPT !.op = "Unary", !.dest = d, !.oper = o, !.lhs = s]
Binary(d, o, l, r) ==
    [Blank EXCEPT !.op = "Binary", !.dest = d, !.oper = o, !.lhs = l, !.rhs = r]
Call(d, f, args) == [Blank EXCEPT !.op = "Call", !.dest = d, !.name = f, !.args = args]
Return(s) == [Blank EXCEPT !.op = "Return", !.lhs = s]
ReturnVoid == [Blank EXCEPT !.op = "ReturnVoid"]

\* A Call is not counted as a definition, so that no pass drops one.
DefinesSlot(i) == i.op \in {"Const", "Move", "LoadGlobal", "Unary", "Binary"}

ReadsOf(i) ==
    CASE i.op \in {"Move", "StoreGlobal", "Unary", "Branch", "Return"} -> <<i.lhs>>
      [] i.op = "Binary" -> <<i.lhs, i.rhs>>
      [] i.op = "Call" -> i.args
      [] OTHER -> <<>>
Reads(i) == LET r == ReadsOf(i) IN {r[k] : k \in DOMAIN r}

\* mutant: what holds before a label is taken to hold behind it
IsControlBoundaryJumps(i) == i.op \in {"Goto", "Branch", "Return", "ReturnVoid"}

IsControlBoundary(i) == i.op \in {"Label", "Goto", "Branch", "Return", "ReturnVoid"}

-----------------------------------------------------------------------------
(* Instruction lists. *)

\* op applied over the positions 1 .. n, first to last.  The singleton is for TLC, which
\* has the value at k - 1 before it turns to op and so needs little of its stack.
Walk(op(_, _), base, n) ==
    LET at[k \in 0 .. n] ==
            IF k = 0 THEN base ELSE CHOOSE v \in {op(u, k) : u \in {at[k-1]}} : TRUE
    IN  at[n]

\* the instructions at the positions of P, in order
KeepAt(body, P) ==
    Walk(LAMBDA code, k : IF k \in P THEN Append(code, body[k]) ELSE code, <<>>, Len(body))

Labels(body) == {body[k].label : k \in {j \in DOMAIN body : body[j].op = "Label"}}
PositionOf(body, l) == CHOOSE k \in DOMAIN body : body[k].op = "Label" /\ body[k].label = l

Occurrences(s, seq) == Cardinality({k \in DOMAIN seq : seq[k] = s})

UseCount(body, s) ==
    Walk(LAMBDA n, k : n + Occurrences(s, ReadsOf(body[k])), 0, Len(body))

DefsOf(body, s) == {k \in DOMAIN body : DefinesSlot(body[k]) /\ body[k].dest = s}

FunctionNamed(prog, f) ==
    prog.functions[CHOOSE k \in DOMAIN prog.functions : prog.functions[k].name = f]
FunctionNames(prog) == {prog.functions[k].name : k \in DOMAIN prog.functions}

-----------------------------------------------------------------------------
(* What every stage of the compiler may take for granted of a program.     *)

UnaryOpers == {"plus", "minus", "not"}
BinaryOpers == {"lt", "gt", "le", "ge", "eq", "ne", "add", "sub", "mul", "div", "mod"}

IsList(s) == s \in Seq({s[k] : k \in DOMAIN s})

IsInstruction(i) ==
    /\ i = [op |-> i.op, dest |-> i.dest, lhs |-> i.lhs, rhs |-> i.rhs, value |-> i.value,
            oper |-> i.oper, label |-> i.label, falseLabel |-> i.falseLabel, name |-> i.name,
            args |-> i.args]
    /\ i.op \in {"Label", "Goto", "Branch", "Const", "Move", "LoadGlobal", "StoreGlobal",
                 "Unary", "Binary", "Call", "Return", "ReturnVoid"}
    /\ i.oper \in UnaryOpers \cup BinaryOpers
    /\ {i.dest, i.lhs, i.rhs} \subseteq Int /\ i.value \in Words \cup {Undef} /\ i.args \in Seq(Int)

\* The operands of i are among n slots; a call is one of a function in DOMAIN arity and
\* passes as many arguments as that takes.
FitsFrame(i, n, arity) ==
    /\ Reads(i) \subseteq 0 .. n - 1
    /\ (DefinesSlot(i) \/ i.op = "Call") => i.dest \in 0 .. n - 1
    /\ i.op = "Call" => i.name \in DOMAIN arity /\ Len(i.args) = arity[i.name]
    /\ i.op = "Unary" => i.oper \in UnaryOpers
    /\ i.op = "Binary" => i.oper \in BinaryOpers

IsFunction(fn, arity) ==
    /\ fn = [name |-> fn.name, params |-> fn.params, slotCount |-> fn.slotCount,
             named |-> fn.named, body |-> fn.body]
    /\ fn.slotCount \in Nat
    /\ fn.params \in Seq(0 .. fn.slotCount - 1) /\ fn.named \in Seq(0 .. fn.slotCount - 1)
    /\ IsList(fn.body)
    /\ \A n \in DOMAIN fn.body :
          IsInstruction(fn.body[n]) /\ FitsFrame(fn.body[n], fn.slotCount, arity)

Arity(prog) == [f \in FunctionNames(prog) |-> Len(FunctionNamed(prog, f).params)]

IsProgram(prog) ==
    /\ prog = [functions |-> prog.functions] /\ IsList(prog.functions)
    /\ \A k \in DOMAIN prog.functions : IsFunction(prog.functions[k], Arity(prog))
    /\ \A j, k \in DOMAIN prog.functions : prog.functions[j].name = prog.functions[k].name => j = k
    /\ "main" \in FunctionNames(prog)

-----------------------------------------------------------------------------
(* Running a program. *)

Frame(fn, args, dest) ==
    [fn |-> fn.name, pc |-> 1, dest |-> dest,
     env |-> [s \in 0 .. fn.slotCount - 1 |->
                IF \E k \in DOMAIN args : fn.params[k] = s
                THEN args[CHOOSE k \in DOMAIN args : fn.params[k] = s] ELSE Undef]]

\* what a defining instruction leaves in its slot
Effect(i, env, globals) ==
    CASE i.op = "Const" -> i.value
      [] i.op = "Move" -> env[i.lhs]
      [] i.op = "LoadGlobal" -> globals[i.name]
      [] i.op = "Unary" -> IF env[i.lhs] = Undef THEN Undef ELSE UnaryValue(i.oper, env[i.lhs])
      [] i.op = "Binary" ->
            IF \/ Undef \in {env[i.lhs], env[i.rhs]}
               \/ i.oper \in {"div", "mod"} /\ env[i.rhs] = 0
            THEN Undef ELSE BinaryValue(i.oper, env[i.lhs], env[i.rhs])

\* One instruction of the frame on top of the stack.
Step(prog, m) ==
    LET top  == Head(m.stack)
        body == FunctionNamed(prog, top.fn).body
        i    == body[top.pc]
        Stuck == [m EXCEPT !.halted = TRUE]
        At(pc) == [m EXCEPT !.stack[1].pc = pc]
        To(l) == IF l \in Labels(body) THEN At(PositionOf(body, l)) ELSE Stuck
        Side(l) == IF l = NoLabel THEN At(top.pc + 1) ELSE To(l)
        Pop(v) == IF Len(m.stack) = 1 THEN [m EXCEPT !.halted = TRUE, !.result = v]
                  ELSE [m EXCEPT !.stack = [Tail(m.stack) EXCEPT
                            ![1].pc = @ + 1, ![1].env[top.dest] = v]]
    IN  IF top.pc > Len(body) THEN Stuck
        ELSE CASE i.op = "Label" -> At(top.pc + 1)
          [] i.op = "Goto" -> To(i.label)
          [] i.op = "Branch" ->
                IF top.env[i.lhs] = Undef THEN Stuck
                ELSE IF top.env[i.lhs] # 0 THEN Side(i.label) ELSE Side(i.falseLabel)
          [] DefinesSlot(i) ->
                [m EXCEPT !.stack[1].pc = @ + 1,
                          !.stack[1].env[i.dest] = Effect(i, top.env, m.globals)]
          [] i.op = "StoreGlobal" ->
                [m EXCEPT !.stack[1].pc = @ + 1, !.globals[i.name] = top.env[i.lhs]]
          [] i.op = "Call" ->
                IF i.name \notin FunctionNames(prog) THEN Stuck
                ELSE [m EXCEPT !.stack =
                        <<Frame(FunctionNamed(prog, i.name),
                                [k \in DOMAIN i.args |-> top.env[i.args[k]]], i.dest)>> \o @]
          [] i.op = "Return" -> Pop(top.env[i.lhs])
          [] i.op = "ReturnVoid" -> Pop(Undef)

\* What main returns when the globals start as given; Undef if it has not
\* returned after Fuel * Fuel steps.
Outcome(prog, globals) ==
    LET start == [stack |-> <<Frame(FunctionNamed(prog, "main"), <<>>, NoSlot)>>,
                  globals |-> globals, halted |-> FALSE, result |-> Undef]
        Next(m, k) == IF m.halted THEN m ELSE Step(prog, m)
        Burst(m, k) == IF m.halted THEN m ELSE Walk(Next, m, Fuel)
    IN  Walk(Burst, start, Fuel).result

=============================================================================
