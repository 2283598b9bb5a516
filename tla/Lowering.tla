------------------------------ MODULE Lowering ------------------------------
(***************************************************************************)
(* The syntax tree and its lowering (src/ir/ir_builder.cpp).               *)
(*                                                                         *)
(* An expression, a statement or a declaration is a record whose field     *)
(* "is" names its AST class.  Builder methods are operators on the builder *)
(* b, a record with the fields of class Builder that change while one      *)
(* function is built:                                                      *)
(*                                                                         *)
(*    code, slots, labels   instructions so far, slotCount, nextLabel_     *)
(*    named                 namedSlots                                     *)
(*    scopes                innermost first; name -> binding               *)
(*    loops                 innermost first; break and continue labels     *)
(*    stop                  why the compiler is no more: "fatal" for a call *)
(*                          of fatal() (or a loop to leave where there is  *)
(*                          none), "trap" for a division that stops the    *)
(*                          machine; "none" while all is well              *)
(***************************************************************************)
EXTENDS ToyIR

CONSTANT Fatal      \* what a computation yields that calls fatal()

ASSUME FatalAssumption == Fatal \notin Int /\ Fatal # Undef

-----------------------------------------------------------------------------
(* Abstract syntax. *)

Num(v) == [is |-> "number", value |-> v]
Var(x) == [is |-> "name", name |-> x]
Un(o, e) == [is |-> "unary", oper |-> o, operand |-> e]
Bin(o, l, r) == [is |-> "binary", oper |-> o, left |-> l, right |-> r]
CallTo(f, args) == [is |-> "call", callee |-> f, args |-> args]

Empty == [is |-> "empty"]
Block(list) == [is |-> "block", list |-> list]
Eval(e) == [is |-> "expr", expr |-> e]
Assign(x, e) == [is |-> "assign", name |-> x, expr |-> e]
DeclVar(x, e) == [is |-> "var", name |-> x, expr |-> e]
DeclConst(x, e) == [is |-> "const", name |-> x, expr |-> e]
If(c, t) == [is |-> "if", cond |-> c, then |-> t, hasElse |-> FALSE, else |-> Empty]
IfElse(c, t, f) == [is |-> "if", cond |-> c, then |-> t, hasElse |-> TRUE, else |-> f]
While(c, s) == [is |-> "while", cond |-> c, body |-> s]
Break == [is |-> "break"]
Continue == [is |-> "continue"]
Ret(e) == [is |-> "return", hasValue |-> TRUE, expr |-> e]
RetVoid == [is |-> "return", hasValue |-> FALSE, expr |-> Num(0)]

FuncDef(f, void, params, body) ==
    [is |-> "func", name |-> f, void |-> void, params |-> params, body |-> body]

\* the declarations of a program, as they stand and sorted into values and functions
CompUnit(units) ==
    [units |-> units,
     decls |-> SelectSeq(units, LAMBDA u : u.is # "func"),
     functions |-> SelectSeq(units, LAMBDA u : u.is = "func")]

-----------------------------------------------------------------------------
(* Builder. *)

SlotBinding(s) == [kind |-> "slot", slot |-> s, value |-> 0]
GlobalBinding == [kind |-> "global", slot |-> NoSlot, value |-> 0]
ConstantBinding(v) == [kind |-> "constant", slot |-> NoSlot, value |-> v]

Unbound == [kind |-> "none", slot |-> NoSlot, value |-> Fatal]

IsBound(scopes, x) == \E k \in DOMAIN scopes : x \in DOMAIN scopes[k]
Lookup(scopes, x) ==
    scopes[CHOOSE k \in DOMAIN scopes :
              x \in DOMAIN scopes[k] /\ \A j \in 1 .. k-1 : x \notin DOMAIN scopes[j]][x]
BindingOf(scopes, x) == IF IsBound(scopes, x) THEN Lookup(scopes, x) ELSE Unbound

PushScope(b) == [b EXCEPT !.scopes = <<<<>>>> \o @]
\* mutant: what a block declares stays visible
PopScopeNever(b) == b
PopScope(b) == [b EXCEPT !.scopes = Tail(@)]
Declare(b, x, binding) == [b EXCEPT !.scopes[1] = (x :> binding) @@ @]
Emit(b, i) == [b EXCEPT !.code = Append(@, i)]
NewSlot(b) == [b EXCEPT !.slots = @ + 1]
NewLabels(b, n) == [b EXCEPT !.labels = @ + n]
Stop(b, why) == IF b.stop = "none" THEN [b EXCEPT !.stop = why] ELSE b
StopOn(b, v) == CASE v = Fatal -> Stop(b, "fatal") [] v = Undef -> Stop(b, "trap") [] OTHER -> b

\* evalConst: the value; Fatal if a name is no constant or a call is met; Undef if
\* the division it makes stops the machine the compiler runs on.  Both logical
\* operators stop at a left operand that decides.
RECURSIVE EvalConst(_, _)
EvalConst(scopes, e) ==
    LET NoValue(v) == v \in {Undef, Fatal}
        Left  == EvalConst(scopes, e.left)
        Right == EvalConst(scopes, e.right)
        Truthy(v) == IF NoValue(v) THEN v ELSE Truth(v # 0)
    IN CASE e.is = "number" -> e.value
         [] e.is = "name" -> LET bound == BindingOf(scopes, e.name)
                             IN  IF bound.kind = "constant" THEN bound.value ELSE Fatal
         [] e.is = "call" -> Fatal
         [] e.is = "unary" -> LET v == EvalConst(scopes, e.operand)
                              IN  IF NoValue(v) THEN v ELSE UnaryValue(e.oper, v)
         [] e.is = "binary" /\ e.oper \in {"and", "or"} ->
              IF Truthy(Left) = Truth(e.oper = "and") THEN Truthy(Right) ELSE Truthy(Left)
         [] OTHER ->
              CASE NoValue(Left) -> Left
                [] ~NoValue(Left) /\ NoValue(Right) -> Right
                [] OTHER -> IF e.oper \in {"div", "mod"} /\ (Right = 0 \/ Overflows(e.oper, Left, Right))
                            THEN Undef ELSE BinaryValue(e.oper, Left, Right)

\* emitExpr: the builder afterwards and the slot that holds the value.  A local
\* is its own slot; the slot of a call is taken before its arguments are emitted.
RECURSIVE EmitExpr(_, _)
EmitExpr(b, e) ==
    LET Fresh(c, i) == [b |-> Emit(NewSlot(c), i), slot |-> c.slots]
    IN CASE e.is = "number" -> Fresh(b, Const(b.slots, e.value))
         [] e.is = "name" ->
              LET bound == BindingOf(b.scopes, e.name)
              IN  (CASE bound.kind = "none" -> [b |-> Stop(b, "fatal"), slot |-> NoSlot]
                     [] bound.kind = "slot" -> [b |-> b, slot |-> bound.slot]
                     [] bound.kind = "constant" -> Fresh(b, Const(b.slots, bound.value))
                     [] bound.kind = "global" -> Fresh(b, LoadGlobal(b.slots, e.name)))
         [] e.is = "unary" ->
              LET o == EmitExpr(b, e.operand)
              IN  Fresh(o.b, Unary(o.b.slots, e.oper, o.slot))
         [] e.is = "call" ->
              LET dest == b.slots
                  EmitArg(acc, k) ==
                      LET a == EmitExpr(acc.b, e.args[k])
                      IN  [b |-> a.b, slots |-> Append(acc.slots, a.slot)]
                  args == Walk(EmitArg, [b |-> NewSlot(b), slots |-> <<>>], Len(e.args))
              IN  [b |-> Emit(args.b, Call(dest, e.callee, args.slots)), slot |-> dest]
         [] e.is = "binary" /\ e.oper \in {"and", "or"} ->
              LET dest  == b.slots
                  short == <<IF e.oper = "and" THEN "and_false" ELSE "or_true", b.labels>>
                  end   == <<"logic_end", b.labels + 1>>
                  l     == EmitExpr(NewLabels(NewSlot(b), 2), e.left)
                  r     == EmitExpr(Emit(l.b, IF e.oper = "or"
                                              THEN Branch(l.slot, short, NoLabel)
                                              ELSE Branch(l.slot, NoLabel, short)), e.right)
              IN  [b |-> [r.b EXCEPT !.code = @ \o
                            <<Unary(dest, "not", r.slot), Unary(dest, "not", dest), Goto(end),
                              Label(short), Const(dest, Truth(e.oper = "or")), Label(end)>>],
                   slot |-> dest]
         [] OTHER ->
              LET l == EmitExpr(b, e.left)
                  r == EmitExpr(l.b, e.right)
              IN  Fresh(r.b, Binary(r.b.slots, e.oper, l.slot, r.slot))

\* emitStmt and emitDecl.  A local is bound before its initialiser is emitted.
RECURSIVE EmitStmt(_, _)
EmitStmt(b, s) ==
    CASE s.is = "empty" -> b
      [] s.is = "block" ->
            PopScope(Walk(LAMBDA c, k : EmitStmt(c, s.list[k]), PushScope(b), Len(s.list)))
      [] s.is = "expr" -> EmitExpr(b, s.expr).b
      [] s.is = "assign" ->
            LET v     == EmitExpr(b, s.expr)
                bound == BindingOf(v.b.scopes, s.name)
                c     == IF bound.kind = "none" THEN Stop(v.b, "fatal") ELSE v.b
            IN  Emit(c, IF bound.kind = "global" THEN StoreGlobal(s.name, v.slot)
                        ELSE Move(bound.slot, v.slot))
      [] s.is = "var" ->
            LET slot == b.slots
                c    == Declare([NewSlot(b) EXCEPT !.named = Append(@, slot)],
                                s.name, SlotBinding(slot))
                v    == EmitExpr(c, s.expr)
            IN  Emit(v.b, Move(slot, v.slot))
      [] s.is = "const" ->
            LET v == EvalConst(b.scopes, s.expr)
            IN  Declare(StopOn(b, v), s.name, ConstantBinding(v))
      [] s.is = "if" ->
            LET else == <<"else", b.labels>>
                end  == <<"ifend", b.labels + 1>>
                c    == EmitExpr(NewLabels(b, 2), s.cond)
                t    == Emit(EmitStmt(Emit(c.b, Branch(c.slot, NoLabel,
                                                       IF s.hasElse THEN else ELSE end)),
                                      s.then),
                             Goto(end))
                f    == IF s.hasElse THEN EmitStmt(Emit(t, Label(else)), s.else) ELSE t
            IN  Emit(f, Label(end))
      [] s.is = "while" ->
            LET cond == <<"while_cond", b.labels>>
                body == <<"while_body", b.labels + 1>>
                end  == <<"while_end", b.labels + 2>>
                in   == [NewLabels(b, 3) EXCEPT !.loops = <<[break |-> end, continue |-> cond]>> \o @]
                c    == EmitExpr(Emit(in, Label(cond)), s.cond)
                w    == EmitStmt(Emit(Emit(c.b, Branch(c.slot, NoLabel, end)), Label(body)), s.body)
            IN  [Emit(Emit(w, Goto(cond)), Label(end)) EXCEPT !.loops = Tail(@)]
      [] s.is \in {"break", "continue"} ->
            IF b.loops = <<>> THEN Stop(b, "fatal") ELSE Emit(b, Goto(Head(b.loops)[s.is]))
      [] s.is = "return" ->
            IF s.hasValue THEN LET v == EmitExpr(b, s.expr) IN Emit(v.b, Return(v.slot))
            ELSE Emit(b, ReturnVoid)

\* buildFunction
BuildFunction(globalScope, f) ==
    LET n     == Len(f.params)
        slots == [k \in 1 .. n |-> k - 1]
        names == [x \in {f.params[k] : k \in 1 .. n} |->
                     SlotBinding((CHOOSE k \in 1 .. n : f.params[k] = x) - 1)]
        start == [code |-> <<>>, slots |-> n, labels |-> 0, named |-> slots,
                  scopes |-> <<names, globalScope>>, loops |-> <<>>, stop |-> "none"]
        body  == EmitStmt(start, f.body)
    IN  IF f.void THEN Emit(body, ReturnVoid) ELSE body

Function(name, arity, b) ==
    [name |-> name, params |-> [k \in 1 .. arity |-> k - 1], slotCount |-> b.slots,
     named |-> b.named, body |-> b.code]

\* collectGlobals: a global initialiser sees the constants declared before it
CollectGlobal(scope, d) ==
    (d.name :> IF d.is = "const" THEN ConstantBinding(EvalConst(<<scope>>, d.expr))
               ELSE GlobalBinding) @@ scope
GlobalScope(decls) ==
    Walk(LAMBDA scope, k : CollectGlobal(scope, decls[k]), <<>>, Len(decls))

BuildIr(src) ==
    [functions |->
        [k \in DOMAIN src.functions |->
            LET f == src.functions[k]
            IN  Function(f.name, Len(f.params), BuildFunction(GlobalScope(src.decls), f))]]

=============================================================================
