--------------------------- MODULE SourceMeaning ---------------------------
(***************************************************************************)
(* What a ToyC program means, straight from its syntax tree and the way C  *)
(* defines it: the result every stage of the compiler has to preserve.     *)
(*                                                                         *)
(* An activation r holds its scopes (innermost first, name -> value), the  *)
(* globals, the value of its return, and a signal that says why control is *)
(* not going on: "break", "continue", "return", or "undefined" once the    *)
(* program has done something C gives no meaning to or has used up its     *)
(* allowance of loop rounds and calls.                                     *)
(***************************************************************************)
EXTENDS Lowering

CONSTANT Allowance

Holds(r, x) == {k \in DOMAIN r.scopes : x \in DOMAIN r.scopes[k]}
Innermost(r, x) == CHOOSE k \in Holds(r, x) : \A j \in Holds(r, x) : k =< j

ReadName(r, x) ==
    IF Holds(r, x) = {} THEN r.globals[x] ELSE r.scopes[Innermost(r, x)][x]
WriteName(r, x, v) ==
    IF Holds(r, x) = {} THEN [r EXCEPT !.globals[x] = v]
    ELSE [r EXCEPT !.scopes[Innermost(r, x)][x] = v]

Going(r) == r.signal = "none"
Undefined(r) == [r EXCEPT !.signal = "undefined"]
Spend(r) == IF r.allowance = 0 THEN Undefined(r) ELSE [r EXCEPT !.allowance = @ - 1]
Leave(r) == IF r.signal \in {"break", "continue"} THEN [r EXCEPT !.signal = "none"] ELSE r

RECURSIVE Value(_, _, _), Run(_, _, _)

\* The activation after e has been evaluated, and its value.
Value(src, r, e) ==
    LET Is(s, v) == IF v = Undef THEN [r |-> Undefined(s), v |-> 0] ELSE [r |-> s, v |-> v]
    IN CASE ~Going(r) -> [r |-> r, v |-> 0]
         [] Going(r) /\ e.is = "number" -> Is(r, e.value)
         [] Going(r) /\ e.is = "name" -> Is(r, ReadName(r, e.name))
         [] Going(r) /\ e.is = "unary" ->
              LET o == Value(src, r, e.operand) IN Is(o.r, UnaryValue(e.oper, o.v))
         [] Going(r) /\ e.is = "binary" ->
              LET l == Value(src, r, e.left)
                  r2 == Value(src, l.r, e.right)
              IN  CASE e.oper = "and" /\ l.v = 0 -> Is(l.r, 0)
                    [] e.oper = "or" /\ l.v # 0 -> Is(l.r, 1)
                    [] e.oper = "and" /\ l.v # 0 -> Is(r2.r, Truth(r2.v # 0))
                    [] e.oper = "or" /\ l.v = 0 -> Is(r2.r, Truth(r2.v # 0))
                    [] e.oper \in {"div", "mod"} /\ (r2.v = 0 \/ Overflows(e.oper, l.v, r2.v)) ->
                          Is(r2.r, Undef)
                    [] OTHER -> Is(r2.r, BinaryValue(e.oper, l.v, r2.v))
         [] Going(r) /\ e.is = "call" ->
              LET f    == FunctionNamed(src, e.callee)
                  n    == Len(e.args)
                  args == Walk(LAMBDA acc, k :
                                  LET a == Value(src, acc.r, e.args[k])
                                  IN  [r |-> a.r, vs |-> Append(acc.vs, a.v)],
                               [r |-> r, vs |-> <<>>], n)
                  bound == [x \in {f.params[k] : k \in 1 .. n} |->
                              args.vs[CHOOSE k \in 1 .. n : f.params[k] = x]]
                  in   == [Spend(args.r) EXCEPT
                              !.scopes = <<bound, r.scopes[Len(r.scopes)]>>]
                  out  == Run(src, in, f.body)
              IN  [r |-> [out EXCEPT !.scopes = args.r.scopes,
                                     !.signal = IF @ = "undefined" THEN @ ELSE "none"],
                   v |-> out.value]

\* The activation after s has run.
Run(src, r, s) ==
    CASE ~Going(r) -> r
      [] Going(r) /\ s.is = "empty" -> r
      [] Going(r) /\ s.is = "block" ->
            LET out == Walk(LAMBDA c, k : Run(src, c, s.list[k]),
                            [r EXCEPT !.scopes = <<<<>>>> \o @], Len(s.list))
            IN  [out EXCEPT !.scopes = Tail(@)]
      [] Going(r) /\ s.is = "expr" -> Value(src, r, s.expr).r
      [] Going(r) /\ s.is = "assign" ->
            LET v == Value(src, r, s.expr) IN WriteName(v.r, s.name, v.v)
      [] Going(r) /\ s.is \in {"var", "const"} ->
            LET v == Value(src, [r EXCEPT !.scopes[1] = (s.name :> Undef) @@ @], s.expr)
            IN  WriteName(v.r, s.name, v.v)
      [] Going(r) /\ s.is = "if" ->
            LET c == Value(src, r, s.cond)
            IN  IF c.v # 0 THEN Run(src, c.r, s.then) ELSE Run(src, c.r, s.else)
      [] Going(r) /\ s.is = "while" ->
            LET c == Value(src, Spend(r), s.cond)
                w == Run(src, c.r, s.body)
            IN  IF c.v = 0 THEN c.r
                ELSE IF w.signal = "break" THEN Leave(w) ELSE Run(src, Leave(w), s)
      [] Going(r) /\ s.is \in {"break", "continue"} -> [r EXCEPT !.signal = s.is]
      [] Going(r) /\ s.is = "return" ->
            LET v == Value(src, r, s.expr)
            IN  IF Going(v.r) THEN [v.r EXCEPT !.signal = "return", !.value = v.v] ELSE v.r

\* What main returns when the global variables start as given, or Undef.
Meaning(src, globals) ==
    LET start  == [scopes |-> <<<<>>>>, globals |-> globals, value |-> 0,
                   signal |-> "none", allowance |-> Allowance]
        \* a global variable holds what is given, if its initialiser has a value
        Define(r, d) == IF d.is = "const" THEN Run(src, r, d) ELSE Value(src, r, d.expr).r
        ready  == Walk(LAMBDA r, k : Define(r, src.decls[k]), start, Len(src.decls))
        main   == Run(src, [ready EXCEPT !.scopes = <<<<>>>> \o @],
                      FunctionNamed(src, "main").body)
    IN  IF main.signal = "return" THEN main.value ELSE Undef

=============================================================================
