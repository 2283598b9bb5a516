------------------------------ MODULE Semantic ------------------------------
(***************************************************************************)
(* Semantic analysis (src/sema/semantic.cpp): which programs go on to      *)
(* lowering.  Methods of class Analyzer are operators on the analyzer c:   *)
(*                                                                         *)
(*    ok             fatal() was not called                                *)
(*    scopes         innermost first; name -> is it a constant             *)
(*    functions      functions_: name -> [void, arity, order]              *)
(*    name, void     the function being analysed                           *)
(*    loopDepth                                                            *)
(***************************************************************************)
EXTENDS Lowering

NewAnalyzer ==
    [ok |-> TRUE, scopes |-> <<<<>>>>, functions |-> <<>>, name |-> "", void |-> FALSE,
     loopDepth |-> 0]

Require(c, condition) == [c EXCEPT !.ok = @ /\ condition]

DeclareValue(c, x, isConst) ==
    [Require(c, x \notin DOMAIN c.scopes[1]) EXCEPT !.scopes[1] = (x :> isConst) @@ @]

IsConstant(scopes, x) == IsBound(scopes, x) /\ Lookup(scopes, x)

\* analyzeConstExpr
RECURSIVE ValidConst(_, _)
ValidConst(scopes, e) ==
    CASE e.is = "number" -> TRUE
      [] e.is = "name" -> IsConstant(scopes, e.name)
      [] e.is = "unary" -> ValidConst(scopes, e.operand)
      [] e.is = "binary" -> ValidConst(scopes, e.left) /\ ValidConst(scopes, e.right)
      [] e.is = "call" -> FALSE

\* mutant: a void call is accepted anywhere
CallableAnywhere(c, f, n, requireValue) ==
    /\ f \in DOMAIN c.functions
    /\ c.name = f \/ c.functions[f].order < c.functions[c.name].order
    /\ c.functions[f].arity = n

\* A call is of an earlier function or of the one it stands in, with its number of
\* arguments, and has a value if one is needed.
Callable(c, f, n, requireValue) ==
    /\ f \in DOMAIN c.functions
    /\ c.name = f \/ c.functions[f].order < c.functions[c.name].order
    /\ c.functions[f].arity = n
    /\ requireValue => ~c.functions[f].void

\* analyzeExpr
RECURSIVE ValidExpr(_, _, _)
ValidExpr(c, e, requireValue) ==
    CASE e.is = "number" -> TRUE
      [] e.is = "name" -> IsBound(c.scopes, e.name)
      [] e.is = "unary" -> ValidExpr(c, e.operand, TRUE)
      [] e.is = "binary" -> ValidExpr(c, e.left, TRUE) /\ ValidExpr(c, e.right, TRUE)
      [] e.is = "call" ->
            /\ Callable(c, e.callee, Len(e.args), requireValue)
            /\ \A k \in DOMAIN e.args : ValidExpr(c, e.args[k], TRUE)

\* mutant: a scope is left open
CloseScopeNever(c) == c
CloseScope(c) == [c EXCEPT !.scopes = Tail(@)]

\* analyzeStmt and analyzeDecl.  A local is declared after its initialiser.
RECURSIVE AnalyzeStmt(_, _)
AnalyzeStmt(c, s) ==
    CASE s.is = "empty" -> c
      [] s.is = "block" ->
            CloseScope(Walk(LAMBDA d, k : AnalyzeStmt(d, s.list[k]),
                            [c EXCEPT !.scopes = <<<<>>>> \o @], Len(s.list)))
      [] s.is = "expr" -> Require(c, ValidExpr(c, s.expr, FALSE))
      [] s.is = "assign" ->
            Require(c, /\ IsBound(c.scopes, s.name) /\ ~IsConstant(c.scopes, s.name)
                       /\ ValidExpr(c, s.expr, TRUE))
      [] s.is = "const" ->
            DeclareValue(Require(c, ValidConst(c.scopes, s.expr)), s.name, TRUE)
      [] s.is = "var" ->
            DeclareValue(Require(c, ValidExpr(c, s.expr, TRUE)), s.name, FALSE)
      [] s.is = "if" ->
            AnalyzeStmt(AnalyzeStmt(Require(c, ValidExpr(c, s.cond, TRUE)), s.then), s.else)
      [] s.is = "while" ->
            LET w == AnalyzeStmt([Require(c, ValidExpr(c, s.cond, TRUE)) EXCEPT !.loopDepth = @ + 1],
                                 s.body)
            IN  [w EXCEPT !.loopDepth = @ - 1]
      [] s.is \in {"break", "continue"} -> Require(c, c.loopDepth > 0)
      [] s.is = "return" ->
            Require(c, /\ s.hasValue = ~c.void
                       /\ s.hasValue => ValidExpr(c, s.expr, TRUE))

\* mutant: a loop that is entered returns
RECURSIVE MustReturnInLoops(_)
MustReturnInLoops(s) ==
    CASE s.is = "return" -> TRUE
      [] s.is = "block" -> \E k \in DOMAIN s.list : MustReturnInLoops(s.list[k])
      [] s.is = "if" -> s.hasElse /\ MustReturnInLoops(s.then) /\ MustReturnInLoops(s.else)
      [] s.is = "while" -> MustReturnInLoops(s.body)
      [] OTHER -> FALSE

RECURSIVE MustReturn(_)
MustReturn(s) ==
    CASE s.is = "return" -> TRUE
      [] s.is = "block" -> \E k \in DOMAIN s.list : MustReturn(s.list[k])
      [] s.is = "if" -> s.hasElse /\ MustReturn(s.then) /\ MustReturn(s.else)
      [] OTHER -> FALSE

\* collectGlobalsAndFunctions, for one declaration
Collect(c, u) ==
    IF u.is = "func"
    THEN [Require(c, u.name \notin DOMAIN c.scopes[1] \cup DOMAIN c.functions) EXCEPT
            !.functions = @ @@ (u.name :> [void |-> u.void, arity |-> Len(u.params),
                                           order |-> Cardinality(DOMAIN c.functions)])]
    ELSE DeclareValue(Require(c, ValidConst(c.scopes, u.expr)), u.name, u.is = "const")

HasMain(c) ==
    /\ "main" \in DOMAIN c.functions
    /\ ~c.functions["main"].void /\ c.functions["main"].arity = 0

\* analyzeFunction
AnalyzeFunction(c, f) ==
    LET in == Walk(LAMBDA d, k : DeclareValue(d, f.params[k], FALSE),
                   [c EXCEPT !.name = f.name, !.void = f.void, !.loopDepth = 0,
                             !.scopes = <<<<>>>> \o @],
                   Len(f.params))
    IN  Require(CloseScope(AnalyzeStmt(in, f.body)), f.void \/ MustReturn(f.body))

\* analyze
Accepted(src) ==
    LET collected == Walk(LAMBDA c, k : Collect(c, src.units[k]), NewAnalyzer, Len(src.units))
    IN  /\ collected.ok /\ HasMain(collected)
        /\ Walk(LAMBDA c, k : AnalyzeFunction(c, src.functions[k]), collected,
                Len(src.functions)).ok

=============================================================================
