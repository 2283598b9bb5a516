------------------------------ MODULE FrontEnd ------------------------------
(***************************************************************************)
(* The compiler from syntax tree to IR as a process: analyze and then      *)
(* buildIr (src/main.cpp), one declaration or function at a time.          *)
(*                                                                         *)
(*    "collect"   collectGlobalsAndFunctions, then requireMain             *)
(*    "analyze"   analyzeFunction                                          *)
(*    "globals"   collectGlobals of the builder                            *)
(*    "lower"     buildFunction, then "done"                               *)
(*    "rejected"  semantic analysis called fatal()                         *)
(*    "stopped"   the builder did, or its machine has stopped it           *)
(***************************************************************************)
EXTENDS Semantic, SourceMeaning

CONSTANTS
    Sources,        \* the programs given to the compiler, made by CompUnit
    InputValues     \* what a global variable may hold when main starts

VARIABLES
    src,            \* never changes
    phase,          \* see above
    at,             \* position of the next declaration or function
    analyzer,
    scope,          \* the builder's global scope
    ir,             \* the functions built so far
    stop            \* why the builder stopped

vars == <<src, phase, at, analyzer, scope, ir, stop>>

Init ==
    /\ src \in Sources
    /\ phase = "collect" /\ at = 1
    /\ analyzer = NewAnalyzer
    /\ scope = <<>> /\ ir = <<>> /\ stop = "none"

\* one step of semantic analysis, with what comes next
Analysed(c) ==
    /\ analyzer' = c
    /\ phase' = IF c.ok THEN phase ELSE "rejected"
    /\ at' = at + 1
    /\ UNCHANGED <<src, scope, ir, stop>>

CollectUnit ==
    /\ phase = "collect" /\ at =< Len(src.units)
    /\ Analysed(Collect(analyzer, src.units[at]))

RequireMain ==
    /\ phase = "collect" /\ at > Len(src.units)
    /\ phase' = IF HasMain(analyzer) THEN "analyze" ELSE "rejected"
    /\ at' = 1
    /\ UNCHANGED <<src, analyzer, scope, ir, stop>>

AnalyzeNext ==
    /\ phase = "analyze" /\ at =< Len(src.functions)
    /\ Analysed(AnalyzeFunction(analyzer, src.functions[at]))

\* one step of the builder
Built(why) ==
    /\ stop' = why
    /\ phase' = IF why = "none" THEN phase ELSE "stopped"
    /\ at' = at + 1
    /\ UNCHANGED <<src, analyzer>>

\* every initialiser is evaluated, a variable's too
BuildGlobal ==
    /\ phase = "globals" /\ at =< Len(src.decls)
    /\ LET v == EvalConst(<<scope>>, src.decls[at].expr)
       IN  Built(CASE v = Fatal -> "fatal" [] v = Undef -> "trap" [] OTHER -> "none")
    /\ scope' = CollectGlobal(scope, src.decls[at])
    /\ UNCHANGED ir

BuildNext ==
    /\ phase = "lower" /\ at =< Len(src.functions)
    /\ LET f == src.functions[at]
           b == BuildFunction(scope, f)
       IN  Built(b.stop) /\ ir' = Append(ir, Function(f.name, Len(f.params), b))
    /\ UNCHANGED scope

EndPhase ==
    /\ \/ phase = "analyze" /\ at > Len(src.functions) /\ phase' = "globals"
       \/ phase = "globals" /\ at > Len(src.decls) /\ phase' = "lower"
       \/ phase = "lower" /\ at > Len(src.functions) /\ phase' = "done"
    /\ at' = 1
    /\ UNCHANGED <<src, analyzer, scope, ir, stop>>

Finished == phase \in {"done", "rejected", "stopped"} /\ UNCHANGED vars

Next == CollectUnit \/ RequireMain \/ AnalyzeNext \/ BuildGlobal \/ BuildNext \/ EndPhase \/ Finished
Spec == Init /\ [][Next]_vars

-----------------------------------------------------------------------------
(* Properties. *)

\* Lowering has no error handling for a program that was accepted: every name it
\* looks up is bound, in the order and in the scopes of its own, a constant where it
\* needs one and never where it assigns; there is a loop around every break.
LoweringTotal ==
    /\ stop # "fatal"
    /\ \A k \in DOMAIN ir : \A n \in DOMAIN ir[k].body :
          DefinesSlot(ir[k].body[n]) => ir[k].body[n].dest # NoSlot

\* positions control can get to from the first
Reachable(body) ==
    LET Onward(n) ==
            IF n \notin DOMAIN body THEN {}
            ELSE LET i == body[n]
                     To(l) == IF l = NoLabel THEN n + 1 ELSE PositionOf(body, l)
                 IN  CASE i.op = "Goto" -> {To(i.label)}
                       [] i.op = "Branch" -> {To(i.label), To(i.falseLabel)}
                       [] i.op \in {"Return", "ReturnVoid"} -> {}
                       [] OTHER -> {n + 1}
    IN  Walk(LAMBDA S, k : S \cup UNION {Onward(n) : n \in S}, {1}, Len(body) + 1)

\* The emitter writes no return at the end of a function: whatever mustReturn let
\* pass leaves by a return on every path of the code that is built.
AlwaysReturns ==
    phase = "done" =>
        \A k \in DOMAIN ir : Len(ir[k].body) + 1 \notin Reachable(ir[k].body)

\* A call of a void function leaves nothing in its slot, and nothing reads it.
VoidResultUnread ==
    phase = "done" =>
        \A k \in DOMAIN ir : \A m, n \in DOMAIN ir[k].body :
            LET call == ir[k].body[m]
            IN  (call.op = "Call" /\ FunctionNamed(src, call.name).void) =>
                    call.dest \notin Reads(ir[k].body[n])

GlobalVars == {src.decls[n].name : n \in {m \in DOMAIN src.decls : src.decls[m].is = "var"}}

\* An accepted program that C gives a meaning to is lowered, and its IR returns just
\* that: inner declarations hide outer ones, a short-circuit operator skips what it
\* skips in C, at compile time too (CONTEXT.md: the execution result matches the
\* equivalent C program).
LoweringCorrect ==
    phase \in {"done", "stopped"} =>
        \A g \in [GlobalVars -> InputValues] :
            LET m == Meaning(src, g)
            IN  m # Undef => phase = "done" /\ Outcome([functions |-> ir], g) = m

=============================================================================
