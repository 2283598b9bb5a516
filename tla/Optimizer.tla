------------------------------ MODULE Optimizer ------------------------------
(***************************************************************************)
(* The middle of the compiler: buildIr and then optimizeProgram, from      *)
(* source programs whose meaning is known.                                 *)
(***************************************************************************)
EXTENDS SourceMeaning, PassManager

CONSTANTS
    Sources,      \* the programs compiled: [decls |-> ..., functions |-> ...]
    InputValues   \* what a global variable may hold when main starts

\* No pass looks at what a global variable starts with, so every value is one.
GlobalVars == {src.decls[k].name : k \in {j \in DOMAIN src.decls : src.decls[j].is = "var"}}
Inputs == [GlobalVars -> InputValues]

Init ==
    /\ src \in Sources
    /\ meaning = [g \in Inputs |-> Meaning(src, g)]
    /\ prog = BuildIr(src)
    /\ does = Results(prog, Inputs)
    /\ Called

Spec == Init /\ [][Next]_vars

\* The compiler keeps running, having nothing to wait for.  This is WF_vars(Next) with
\* ENABLED <<Next>>_vars written out: a pass is a total function, so there is a step
\* until the end is reached.
Running == []<>(stage \in {"done", "stopped"}) \/ []<><<TRUE>>_vars
FairSpec == Spec /\ Running

-----------------------------------------------------------------------------
(* Properties. *)

\* Whatever the global variables hold, a program that C gives a meaning to returns
\* just that after lowering and after every pass (CONTEXT.md: the execution result
\* matches the equivalent C program).
MeaningPreserved ==
    changed => \A g \in DOMAIN meaning : meaning[g] # Undef => does[g] = meaning[g]

\* Every pass by itself keeps what the program returns, whether or not C gives the
\* source a meaning, and after finitely many the program is delivered: sweeps,
\* rounds of inlining and repeated passes all come to an end.
Promise == INSTANCE Translation WITH Nothing <- Undef, delivered <- stage = "done"
TranslationKept == Promise!Spec

=============================================================================
