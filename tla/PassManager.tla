---------------------------- MODULE PassManager ----------------------------
(***************************************************************************)
(* optimizeProgram (src/ir/optim.cpp) as a process, one pass over one      *)
(* function at a time.                                                     *)
(* A sweep is optimizeFunction applied to every function in turn:          *)
(* four passes once, then the list Repeated until a whole round of it      *)
(* changes nothing, at most IterCap times.                                 *)
(*                                                                         *)
(*     "shrink"  the sweep before any inlining                             *)
(*     "inline"  inlineCallsInFunction on every function in turn           *)
(*     "clean"   the sweep after each round of inlining                    *)
(*     "final"   the last sweep, then "dead", then "done"                  *)
(*     "stopped" instead of any of them when the compiler itself has died  *)
(***************************************************************************)
EXTENDS GlobalPasses, LoopPasses, CallPasses

CONSTANTS
    IterCap,      \* rounds of the repeated passes; 16 in the code
    OuterCap      \* rounds of inlining; 6 in the code

ASSUME CapAssumption == IterCap \in Nat /\ OuterCap \in Nat

VARIABLES
    src,          \* the program being compiled (never changes)
    meaning,      \* what it means, for each input (never changes)
    prog,         \* the IR
    does,         \* what prog returns, for each input
    stage,        \* see above
    at,           \* position of the function at work in prog.functions
    pass,         \* position of the next pass in Passes
    iter,         \* rounds of the repeated passes finished on this function
    changed,      \* the last step changed the program
    any,          \* some pass of this round has, or some call was inlined
    outer,        \* rounds of inlining begun
    site,         \* next inline site
    pure, recursive, inlinable

vars == <<src, meaning, prog, does, stage, at, pass, iter, changed, any, outer, site,
          pure, recursive, inlinable>>

Once == <<"tailCall", "globalConstProp", "globalCopyProp", "globalCse">>
Repeated == <<"constFold", "branchFold", "deadBlock", "gotoCleanup", "copyProp", "cse",
              "copyCoalesce", "instCombine", "licm", "loopSumElim", "dce">>
Passes == Once \o Repeated

Results(program, inputs) == [g \in inputs |-> Outcome(program, g)]

\* does' after a step that has decided changed' and prog'
Observe == does' = IF changed' THEN Results(prog', DOMAIN does) ELSE does

Sweeps == {"shrink", "clean", "final"}
Current == prog.functions[at]

\* optimizeProgram is called: before its first step
Called ==
    /\ stage = "shrink" /\ at = 1 /\ pass = 1 /\ iter = 0
    /\ changed = TRUE /\ any = FALSE /\ outer = 0 /\ site = 0
    /\ pure = PureFunctions(prog) /\ recursive = Recursive(prog) /\ inlinable = {}

-----------------------------------------------------------------------------
(* One pass over the current function.                                     *)

\* a division was folded that stops the machine the compiler runs on
Stopped(fn) == \E n \in DOMAIN fn.body : fn.body[n].op = "Const" /\ fn.body[n].value = Undef

\* the pass just run replaced the current function by fn
After(fn) ==
    /\ prog' = [prog EXCEPT !.functions[at] = fn]
    /\ stage' = IF Stopped(fn) THEN "stopped" ELSE stage
    /\ changed' = (fn # Current)
    /\ Observe
    /\ any' = (pass > Len(Once) /\ (any \/ fn # Current))
    /\ pass' = pass + 1
    /\ UNCHANGED <<src, meaning, at, iter, outer, site, pure, recursive, inlinable>>

Turn(name) == stage \in Sweeps /\ pass =< Len(Passes) /\ Passes[pass] = name
OnBody(body) == [Current EXCEPT !.body = body]

RunTailCall == Turn("tailCall") /\ After(TailCall(Current))
RunGlobalConstProp == Turn("globalConstProp") /\ After(OnBody(GlobalConstProp(Current.body)))
RunGlobalCopyProp == Turn("globalCopyProp") /\ After(OnBody(GlobalCopyProp(Current.body)))
RunGlobalCse == Turn("globalCse") /\ After(OnBody(GlobalCse(Current.body)))
RunConstFold == Turn("constFold") /\ After(OnBody(ConstFold(Current.body)))
RunBranchFold == Turn("branchFold") /\ After(OnBody(BranchFold(Current.body)))
RunDeadBlock == Turn("deadBlock") /\ After(OnBody(DeadBlock(Current.body)))
RunGotoCleanup == Turn("gotoCleanup") /\ After(OnBody(GotoCleanup(Current.body)))
RunCopyProp == Turn("copyProp") /\ After(OnBody(CopyProp(Current.body)))
RunCse == Turn("cse") /\ After(OnBody(Cse(Current.body)))
RunCopyCoalesce == Turn("copyCoalesce") /\ After(OnBody(CopyCoalesce(Current.body)))
RunInstCombine == Turn("instCombine") /\ After(OnBody(InstCombine(Current.body)))
RunLicm == Turn("licm") /\ After(OnBody(Licm(Current.body, pure)))
RunLoopSumElim == Turn("loopSumElim") /\ After(LoopSumElim(Current))
RunDce == Turn("dce") /\ After(OnBody(Dce(Current.body)))

RunPass ==
    \/ RunTailCall \/ RunGlobalConstProp \/ RunGlobalCopyProp \/ RunGlobalCse
    \/ RunConstFold \/ RunBranchFold \/ RunDeadBlock \/ RunGotoCleanup
    \/ RunCopyProp \/ RunCse \/ RunCopyCoalesce \/ RunInstCombine
    \/ RunLicm \/ RunLoopSumElim \/ RunDce

-----------------------------------------------------------------------------
(* Between the passes.                                                     *)

RoundOver == stage \in Sweeps /\ pass > Len(Passes)

\* something changed: the repeated passes once more
Again ==
    /\ RoundOver /\ any /\ iter + 1 < IterCap
    /\ pass' = Len(Once) + 1 /\ iter' = iter + 1 /\ any' = FALSE /\ changed' = FALSE
    /\ UNCHANGED <<src, meaning, prog, does, stage, at, outer, site, pure, recursive, inlinable>>

\* mutant: one round is enough
FunctionOverOneRound == RoundOver

FunctionOver == RoundOver /\ ~(any /\ iter + 1 < IterCap)

NextFunction ==
    /\ FunctionOver /\ at < Len(prog.functions)
    /\ at' = at + 1 /\ pass' = 1 /\ iter' = 0 /\ any' = FALSE /\ changed' = FALSE
    /\ UNCHANGED <<src, meaning, prog, does, stage, outer, site, pure, recursive, inlinable>>

\* to stage s with the first function
Enter(s) ==
    /\ stage' = s /\ at' = 1 /\ pass' = 1 /\ iter' = 0 /\ any' = FALSE
    /\ UNCHANGED <<src, meaning, pure, recursive>>

\* one more round of inlining, or the last sweep
EndSweep ==
    /\ FunctionOver /\ at = Len(prog.functions) /\ stage # "final"
    /\ changed' = FALSE
    /\ UNCHANGED <<prog, does, site>>
    /\ IF outer < OuterCap
       THEN Enter("inline") /\ outer' = outer + 1 /\ inlinable' = Inlinable(prog, recursive)
       ELSE Enter("final") /\ UNCHANGED <<outer, inlinable>>

Inline ==
    /\ stage = "inline" /\ at =< Len(prog.functions)
    /\ LET e == InlineCalls(prog, Current, inlinable, site)
       IN  /\ prog' = [prog EXCEPT !.functions[at] = e.fn]
           /\ site' = e.site
           /\ changed' = (e.site > site)
           /\ Observe
           /\ any' = (any \/ e.site > site)
    /\ at' = at + 1
    /\ UNCHANGED <<src, meaning, stage, pass, iter, outer, pure, recursive, inlinable>>

\* mutant: one round of inlining
EndInlineOnce ==
    /\ stage = "inline" /\ at > Len(prog.functions)
    /\ Enter("final")
    /\ changed' = FALSE
    /\ UNCHANGED <<prog, does, outer, site, inlinable>>

EndInline ==
    /\ stage = "inline" /\ at > Len(prog.functions)
    /\ Enter(IF any THEN "clean" ELSE "final")
    /\ changed' = FALSE
    /\ UNCHANGED <<prog, does, outer, site, inlinable>>

EndFinal ==
    /\ FunctionOver /\ at = Len(prog.functions) /\ stage = "final"
    /\ Enter("dead")
    /\ changed' = FALSE
    /\ UNCHANGED <<prog, does, outer, site, inlinable>>

RemoveDead ==
    /\ stage = "dead"
    /\ Enter("done")
    /\ prog' = LiveFunctions(prog)
    /\ changed' = TRUE
    /\ Observe
    /\ UNCHANGED <<outer, site, inlinable>>

\* the program goes to code generation, or the compiler is no more
Finished == stage \in {"done", "stopped"} /\ UNCHANGED vars

Next ==
    \/ RunPass \/ Again \/ NextFunction \/ EndSweep
    \/ Inline \/ EndInline \/ EndFinal \/ RemoveDead \/ Finished

-----------------------------------------------------------------------------
(* Properties. *)

\* A valid program is translated (CONTEXT.md): folding does not bring the compiler
\* down, not even over a division the program never gets to.
Translated == stage # "stopped"

\* in the assembly text a label carries its function's name, unless inlining has
\* renamed it
AsmLabel(fn, l) == IF l[1] \in {"inl", "inl_cont"} THEN l ELSE <<fn.name>> \o l

LabelSites ==
    UNION {{<<k, n>> : n \in {m \in DOMAIN prog.functions[k].body :
                                prog.functions[k].body[m].op = "Label"}}
           : k \in DOMAIN prog.functions}

\* No two instructions define the same assembly label: inlining copies bodies, and
\* the tail-call pass comes by a function again in every sweep.
LabelsUnique ==
    LET At(p) == AsmLabel(prog.functions[p[1]], prog.functions[p[1]].body[p[2]].label)
    IN  changed => \A p, q \in LabelSites : At(p) = At(q) => p = q

\* A jump stays inside its function and finds its label.
JumpsResolved ==
    changed => \A k \in DOMAIN prog.functions :
        LET body == prog.functions[k].body
        IN  \A n \in DOMAIN body : {body[n].label, body[n].falseLabel} \ {NoLabel} \subseteq Labels(body)

\* What code generation takes for granted: every operand is a slot of the frame, and
\* every call is one of a function that is still there, with the arguments it takes.
WellFormed == changed => IsProgram(prog)

\* The analyses made before the first pass still hold after any of them: a function
\* counted pure stores no global, not even through code inlined into it; none has
\* become recursive; and what is being inlined is a leaf, so a copy brings no call.
AnalysesHold ==
    changed =>
        /\ pure \cap FunctionNames(prog) \subseteq PureFunctions(prog)
        /\ Recursive(prog) \subseteq recursive
        /\ stage = "inline" => \A f \in inlinable : Callees(FunctionNamed(prog, f)) = {}

\* The repeated passes settle: they never stop only because of the cap on their
\* rounds ("one final sweep ensures a fixed point").
Settled == FunctionOver => ~any

\* Inlining is complete: unless its rounds ran out, no call of a function that
\* qualifies is left.
InlinedOut ==
    (stage = "done" /\ outer < OuterCap) =>
        \A k \in DOMAIN prog.functions :
            Callees(prog.functions[k]) \cap Inlinable(prog, recursive) = {}

\* Passes that put a constant or another slot in the place of a slot that holds the same,
\* within a block or along every way through the function, never change what the program
\* returns, whatever has become of it by then: only where folding stops the compiler is
\* nothing left to say.
PropagationKeeps ==
    /\ \E p \in {"globalConstProp", "globalCopyProp", "constFold", "copyProp"} : Turn(p)
    /\ stage' # "stopped"
    => \A g \in DOMAIN does : does[g] # Undef => does'[g] = does[g]
PropagationKept == [][PropagationKeeps]_vars

LabelsDistinct(body) ==
    \A j, k \in DOMAIN body :
        body[j].op = "Label" /\ body[k].op = "Label" /\ body[j].label = body[k].label => j = k

\* Passes that leave instructions out, and the removal of functions at the end, never
\* change what the program returns either, whatever has become of it by then, as long as
\* it is plain where a jump goes: no label of the function is defined twice.
RemovalKeeps ==
    \/ /\ \E p \in {"branchFold", "deadBlock", "gotoCleanup", "dce"} : Turn(p)
       /\ LabelsDistinct(Current.body) /\ stage' # "stopped"
    \/ stage = "dead"
    => \A g \in DOMAIN does : does[g] # Undef => does'[g] = does[g]
RemovalKept == [][RemovalKeeps]_vars

=============================================================================
