----------------------------- MODULE CallPasses -----------------------------
(***************************************************************************)
(* The parts of src/ir/optim.cpp that work on calls and on the program as  *)
(* a whole: tail calls, purity, recursion, inlining and the removal of     *)
(* functions nobody calls.                                                 *)
(***************************************************************************)
EXTENDS LocalPasses

Callees(fn) == {fn.body[n].name : n \in {m \in DOMAIN fn.body : fn.body[m].op = "Call"}}

CalleesNamed(prog, f) ==
    IF f \in FunctionNames(prog) THEN Callees(FunctionNamed(prog, f)) ELSE {}

\* the functions a call of f may reach through at least one call
Reached(prog, f) ==
    Saturate(LAMBDA S : S \cup UNION {CalleesNamed(prog, g) : g \in S},
             CalleesNamed(prog, f), Len(prog.functions))

-----------------------------------------------------------------------------

TailEntry == <<"tail_entry", 0>>

\* A call of the function itself whose result is returned right away becomes
\* moves into the parameters, one after the other, and a jump to the entry.
TailCall(fn) ==
    LET body == fn.body
        IsTail(n) == /\ n \in 1 .. Len(body) - 1
                     /\ body[n].op = "Call" /\ body[n].name = fn.name
                     /\ body[n+1].op = "Return" /\ body[n+1].lhs = body[n].dest
        Moves(args) == [k \in DOMAIN args |-> Move(fn.params[k], args[k])]
        Rewritten(code, n) ==
            CASE IsTail(n) -> code \o Moves(body[n].args) \o <<Goto(TailEntry)>>
              [] IsTail(n - 1) -> code
              [] OTHER -> Append(code, body[n])
    IN  IF \E n \in DOMAIN body : IsTail(n)
        THEN [fn EXCEPT !.body = Walk(Rewritten, <<Label(TailEntry)>>, Len(body))]
        ELSE fn

-----------------------------------------------------------------------------

\* mutant: looks at a function's own stores only
PureFunctionsOwnStores(prog) ==
    {f \in FunctionNames(prog) :
        LET body == FunctionNamed(prog, f).body
        IN  ~\E n \in DOMAIN body : body[n].op = "StoreGlobal"}

\* computePureFunctions: what stays when every function that stores a global or
\* calls one outside the set is taken out, until there is none
PureFunctions(prog) ==
    LET Stores(fn) == \E n \in DOMAIN fn.body : fn.body[n].op = "StoreGlobal"
        Round(pure) == {f \in pure : LET fn == FunctionNamed(prog, f)
                                     IN  ~Stores(fn) /\ Callees(fn) \subseteq pure}
    IN  Saturate(Round, FunctionNames(prog), Len(prog.functions) + 1)

\* findRecursive: the functions on a cycle of calls, which the code finds as the
\* strongly connected components of the call graph
Recursive(prog) == {f \in FunctionNames(prog) : f \in Reached(prog, f)}

-----------------------------------------------------------------------------

MaxBody == 400

\* a jump backwards; jumps go to starts of blocks, so positions decide like blocks
HasLoop(body) == \E n \in DOMAIN body : \E m \in NextPositions(body, n) : m =< n

Inlinable(prog, recursive) ==
    {f \in FunctionNames(prog) \ recursive :
        LET fn == FunctionNamed(prog, f)
        IN  /\ Callees(fn) = {}
            /\ ~HasLoop(fn.body)
            /\ Len(fn.body) =< MaxBody}

\* mutant: numbers the labels within the callee only
InlinedLabelNoSite(site, k) == <<"inl", 0, k - 1>>

\* the labels of one inlined copy: the k-th of the callee, and the one behind it
InlinedLabel(site, k) == <<"inl", site, k - 1>>
Continuation(site) == <<"inl_cont", site>>

\* the parameters the callee assigns
AssignedParams(callee) ==
    KeepAt(callee.params, {k \in DOMAIN callee.params : DefsOf(callee.body, callee.params[k]) # {}})

\* The callee's body in place of the call, its slots moved up by base.  A
\* parameter it never assigns is the argument's slot itself; one it assigns gets
\* a slot of its own behind the others and a Move.
Expansion(call, callee, base, site) ==
    LET body     == callee.body
        assigned == AssignedParams(callee)
        Pos(seq, x) == CHOOSE k \in DOMAIN seq : seq[k] = x
        Has(seq, x) == \E k \in DOMAIN seq : seq[k] = x
        Arg(p) == call.args[Pos(callee.params, p)]
        Fresh(p) == base + callee.slotCount + Pos(assigned, p) - 1
        Slot(s) == CASE s = NoSlot -> s
                     [] Has(assigned, s) -> Fresh(s)
                     [] ~Has(assigned, s) /\ Has(callee.params, s) -> Arg(s)
                     [] OTHER -> s + base
        own  == KeepAt(body, {k \in DOMAIN body : body[k].op = "Label"})
        Name(l) == IF \E k \in DOMAIN own : own[k].label = l
                   THEN InlinedLabel(site, CHOOSE k \in DOMAIN own : own[k].label = l) ELSE l
        Copied(i) ==
            CASE i.op = "Return" ->
                    <<Move(call.dest, Slot(i.lhs)), Goto(Continuation(site))>>
              [] i.op = "ReturnVoid" -> <<Goto(Continuation(site))>>
              [] OTHER -> <<[i EXCEPT !.dest = Slot(@), !.lhs = Slot(@), !.rhs = Slot(@),
                                      !.label = Name(@), !.falseLabel = Name(@)]>>
    IN  [code  |-> [k \in DOMAIN assigned |-> Move(Fresh(assigned[k]), Arg(assigned[k]))]
                     \o Walk(LAMBDA code, n : code \o Copied(body[n]), <<>>, Len(body))
                     \o <<Label(Continuation(site))>>,
         slots |-> callee.slotCount + Len(assigned)]

\* inlineCallsInFunction: the caller with every inlinable call expanded, and the
\* next number of an inline site
InlineCalls(prog, caller, inlinable, site) ==
    LET One(acc, n) ==
            LET i == caller.body[n]
                e == Expansion(i, FunctionNamed(prog, i.name), acc.fn.slotCount, acc.site)
            IN  IF i.op = "Call" /\ i.name \in inlinable
                THEN [fn |-> [acc.fn EXCEPT !.body = @ \o e.code, !.slotCount = @ + e.slots],
                      site |-> acc.site + 1]
                ELSE [acc EXCEPT !.fn.body = Append(@, i)]
    IN  Walk(One, [fn |-> [caller EXCEPT !.body = <<>>], site |-> site], Len(caller.body))

-----------------------------------------------------------------------------

\* mutant: keeps what main calls and not what that calls
LiveFunctionsNear(prog) ==
    LET alive == {"main"} \cup CalleesNamed(prog, "main")
    IN  [prog EXCEPT !.functions = KeepAt(@, {k \in DOMAIN @ : @[k].name \in alive})]

\* deadFunctionElimination
LiveFunctions(prog) ==
    LET alive == {"main"} \cup Reached(prog, "main")
    IN  [prog EXCEPT !.functions = KeepAt(@, {k \in DOMAIN @ : @[k].name \in alive})]

=============================================================================
