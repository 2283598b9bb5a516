----------------------------- MODULE MCOptimizer -----------------------------
(***************************************************************************)
(* Source programs for TLC, in families.  "g" and "h" are the global       *)
(* variables: what they hold when main starts is the input.  The constants *)
(* of Arithmetic are larger than any slot number; programs outside what a  *)
(* pass gets right are in the sets named after the finding they show.      *)
(***************************************************************************)
EXTENDS Optimizer, Semantic

a == Var("a")   b == Var("b")   g == Var("g")   h == Var("h")   i == Var("i")
n == Var("n")   s == Var("s")   x == Var("x")   y == Var("y")   k == Var("k")

Plus(l, r) == Bin("add", l, r)
Minus(l, r) == Bin("sub", l, r)
Times(l, r) == Bin("mul", l, r)
Less(l, r) == Bin("lt", l, r)
Add1(v) == Assign(v, Plus(Var(v), Num(1)))

Program(functions) ==
    CompUnit(<<DeclVar("g", Num(0)), DeclVar("h", Num(0)), DeclConst("k", Num(60))>> \o functions)
Fun(f, params, list) == FuncDef(f, FALSE, params, Block(list))
Proc(f, params, list) == FuncDef(f, TRUE, params, Block(list))
Main(list) == Fun("main", <<>>, list)

\* inputs; Mixed has a value on either side of every comparison of Branching
Extremes == {-HalfRange, -3, 0, 70, HalfRange - 1}
NearZero == {-1, 0, 1, 2, 5}
Mixed == {-HalfRange, 0, 2, 70, HalfRange - 1}

-----------------------------------------------------------------------------
(* Straight-line arithmetic: two expressions that may share values, in a   *)
(* function that is inlined.                                               *)

Operands == {Plus(a, b), Plus(b, a), Minus(a, b), Minus(b, a), Times(a, Num(70)),
             Plus(Minus(a, Num(70)), Num(64)), Minus(Plus(b, Num(64)), Num(70)),
             Bin("div", Un("minus", a), b), Times(Bin("mod", b, Num(70)), Num(1)),
             Plus(Times(Num(0), a), Un("not", b))}

Arithmetic ==
    {Program(<<Fun("f", <<"a", "b">>,
                   <<DeclVar("x", e1), DeclVar("y", e2), Ret(Minus(Times(x, Num(90)), y))>>),
               Main(<<Ret(CallTo("f", <<g, Plus(h, k)>>))>>)>>)
        : e1, e2 \in Operands}

-----------------------------------------------------------------------------
(* Branches that meet again, conditions with effects, constants that are   *)
(* known on one side only.                                                 *)

Hit == Fun("hit", <<>>, <<Add1("h"), Ret(Bin("gt", h, Num(1)))>>)

Conditions == {x, Bin("eq", x, Num(70)), Bin("and", x, CallTo("hit", <<>>)),
               Bin("or", Bin("ge", x, Num(70)), CallTo("hit", <<>>)),
               Un("not", Bin("and", Num(0), CallTo("hit", <<>>)))}

Branching ==
    {Program(<<Hit,
               Main(<<DeclVar("x", e1), DeclVar("y", g),
                      IfElse(Less(g, Num(3)), Assign("x", e2), t),
                      IfElse(c, Block(<<DeclVar("x", Plus(y, h)), Assign("y", x)>>),
                                Ret(Minus(h, x))),
                      Ret(Plus(Times(y, Num(70)), Plus(x, h)))>>)>>)
        : e1, e2 \in {Num(0), Num(70), h},
          t \in {Empty, Block(<<Assign("x", Num(70)), Assign("y", x)>>), Ret(x)},
          c \in Conditions}

-----------------------------------------------------------------------------
(* Loops of the shape that is summed in closed form, ending or not.        *)

SumLoop(rel, first, step, bound, e, rest) ==
    <<DeclVar("s", g), DeclVar("i", Num(first)),
      While(Bin(rel, i, Num(bound)),
            Block(<<Assign("s", Plus(s, e)),
                    Assign("i", IF step > 0 THEN Plus(i, Num(step)) ELSE Minus(i, Num(-step)))>>))>>
    \o rest

Summation ==
    {Program(<<Main(SumLoop(rel, first, step, bound, e, <<Ret(Plus(s, Times(i, Num(70))))>>))>>)
        : rel \in {"lt", "le", "gt", "ge", "ne"}, first \in {0, 4}, step \in {1, 3, -2},
          bound \in {0, 3, 4}, e \in {Num(2), Times(Minus(i, Num(1)), Plus(i, Num(2)))}}

-----------------------------------------------------------------------------
(* Loops with jumps, calls, effects and values read behind them.           *)

Bump == Fun("bump", <<"a">>, <<Assign("h", Plus(h, a)), Ret(h)>>)
Twice == Fun("twice", <<"a">>, <<Assign("a", Plus(a, a)), Ret(a)>>)
Count == Fun("count", <<"n">>, <<While(Less(g, n), Add1("g")), Ret(g)>>)

Quiet == {Assign("s", Plus(s, Times(h, Num(70)))),
          Assign("s", Plus(s, CallTo("twice", <<h>>))),
          Block(<<Assign("x", Plus(g, Num(64))), Assign("s", Plus(s, x))>>),
          Block(<<If(Bin("eq", i, Num(2)), Break), Assign("s", Plus(s, Num(3)))>>),
          Block(<<Add1("i"), If(Less(h, i), Continue), Assign("x", h), Add1("g")>>),
          While(Less(s, i), Block(<<Assign("s", Plus(s, Num(2))), Add1("x")>>))}

Effects == {Block(<<Eval(CallTo("bump", <<i>>)), Assign("s", Plus(s, h))>>),
            IfElse(Less(i, x), Ret(x), Assign("s", CallTo("count", <<i>>)))}

Looping ==
    {Program(<<Bump, Twice, Count,
               Main(<<DeclVar("s", Num(0)), DeclVar("i", g), DeclVar("x", h),
                      While(Less(i, Num(3)), Block(<<w1, w2, Add1("i")>>)),
                      Ret(Plus(Times(s, Num(70)), Plus(x, h)))>>)>>)
        : w1 \in Quiet \cup Effects, w2 \in Quiet}

-----------------------------------------------------------------------------
(* Recursion, tail calls, chains of calls and effects of callees.          *)

Sum == Fun("sum", <<"n", "s">>,
           <<If(Less(n, Num(1)), Ret(s)), Ret(CallTo("sum", <<Minus(n, Num(1)), Plus(s, h)>>))>>)
Down == Fun("down", <<"n">>, <<Add1("h"), If(Less(n, Num(1)), Ret(Num(70))),
                               Ret(Plus(CallTo("down", <<Minus(n, Num(1))>>), h))>>)
Deep == Fun("deep", <<"n">>, <<If(Less(n, Num(1)), Ret(CallTo("down", <<n>>))),
                               Ret(Plus(CallTo("deep", <<Minus(n, Num(1))>>), Num(1)))>>)
Note == Proc("note", <<"a">>, <<If(Less(a, Num(3)), RetVoid), Assign("h", a)>>)
Outer == Fun("outer", <<"a">>, <<Eval(CallTo("note", <<CallTo("twice", <<a>>)>>)),
                                 Ret(Minus(CallTo("twice", <<Plus(a, h)>>), a))>>)

Calls == {CallTo("sum", <<Num(3), g>>), CallTo("down", <<Num(2)>>), CallTo("deep", <<Num(1)>>), CallTo("outer", <<g>>),
          CallTo("outer", <<CallTo("outer", <<h>>)>>), CallTo("twice", <<h>>)}

Calling ==
    {Program(<<Twice, Note, Outer, Sum, Down, Deep,
               Main(<<DeclVar("x", e1), DeclVar("y", e2),
                      Ret(Plus(Times(x, Num(70)), Minus(h, y)))>>)>>)
        : e1, e2 \in Calls}

-----------------------------------------------------------------------------
(* What the runs take.                                                     *)

\* divisions by what turns out to be zero, where no run with a meaning gets to
Untaken ==
    {Program(<<Main(<<DeclVar("x", Num(0)), DeclVar("y", g),
                      If(Less(g, g), Assign("y", Bin(op, e, x))), Ret(Plus(y, h))>>)>>)
        : op \in {"div", "mod"}, e \in {g, Num(70), Num(0)}}

Loopless == Arithmetic \cup Branching \cup Calling \cup Untaken
Loops == Summation \cup Looping

-----------------------------------------------------------------------------
(* Programs outside the families above, one set for each finding.          *)

\* the arguments of a tail call are parameters in another order
TailSwap ==
    {Program(<<Fun("f", <<"n", "a", "b">>,
                   <<If(Less(n, Num(1)), Ret(Minus(a, b))),
                     Ret(CallTo("f", <<Minus(n, Num(1)), b, a>>))>>),
               Main(<<Ret(CallTo("f", <<g, h, Num(70)>>))>>)>>)}

\* a second call becomes a tail call only after the first sweep
TailAgain ==
    {Program(<<Fun("f", <<"n", "s">>,
                   <<If(Less(n, Num(1)), Ret(s)),
                     If(Less(Num(3), n),
                        Block(<<DeclVar("x", CallTo("f", <<Minus(n, Num(1)), Plus(s, n)>>)), Ret(x)>>)),
                     Ret(CallTo("f", <<Minus(n, Num(1)), Plus(s, Num(1))>>))>>),
               Main(<<Ret(CallTo("f", <<g, h>>))>>)>>)}

\* x held the value of a + 1 and was assigned before a + 1 is computed again
CseOverwritten ==
    {Program(<<Fun("next", <<"n">>, <<Ret(Plus(n, Num(1)))>>),
               Fun("f", <<"a", "b">>,
                   <<DeclVar("x", Plus(a, Num(1))), Assign("x", Times(a, Num(3))),
                     DeclVar("y", CallTo("next", <<a>>)),
                     If(Bin("gt", b, Num(3)), Assign("x", Num(0))),
                     Ret(Plus(Plus(x, Times(y, Num(10))), b))>>),
               Main(<<Ret(CallTo("f", <<g, h>>))>>)>>)}

\* x held 2 and was assigned before it is multiplied
CseOldConstant ==
    {Program(<<Fun("mix", <<"x", "y">>, <<Ret(Plus(Times(x, y), Times(Num(2), y)))>>),
               Fun("f", <<"a", "b", "n">>,
                   <<DeclVar("x", Num(2)), Assign("x", Plus(a, b)), Ret(CallTo("mix", <<x, n>>))>>),
               Main(<<Ret(CallTo("f", <<g, h, Num(5)>>))>>)>>)}

\* the constant 1 and slot 1, which is b, have the same key
KeyClash ==
    {Program(<<Fun("f", <<"a", "b">>, <<Ret(Times(Plus(a, b), Plus(a, Num(1))))>>),
               Main(<<Ret(CallTo("f", <<g, h>>))>>)>>)}

\* a global is read in a loop before the call that changes it
LoadBeforeCall ==
    {Program(<<Bump,
               Main(<<DeclVar("s", Num(0)), DeclVar("i", Num(0)),
                      While(Less(i, g), Block(<<Assign("s", Plus(s, h)),
                                                Eval(CallTo("bump", <<Num(1)>>)), Add1("i")>>)),
                      Ret(s)>>)>>)}

\* the start of a summed loop is decided by a branch
SumStart ==
    {Program(<<Main(<<DeclVar("s", Num(0)), DeclVar("i", Num(0)), If(g, Assign("i", Num(2))),
                      While(Less(i, Num(4)), Block(<<Assign("s", Plus(s, i)), Add1("i")>>)),
                      Ret(s)>>)>>)}

\* a summed loop has a second condition
SumCondition ==
    {Program(<<Main(<<DeclVar("s", g), DeclVar("i", Num(0)),
                      While(Bin("and", Less(i, Num(4)), Less(s, Num(3))),
                            Block(<<Assign("s", Plus(s, i)), Add1("i")>>)),
                      Ret(s)>>)>>)}

\* the accumulator is scaled, not only added to
SumScaled ==
    {Program(<<Main(<<DeclVar("s", g), DeclVar("i", Num(0)),
                      While(Less(i, Num(4)),
                            Block(<<Assign("s", Plus(Times(s, Num(2)), Num(1))), Add1("i")>>)),
                      Ret(s)>>)>>)}

\* the least word divided by -1, where no run with a meaning gets to
FoldOverflow ==
    {Program(<<Main(<<DeclVar("x", Minus(Un("minus", Num(HalfRange - 1)), Num(1))),
                      If(g, Assign("x", Bin("div", x, Un("minus", Num(1))))),
                      Ret(h)>>)>>)}

\* a variable of the loop that is no accumulator: computed anew, or copied
SumOthers(e) ==
    {Program(<<Main(<<DeclVar("s", g), DeclVar("i", Num(0)), DeclVar("x", Num(0)),
                      While(Less(i, Num(4)),
                            Block(<<Assign("s", Plus(s, i)), Assign("x", e), Add1("i")>>)),
                      Ret(Plus(Times(s, Num(10)), x))>>)>>)}
SumComputed == SumOthers(Plus(i, Num(1)))
SumCopied == SumOthers(i)

\* a parameter assigned one constant, read as an addend before it
CombineParameter ==
    {Program(<<Fun("f", <<"a", "b">>,
                   <<DeclVar("x", Plus(Plus(a, b), Num(5))), Assign("b", Num(3)), Ret(x)>>),
               Main(<<Ret(CallTo("f", <<g, h>>))>>)>>)}

\* every program above is one that semantic analysis lets pass
ASSUME SourcesAccepted ==
    \A p \in UNION {Loopless, Loops, TailSwap, TailAgain, CseOverwritten, CseOldConstant, KeyClash,
                     LoadBeforeCall, SumStart, SumCondition, SumScaled, FoldOverflow, SumComputed,
                     SumCopied, CombineParameter} : Accepted(p)

=============================================================================
