----------------------------- MODULE MCBackend -----------------------------
(***************************************************************************)
(* Programs whose functions are emitted.  With two s-registers, two        *)
(* argument registers and two rows in the cache a function of three        *)
(* parameters and two locals has too little of each.                       *)
(***************************************************************************)
EXTENDS MCOptimizer, Backend

c == Var("c")

Firsts == {Num(70), Plus(a, b), Bin("lt", a, c), Minus(c, Num(1)), Bin("div", c, a),
           Bin("mod", a, Num(3)), Bin("div", b, Num(4)), Bin("div", a, Un("minus", Num(1))),
           Bin("and", a, b), Un("not", Bin("or", c, b)), g}
Seconds == {Num(70), Times(Plus(a, b), Minus(b, c)), Bin("ge", g, Times(b, Num(8))), CallTo("f", <<b, Num(2), a>>)}

Middles == {Empty, If(Less(x, y), Assign("x", Num(5))), While(Less(a, x), Add1("a")),
            IfElse(y, Block(<<Eval(CallTo("touch", <<>>)), Assign("g", Plus(x, a))>>), Ret(Bin("ne", x, g)))}

Touch == Proc("touch", <<>>, <<If(g, Block(<<Assign("g", Num(3)), Eval(CallTo("touch", <<>>))>>))>>)

Body(e1, e2, middle) ==
    <<DeclVar("x", e1), DeclVar("y", e2), middle, Ret(Plus(Times(x, y), Minus(x, a)))>>

\* f calls itself, so that it is not inlined and its parameters stay
Kept ==
    {Program(<<Touch,
               Fun("f", <<"a", "b", "c">>,
                   <<If(Less(a, Num(0)), Ret(Plus(a, CallTo("f", <<c, b, Plus(a, Num(1))>>))))>>
                       \o Body(e1, e2, middle)),
               Main(<<Ret(CallTo("f", <<g, h, Num(70)>>))>>)>>)
        : e1 \in Firsts, e2 \in Seconds, middle \in Middles}

\* main is the function f was inlined into, twice
Inlined ==
    {Program(<<Fun("f", <<"a", "b", "c">>, Body(e1, e2, middle)),
               Main(<<DeclVar("x", CallTo("f", <<g, h, Num(70)>>)),
                      Ret(Plus(x, CallTo("f", <<h, g, x>>)))>>)>>)
        : e1 \in Firsts \ {Bin("mod", a, Num(3))}, e2 \in {Num(70), Times(Plus(a, b), Minus(b, c))},
          middle \in {Empty, If(Less(x, y), Assign("x", Num(5)))}}

Compiled == Kept \cup Inlined

-----------------------------------------------------------------------------
(* Programs outside the families above, one for each finding.              *)

\* the result of an inlined function with two returns is an operand
TwoReturns ==
    {Program(<<Fun("f", <<"a">>, <<If(Less(a, Num(10)), Ret(Times(a, Num(3)))), Ret(Times(a, Num(5)))>>),
               Main(<<Ret(Plus(Num(1), CallTo("f", <<g>>)))>>)>>)}

\* the remainder by a constant and its dividend are added
DividendAgain ==
    {Program(<<Fun("f", <<"a">>, <<DeclVar("x", Bin("mod", a, Num(3))), Assign("h", Plus(x, a)), Ret(x)>>),
               Main(<<Ret(CallTo("f", <<g>>))>>)>>)}

\* a parameter is read and then set to a constant
SetParameter ==
    {Program(<<Fun("f", <<"a">>,
                   <<DeclVar("x", Minus(h, a)), Assign("a", Num(3)), If(Less(x, Num(0)), Ret(a)),
                     Ret(Plus(a, CallTo("f", <<x>>)))>>),
               Main(<<Ret(CallTo("f", <<g>>))>>)>>)}

ArgRegs == <<"a0", "a1">>
SRegs == <<"s2", "s3">>
Zero == {0}
=============================================================================
