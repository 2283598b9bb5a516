----------------------------- MODULE MCFrontEnd -----------------------------
(***************************************************************************)
(* Programs for the front end, right and wrong, in families.  "g" is a     *)
(* global variable and "k" a global constant, "f" takes an argument and    *)
(* returns a value, "p" takes one and returns none.                        *)
(***************************************************************************)
EXTENDS FrontEnd

a == Var("a")   g == Var("g")   k == Var("k")   x == Var("x")   c == Var("c")
Zero == Num(0)  One == Num(1)

Plus(l, r) == Bin("add", l, r)
Fun(f, params, list) == FuncDef(f, FALSE, params, Block(list))
Proc(f, params, list) == FuncDef(f, TRUE, params, Block(list))
Main(list) == Fun("main", <<>>, list)

F == Fun("f", <<"a">>, <<If(a, Ret(Plus(a, g))), Ret(k)>>)
P == Proc("p", <<"a">>, <<Assign("g", Plus(g, a))>>)
VarG == DeclVar("g", Zero)
ConstK == DeclConst("k", Num(3))

\* smaller than, equal to and larger than what the programs compare with
Around == {-2, 0, 1, 4}

-----------------------------------------------------------------------------
(* Statements of main: names, scopes, loops, calls.                        *)

DividesByZero == Bin("div", One, Zero)

Expressions == {x, Plus(x, k), CallTo("f", <<x>>), CallTo("f", <<>>), CallTo("p", <<One>>),
                Bin("and", g, CallTo("f", <<x>>)), CallTo("main", <<>>), Var("y")}

Initialisers == {Plus(k, One), g, Bin("and", Zero, DividesByZero),
                 Bin("or", k, DividesByZero), Bin("and", k, Plus(k, k)), CallTo("f", <<One>>)}

Simple == {Empty, Break, Continue, RetVoid, Ret(x), Assign("x", Plus(x, One)), Assign("k", One),
           Eval(CallTo("p", <<x>>)), DeclVar("x", Num(5)),
           DeclVar("y", Plus(g, One)), Assign("y", Num(7))}

Nested == {Block(<<d, s>>) : d \in {DeclVar("x", Plus(g, One)), DeclConst("x", k)}, s \in Simple}
          \cup {While(Bin("lt", x, One), Block(<<Assign("x", Plus(x, One)), s>>)) : s \in Simple}
          \cup {IfElse(g, Block(<<s>>), Assign("x", Num(9))) : s \in Simple}

Statements == Simple \cup Nested
              \cup {Assign("x", e) : e \in Expressions}
              \cup {Block(<<DeclConst("c", e), Assign("x", c)>>) : e \in Initialisers}

Scoping ==
    {CompUnit(<<ConstK, VarG, F, P, Main(<<DeclVar("x", g), s1, s2, Ret(Plus(x, g))>>)>>)
        : s1, s2 \in Statements}

-----------------------------------------------------------------------------
(* Bodies that return, or not, on every path.                              *)

Tails == {Ret(x), Empty, If(g, Ret(x)), While(g, Ret(x)), While(One, Ret(x)),
          While(g, Break), Assign("x", g)}
Ends == Tails \cup {IfElse(g, s, t) : s, t \in Tails} \cup {Block(<<s, t>>) : s, t \in Tails}

Returning ==
    {CompUnit(<<VarG, Fun("f", <<"x">>, <<s, t>>), Main(<<Ret(CallTo("f", <<Num(2)>>))>>)>>)
        : s \in Tails, t \in Ends}

-----------------------------------------------------------------------------
(* Declarations in any order, twice, or not at all.                        *)

Units == {ConstK, VarG, DeclConst("k", Plus(k, One)), DeclConst("g", k), DeclVar("f", k), F, P,
          Fun("f", <<"a", "a">>, <<Ret(a)>>), Proc("p", <<>>, <<RetVoid>>),
          Fun("f", <<"f">>, <<DeclVar("g", Var("f")), Ret(CallTo("f", <<g>>))>>)}

Mains == {Main(<<Ret(CallTo("f", <<One>>))>>), Main(<<Eval(CallTo("p", <<g>>)), Ret(g)>>),
          Proc("main", <<>>, <<>>), Fun("main", <<"a">>, <<Ret(a)>>)}

Declaring ==
    {CompUnit(<<u, v, w, m>>) : u, v, w \in Units, m \in Mains}
    \cup {CompUnit(<<u, m, v>>) : u, v \in Units, m \in Mains}

Programs == Scoping \cup Returning \cup Declaring

\* a constant nobody needs is divided by zero where no run gets to
ConstTrap ==
    {CompUnit(<<VarG, Main(<<If(Bin("lt", g, g), DeclConst("c", DividesByZero)), Ret(g)>>)>>)}

=============================================================================
