---------------------------- MODULE Passes_proofs ----------------------------
(***************************************************************************)
(* What a pass makes of a function, for every function and every word      *)
(* width: instructions of the same kind.  A Context says what they may     *)
(* call, store and hold; Code(c, n) are the instructions it allows in a    *)
(* function with n slots.  Each pass has a lemma that it stays in Code,    *)
(* with n as large as it has made the frame.                               *)
(***************************************************************************)
EXTENDS GlobalPasses, LoopPasses, CallPasses, NumberFacts, SequenceTheorems, TLAPS

Slots(n) == 0 .. n - 1

\* what a Const may hold while a pass is at work
Constants == Words \cup {Undef}

\* What a function may call (and with how many arguments), whether it may store
\* globals, which it may load, the constants it may hold, and the names and labels its instructions have.
IsContext(c) ==
    /\ Words \subseteq c.values /\ c.values \subseteq Constants
    /\ c.stores \in BOOLEAN
    /\ "" \in c.names /\ NoLabel \in c.labels

Instructions(c) ==
    [op : {"Label", "Goto", "Branch", "Const", "Move", "LoadGlobal", "StoreGlobal", "Unary",
           "Binary", "Call", "Return", "ReturnVoid"},
     dest : Int, lhs : Int, rhs : Int, value : Constants,
     oper : UnaryOpers \cup BinaryOpers, label : c.labels, falseLabel : c.labels,
     name : c.names, args : Seq(Int)]

\* The instructions of a function with n slots.
Code(c, n) ==
    {i \in Instructions(c) : /\ FitsFrame(i, n, c.arity)
                             /\ i.op = "StoreGlobal" => c.stores
                             /\ i.op = "LoadGlobal" => i.name \in c.loads
                             /\ i.op = "Const" => i.value \in c.values}

LEMMA ReadsAre ==
    ASSUME NEW i
    PROVE  /\ i.op \in {"Move", "StoreGlobal", "Unary", "Branch", "Return"} => Reads(i) = {i.lhs}
           /\ i.op = "Binary" => Reads(i) = {i.lhs, i.rhs}
           /\ i.op = "Call" => Reads(i) = {i.args[k] : k \in DOMAIN i.args}
           /\ i.op \in {"Label", "Goto", "Const", "LoadGlobal", "ReturnVoid"} => Reads(i) = {}
<1>1. ASSUME NEW a PROVE {<<a>>[k] : k \in DOMAIN <<a>>} = {a}
  OBVIOUS
<1>2. ASSUME NEW a, NEW b PROVE {<<a, b>>[k] : k \in DOMAIN <<a, b>>} = {a, b}
  <2>1. DOMAIN <<a, b>> = {1, 2} /\ <<a, b>>[1] = a /\ <<a, b>>[2] = b
    OBVIOUS
  <2>2. QED
    BY <2>1
<1>3. CASE i.op \in {"Move", "StoreGlobal", "Unary", "Branch", "Return"}
  <2>1. ReadsOf(i) = <<i.lhs>>
    BY <1>3 DEF ReadsOf
  <2>2. QED
    BY <1>1, <1>3, <2>1 DEF Reads
<1>4. CASE i.op = "Binary"
  <2>1. ReadsOf(i) = <<i.lhs, i.rhs>>
    BY <1>4 DEF ReadsOf
  <2>2. QED
    BY <1>2, <1>4, <2>1 DEF Reads
<1>5. CASE i.op = "Call"
  <2>1. ReadsOf(i) = i.args
    BY <1>5 DEF ReadsOf
  <2>2. QED
    BY <1>5, <2>1 DEF Reads
<1>6. CASE i.op \in {"Label", "Goto", "Const", "LoadGlobal", "ReturnVoid"}
  <2>1. ReadsOf(i) = <<>>
    BY <1>6 DEF ReadsOf
  <2>2. QED
    BY <1>6, <2>1 DEF Reads
<1>7. QED
  BY <1>3, <1>4, <1>5, <1>6

\* What being such an instruction comes to, field by field.
LEMMA CodeIs ==
    ASSUME NEW c, NEW n \in Nat, NEW i \in Instructions(c)
    PROVE  i \in Code(c, n) <=>
             /\ i.op \in {"Move", "StoreGlobal", "Unary", "Branch", "Return", "Binary"} => i.lhs \in Slots(n)
             /\ i.op = "Binary" => i.rhs \in Slots(n) /\ i.oper \in BinaryOpers
             /\ i.op = "Unary" => i.oper \in UnaryOpers
             /\ i.op = "Call" => /\ \A k \in DOMAIN i.args : i.args[k] \in Slots(n)
                                 /\ i.name \in DOMAIN c.arity /\ Len(i.args) = c.arity[i.name]
             /\ i.op \in {"Const", "Move", "LoadGlobal", "Unary", "Binary", "Call"} => i.dest \in Slots(n)
             /\ i.op = "StoreGlobal" => c.stores
             /\ i.op = "LoadGlobal" => i.name \in c.loads
             /\ i.op = "Const" => i.value \in c.values
<1>1. i.op \in {"Label", "Goto", "Branch", "Const", "Move", "LoadGlobal", "StoreGlobal", "Unary",
           "Binary", "Call", "Return", "ReturnVoid"}
  BY DEF Instructions
<1>2. CASE i.op \in {"Move", "StoreGlobal", "Unary", "Branch", "Return"}
  <2>1. Reads(i) = {i.lhs}
    BY <1>2, ReadsAre
  <2>2. QED
    BY <1>2, <2>1 DEF Code, FitsFrame, DefinesSlot, Slots
<1>3. CASE i.op = "Binary"
  <2>1. Reads(i) = {i.lhs, i.rhs}
    BY <1>3, ReadsAre
  <2>2. QED
    BY <1>3, <2>1 DEF Code, FitsFrame, DefinesSlot, Slots
<1>4. CASE i.op = "Call"
  <2>1. Reads(i) = {i.args[k] : k \in DOMAIN i.args}
    BY <1>4, ReadsAre
  <2>2. QED
    BY <1>4, <2>1 DEF Code, FitsFrame, DefinesSlot, Slots
<1>5. CASE i.op \in {"Label", "Goto", "Const", "LoadGlobal", "ReturnVoid"}
  <2>1. Reads(i) = {}
    BY <1>5, ReadsAre
  <2>2. QED
    BY <1>5, <2>1 DEF Code, FitsFrame, DefinesSlot, Slots
<1>6. QED
  BY <1>1, <1>2, <1>3, <1>4, <1>5

\* The instructions passes make.
LEMMA Constructed ==
    ASSUME NEW c, IsContext(c), NEW n \in Nat
    PROVE  /\ \A d \in Slots(n), v \in c.values : Const(d, v) \in Code(c, n)
           /\ \A d, s \in Slots(n) : Move(d, s) \in Code(c, n)
           /\ \A d, s \in Slots(n) : Unary(d, "minus", s) \in Code(c, n)
           /\ \A d, s, u \in Slots(n) : Binary(d, "add", s, u) \in Code(c, n)
           /\ \A l \in c.labels : Goto(l) \in Code(c, n)
           /\ \A l \in c.labels : Label(l) \in Code(c, n)
<1>1. Blank \in Instructions(c)
  <2>1. NoLabel \in c.labels
    BY DEF IsContext
  <2>2. "" \in c.names
    BY DEF IsContext
  <2>3. <<>> \in Seq(Int)
    OBVIOUS
  <2>4. NoSlot \in Int /\ "plus" \in UnaryOpers \cup BinaryOpers
    BY DEF NoSlot, UnaryOpers
  <2> DEFINE O == {"Label", "Goto", "Branch", "Const", "Move", "LoadGlobal", "StoreGlobal", "Unary",
                   "Binary", "Call", "Return", "ReturnVoid"}
             P == UnaryOpers \cup BinaryOpers
             V == Constants
             A == Seq(Int)
             N == c.names
             L == c.labels
  <2>5. "Label" \in O /\ 0 \in V /\ Instructions(c) = [op : O, dest : Int, lhs : Int, rhs : Int, value : V,
     oper : P, label : L, falseLabel : L, name : N, args : A]
    BY HalfRangeIs DEF Instructions, Constants, Words
  <2>6. "plus" \in P /\ "" \in N /\ NoLabel \in L /\ <<>> \in A
    BY <2>1, <2>2, <2>3, <2>4
  <2> HIDE DEF O, P, V, A, N, L
  <2>7. Blank \in [op : O, dest : Int, lhs : Int, rhs : Int, value : V,
     oper : P, label : L, falseLabel : L, name : N, args : A]
    BY <2>4, <2>5, <2>6 DEF Blank
  <2>8. QED
    BY <2>5, <2>7
<1>2. \A s \in Slots(n) : s \in Int
  BY DEF Slots
<1>3. ASSUME NEW d \in Slots(n), NEW v \in c.values
      PROVE  Const(d, v) \in Code(c, n)
  <2> v \in Constants
    BY DEF IsContext
  <2>1. /\ Const(d, v) \in Instructions(c) /\ Const(d, v).op = "Const" /\ Const(d, v).dest = d
        /\ Const(d, v).value = v
    BY <1>1, <1>2, <1>3 DEF Const, Instructions, Blank
  <2>2. QED
    BY <2>1, CodeIs
<1>4. ASSUME NEW d \in Slots(n), NEW s \in Slots(n)
      PROVE  Move(d, s) \in Code(c, n) /\ Unary(d, "minus", s) \in Code(c, n)
  <2>1. Move(d, s) \in Instructions(c) /\ Move(d, s).op = "Move" /\ Move(d, s).dest = d /\ Move(d, s).lhs = s
    BY <1>1, <1>2, <1>4 DEF Move, Instructions, Blank
  <2>2. /\ Unary(d, "minus", s) \in Instructions(c) /\ Unary(d, "minus", s).op = "Unary"
        /\ Unary(d, "minus", s).dest = d /\ Unary(d, "minus", s).lhs = s
        /\ Unary(d, "minus", s).oper = "minus"
    BY <1>1, <1>2, <1>4 DEF Unary, Instructions, Blank, UnaryOpers
  <2>3. QED
    BY <2>1, <2>2, CodeIs DEF UnaryOpers
<1>5. ASSUME NEW d \in Slots(n), NEW s \in Slots(n), NEW u \in Slots(n)
      PROVE  Binary(d, "add", s, u) \in Code(c, n)
  <2>1. /\ Binary(d, "add", s, u) \in Instructions(c) /\ Binary(d, "add", s, u).op = "Binary"
        /\ Binary(d, "add", s, u).dest = d /\ Binary(d, "add", s, u).lhs = s
        /\ Binary(d, "add", s, u).rhs = u /\ Binary(d, "add", s, u).oper = "add"
    BY <1>1, <1>2, <1>5 DEF Binary, Instructions, Blank, BinaryOpers
  <2>2. QED
    BY <2>1, CodeIs DEF BinaryOpers
<1>6. ASSUME NEW l \in c.labels
      PROVE  Goto(l) \in Code(c, n) /\ Label(l) \in Code(c, n)
  <2>1. Goto(l) \in Instructions(c) /\ Goto(l).op = "Goto" /\ Label(l) \in Instructions(c) /\ Label(l).op = "Label"
    BY <1>1, <1>6 DEF Goto, Label, Instructions, Blank
  <2>2. QED
    BY <2>1, CodeIs
<1>7. QED
  BY <1>3, <1>4, <1>5, <1>6

-----------------------------------------------------------------------------
(* Walks.  Walk takes an operator, which no lemma can; so a walk whose     *)
(* state stays in a set is given as a function on that set.                *)

Walks(f, n, base, G) == f[0] = base /\ \A k \in 1 .. n : f[k] = G[<<f[k - 1], k>>]

LEMMA WalkExists ==
    ASSUME NEW n \in Nat, NEW S, NEW base \in S, NEW G \in [S \X (1 .. n) -> S]
    PROVE  \E f \in [0 .. n -> S] : Walks(f, n, base, G)
<1> DEFINE Is(f, m) == f[0] = base /\ \A k \in 1 .. m : f[k] = G[<<f[k - 1], k>>]
           T == {m \in Nat : m =< n => \E f \in [0 .. m -> S] : Is(f, m)}
<1>1. 0 \in T
  <2>1. [k \in 0 .. 0 |-> base] \in [0 .. 0 -> S] /\ Is([k \in 0 .. 0 |-> base], 0)
    OBVIOUS
  <2>2. QED
    BY <2>1
<1>2. ASSUME NEW m \in Nat, m \in T PROVE m + 1 \in T
  <2>1. SUFFICES ASSUME m + 1 =< n PROVE \E f \in [0 .. m + 1 -> S] : Is(f, m + 1)
    OBVIOUS
  <2>2. PICK f \in [0 .. m -> S] : Is(f, m)
    BY <1>2, <2>1
  <2> DEFINE g == [k \in 0 .. m + 1 |-> IF k = m + 1 THEN G[<<f[m], m + 1>>] ELSE f[k]]
  <2>3. f[m] \in S /\ m + 1 \in 1 .. n /\ G[<<f[m], m + 1>>] \in S
    BY <2>1
  <2>4. g \in [0 .. m + 1 -> S]
    BY <2>3
  <2>5. \A k \in 0 .. m : g[k] = f[k]
    OBVIOUS
  <2>6. g[m + 1] = G[<<g[m], m + 1>>]
    <3>1. m \in 0 .. m /\ m + 1 \in 0 .. m + 1
      OBVIOUS
    <3>2. QED
      BY <2>5, <3>1
  <2>7. g[0] = base
    <3>1. 0 \in 0 .. m
      OBVIOUS
    <3>2. QED
      BY <2>2, <2>5, <3>1
  <2> HIDE DEF g
  <2>8. ASSUME NEW k \in 1 .. m + 1 PROVE g[k] = G[<<g[k - 1], k>>]
    <3>1. CASE k = m + 1
      <4>1. k - 1 = m
        BY <3>1
      <4>2. QED
        BY <2>6, <3>1, <4>1
    <3>2. CASE k # m + 1
      <4>1. k \in 1 .. m /\ k \in 0 .. m /\ k - 1 \in 0 .. m
        BY <3>2
      <4>2. f[k] = G[<<f[k - 1], k>>]
        BY <2>2, <4>1
      <4>3. QED
        BY <2>5, <4>1, <4>2
    <3>3. QED
      BY <3>1, <3>2
  <2>9. QED
    BY <2>4, <2>7, <2>8
<1>3. n \in T
  <2> HIDE DEF T
  <2>1. QED
    BY <1>1, <1>2, Induction
<1>4. QED
  BY <1>3 DEF Walks

\* What holds at the start and is kept by every step holds all along.
LEMMA WalkStays ==
    ASSUME NEW n \in Nat, NEW S, NEW f, f[0] \in S,
           \A k \in 1 .. n : f[k - 1] \in S => f[k] \in S
    PROVE  \A k \in 0 .. n : f[k] \in S
<1> DEFINE T == {m \in Nat : m =< n => f[m] \in S}
<1>1. 0 \in T
  OBVIOUS
<1>2. ASSUME NEW m \in Nat, m \in T PROVE m + 1 \in T
  <2>1. SUFFICES ASSUME m + 1 =< n PROVE f[m + 1] \in S
    OBVIOUS
  <2>2. f[m] \in S /\ m + 1 \in 1 .. n /\ (m + 1) - 1 = m
    BY <1>2, <2>1
  <2>3. QED
    BY <2>2
<1>3. Nat \subseteq T
  <2> HIDE DEF T
  <2>1. QED
    BY <1>1, <1>2, Induction
<1>4. QED
  BY <1>3

\* A list shortened to the positions of P.
LEMMA KeepAtStays ==
    ASSUME NEW S, NEW body \in Seq(S), NEW P
    PROVE  KeepAt(body, P) \in Seq(S)
<1> DEFINE n == Len(body)
           base == <<>>
           op(code, k) == IF k \in P THEN Append(code, body[k]) ELSE code
           Is(f) == f = [k \in 0 .. n |-> IF k = 0 THEN base
                                        ELSE CHOOSE v \in {op(u, k) : u \in {f[k - 1]}} : TRUE]
           at == CHOOSE f : Is(f)
           C == Seq(S)
<1>1. n \in Nat /\ base \in C
  OBVIOUS
<1>2. \A u \in C, k \in 1 .. n : op(u, k) \in C
  OBVIOUS
<1>3. KeepAt(body, P) = at[n]
  BY DEF KeepAt, Walk
<1> HIDE DEF op, C, n, base
<1> DEFINE G == [z \in C \X (1 .. n) |-> op(z[1], z[2])]
<1>4. G \in [C \X (1 .. n) -> C] /\ \A u \in C, k \in 1 .. n : G[<<u, k>>] = op(u, k)
  BY <1>2
<1> HIDE DEF G
<1>5. PICK f \in [0 .. n -> C] : Walks(f, n, base, G)
  BY <1>1, <1>4, WalkExists
<1>6. Is(f)
  <2>1. ASSUME NEW k \in 1 .. n PROVE k - 1 \in 0 .. n /\ k # 0 /\ f[k] = op(f[k - 1], k)
    <3>1. k - 1 \in 0 .. n /\ k # 0
      BY <1>1
    <3>2. f[k - 1] \in C
      BY <3>1
    <3>3. QED
      BY <1>4, <1>5, <3>1, <3>2 DEF Walks
  <2>2. \A k \in 0 .. n : k # 0 => k \in 1 .. n
    BY <1>1
  <2>3. f[0] = base
    BY <1>5 DEF Walks
  <2>4. QED
    BY <2>1, <2>2, <2>3
<1>7. Is(at)
  BY <1>6
<1> HIDE DEF at
<1>8. at[0] = base /\ \A k \in 1 .. n : at[k] = op(at[k - 1], k)
  <2>1. 0 \in 0 .. n /\ \A k \in 1 .. n : k \in 0 .. n /\ k # 0
    BY <1>1
  <2>2. at[0] = base
    BY <1>7, <2>1
  <2>3. ASSUME NEW k \in 1 .. n PROVE at[k] = op(at[k - 1], k)
    <3>1. at[k] = CHOOSE v \in {op(u, k) : u \in {at[k - 1]}} : TRUE
      BY <1>7, <2>1
    <3>2. QED
      BY <3>1
  <2>4. QED
    BY <2>2, <2>3
<1>9. \A k \in 0 .. n : at[k] \in C
  <2>1. \A k \in 1 .. n : at[k - 1] \in C => at[k] \in C
    BY <1>2, <1>8
  <2>2. at[0] \in C
    BY <1>1, <1>8
  <2>3. QED
    BY <1>1, <2>1, <2>2, WalkStays
<1>10. at[n] \in C
  BY <1>1, <1>9
<1>11. QED
  BY <1>3, <1>10 DEF C

-----------------------------------------------------------------------------
(* Maps and values.                                                        *)

Maps(K, V) == UNION {[D -> V] : D \in SUBSET K}

\* The maps of the passes, and what is done to them.
LEMMA MapsAre ==
    ASSUME NEW K, NEW V
    PROVE  /\ Nothing \in Maps(K, V)
           /\ \A m \in Maps(K, V) : DOMAIN m \subseteq K /\ \A x \in DOMAIN m : m[x] \in V
           /\ \A m \in Maps(K, V) : \A d : Forget(m, d) \in Maps(K, V)
           /\ \A m \in Maps(K, V), d \in K, v \in V : Bind(m, d, v) \in Maps(K, V)
<1>1. Nothing \in [{} -> V]
  <2>1. DOMAIN <<>> = {} /\ <<>> = [x \in {} |-> x]
    OBVIOUS
  <2>2. QED
    BY <2>1 DEF Nothing
<1>2. ASSUME NEW m \in Maps(K, V)
      PROVE  DOMAIN m \subseteq K /\ m \in [DOMAIN m -> V]
  BY DEF Maps
<1>3. ASSUME NEW m \in Maps(K, V), NEW d PROVE Forget(m, d) \in Maps(K, V)
  <2>1. Forget(m, d) \in [DOMAIN m \ {d} -> V] /\ DOMAIN m \ {d} \in SUBSET K
    BY <1>2 DEF Forget
  <2>2. QED
    BY <2>1 DEF Maps
<1>4. ASSUME NEW m \in Maps(K, V), NEW d \in K, NEW v \in V PROVE Bind(m, d, v) \in Maps(K, V)
  <2>1. Bind(m, d, v) \in [DOMAIN m \cup {d} -> V] /\ DOMAIN m \cup {d} \in SUBSET K
    BY <1>2 DEF Bind
  <2>2. QED
    BY <2>1 DEF Maps
<1>5. QED
  <2>1. {} \in SUBSET K
    OBVIOUS
  <2>2. Nothing \in Maps(K, V)
    BY <1>1, <2>1 DEF Maps
  <2>3. QED
    BY <1>2, <1>3, <1>4, <2>2

LEMMA WordsAre ==
    /\ Words \subseteq Int /\ {0, 1} \subseteq Words
    /\ \A v \in Int : Wrap(v) \in Words /\ Wrap(v) \in Int
<1>1. Words \subseteq Int /\ {0, 1} \subseteq Words
  BY HalfRangeIs DEF Words
<1>2. QED
  BY <1>1, WrapWord

\* Operators on words give words.
LEMMA ValuesAreWords ==
    /\ \A o \in UnaryOpers, v \in Words : UnaryValue(o, v) \in Words
    /\ \A o \in BinaryOpers, a, b \in Words : BinaryValue(o, a, b) \in Words
<1>1. ASSUME NEW o \in UnaryOpers, NEW v \in Words PROVE UnaryValue(o, v) \in Words
  <2>1. -v \in Int /\ Wrap(-v) \in Words
    BY WordsAre
  <2>2. Truth(v = 0) \in Words
    BY WordsAre DEF Truth
  <2>3. QED
    BY <2>1, <2>2 DEF UnaryValue, UnaryOpers
<1>2. ASSUME NEW o \in BinaryOpers, NEW a \in Words, NEW b \in Words
      PROVE  BinaryValue(o, a, b) \in Words
  <2>1. CASE o \in {"lt", "gt", "le", "ge", "eq", "ne"}
    <3>1. \A t \in BOOLEAN : Truth(t) \in Words
      BY WordsAre DEF Truth
    <3>2. (a < b) \in BOOLEAN /\ (a > b) \in BOOLEAN /\ (a =< b) \in BOOLEAN /\ (a >= b) \in BOOLEAN
      OBVIOUS
    <3>3. QED
      BY <2>1, <3>1, <3>2 DEF BinaryValue
  <2>2. CASE o \in {"add", "sub", "mul"}
    <3>1. Wrap(a + b) \in Words /\ Wrap(a - b) \in Words /\ Wrap(a * b) \in Words
      <4>1. a \in Int /\ b \in Int
        BY WordsAre
      <4>2. a + b \in Int /\ a - b \in Int /\ a * b \in Int
        BY <4>1
      <4>3. QED
        BY <4>2, WordsAre
    <3>2. QED
      BY <2>2, <3>1 DEF BinaryValue
  <2>3. CASE o \in {"div", "mod"} /\ b = 0
    BY <2>3, WordsAre DEF BinaryValue
  <2>4. CASE o \in {"div", "mod"} /\ b # 0
    <3>1. Quotient(a, b) \in Int /\ a - b * Quotient(a, b) \in Words
      BY <2>4, QuotientWord
    <3>2. Wrap(Quotient(a, b)) \in Words
      BY <3>1, WordsAre
    <3>3. QED
      BY <2>4, <3>1, <3>2 DEF BinaryValue
  <2>5. QED
    BY <2>1, <2>2, <2>3, <2>4 DEF BinaryOpers
<1>3. QED
  BY <1>1, <1>2

-----------------------------------------------------------------------------
(* Constants. *)

Known(n) == Maps(Slots(n), Constants)

LEMMA FoldedIsConstant ==
    ASSUME NEW c, NEW n \in Nat, NEW i \in Code(c, n), NEW k \in Known(n), Foldable(i, k)
    PROVE  FoldedValue(i, k) \in Constants
<1>1. i \in Instructions(c)
  BY DEF Code
<1>2. \A s \in DOMAIN k : k[s] \in Constants
  BY MapsAre DEF Known
<1>3. CASE \E s \in Reads(i) : k[s] = Undef
  <2>1. CASE i.op = "Move"
    <3>1. k[i.lhs] = Undef
      BY <1>3, <2>1, ReadsAre
    <3>2. FoldedValue(i, k) = Undef
      BY <1>3, <2>1, <3>1 DEF FoldedValue
    <3>3. QED
      BY <3>2 DEF Constants
  <2>2. CASE i.op = "Unary"
    <3>1. k[i.lhs] = Undef
      BY <1>3, <2>2, ReadsAre
    <3>2. FoldedValue(i, k) = Undef
      BY <1>3, <2>2, <3>1 DEF FoldedValue
    <3>3. QED
      BY <3>2 DEF Constants
  <2>3. CASE i.op = "Binary"
    <3>1. k[i.lhs] = Undef \/ k[i.rhs] = Undef
      BY <1>3, <2>3, ReadsAre
    <3>2. FoldedValue(i, k) = Undef
      BY <1>3, <2>3, <3>1 DEF FoldedValue
    <3>3. QED
      BY <3>2 DEF Constants
  <2>4. QED
    BY <2>1, <2>2, <2>3 DEF Foldable
<1>4. CASE ~(\E s \in Reads(i) : k[s] = Undef) /\ i.op = "Move"
  <2>1. i.lhs \in DOMAIN k /\ k[i.lhs] # Undef
    BY <1>4, ReadsAre DEF Foldable
  <2>2. FoldedValue(i, k) = k[i.lhs]
    BY <1>4 DEF FoldedValue
  <2>3. QED
    BY <1>2, <2>1, <2>2
<1>5. CASE ~(\E s \in Reads(i) : k[s] = Undef) /\ i.op = "Unary"
  <2>1. i.lhs \in DOMAIN k /\ k[i.lhs] # Undef
    BY <1>5, ReadsAre DEF Foldable
  <2>2. k[i.lhs] \in Words /\ i.oper \in UnaryOpers
    BY <1>1, <1>2, <1>5, <2>1, CodeIs DEF Constants
  <2>3. FoldedValue(i, k) = UnaryValue(i.oper, k[i.lhs])
    BY <1>5, <2>1 DEF FoldedValue
  <2>4. QED
    BY <2>2, <2>3, ValuesAreWords DEF Constants
<1>6. CASE ~(\E s \in Reads(i) : k[s] = Undef) /\ i.op = "Binary"
  <2>1. i.lhs \in DOMAIN k /\ k[i.lhs] # Undef /\ i.rhs \in DOMAIN k /\ k[i.rhs] # Undef
    BY <1>6, ReadsAre DEF Foldable
  <2>2. k[i.lhs] \in Words /\ k[i.rhs] \in Words /\ i.oper \in BinaryOpers
    BY <1>1, <1>2, <1>6, <2>1, CodeIs DEF Constants
  <2>3. FoldedValue(i, k) = IF Overflows(i.oper, k[i.lhs], k[i.rhs]) THEN Undef
                            ELSE BinaryValue(i.oper, k[i.lhs], k[i.rhs])
    BY <1>6, <2>1 DEF FoldedValue
  <2>4. QED
    BY <2>2, <2>3, ValuesAreWords DEF Constants
<1>7. QED
  BY <1>3, <1>4, <1>5, <1>6 DEF Foldable

\* What is known stays a map from slots to constants.
LEMMA LearnStays ==
    ASSUME NEW c, NEW n \in Nat, NEW i \in Code(c, n), NEW known \in Known(n)
    PROVE  Learn(known, i) \in Known(n)
<1> DEFINE k == Forget(known, i.dest)
<1>1. k \in Known(n)
  BY MapsAre DEF Known
<1>2. i \in Instructions(c) /\ i.value \in Constants
  BY DEF Code, Instructions, Constants
<1>3. CASE i.op = "Const"
  <2>1. i.dest \in Slots(n)
    BY <1>2, <1>3, CodeIs
  <2>2. Learn(known, i) = Bind(k, i.dest, i.value)
    BY <1>3 DEF Learn, Foldable
  <2>3. QED
    BY <1>1, <1>2, <2>1, <2>2, MapsAre DEF Known
<1>4. CASE i.op # "Const" /\ Foldable(i, k)
  <2>1. i.dest \in Slots(n)
    BY <1>2, <1>4, CodeIs DEF Foldable
  <2>2. FoldedValue(i, k) \in Constants
    BY <1>1, <1>4, FoldedIsConstant
  <2>3. Learn(known, i) = Bind(k, i.dest, FoldedValue(i, k))
    BY <1>4 DEF Learn
  <2>4. QED
    BY <1>1, <2>1, <2>2, <2>3, MapsAre DEF Known
<1>5. CASE i.op # "Const" /\ ~Foldable(i, k)
  <2>1. Learn(known, i) = k
    BY <1>5 DEF Learn
  <2>2. QED
    BY <1>1, <2>1
<1>6. QED
  BY <1>3, <1>4, <1>5

\* What an instruction becomes fits the frame and calls nothing new.
LEMMA SimplifyStays ==
    ASSUME NEW c, IsContext(c), c.values = Constants, NEW n \in Nat, NEW i \in Code(c, n),
           NEW known \in Known(n)
    PROVE  Simplify(i, known) \in Code(c, n)
<1> DEFINE k == Forget(known, i.dest)
           Is(s, v) == s \in DOMAIN k /\ k[s] = v
           Bin(o) == i.op = "Binary" /\ i.oper = o
<1>1. k \in Known(n)
  BY MapsAre DEF Known
<1>2. i \in Instructions(c)
  BY DEF Code
<1>3. CASE Foldable(i, k)
  <2>1. i.dest \in Slots(n)
    BY <1>2, <1>3, CodeIs DEF Foldable
  <2>2. FoldedValue(i, k) \in c.values
    BY <1>1, <1>3, FoldedIsConstant
  <2>3. Simplify(i, known) = Const(i.dest, FoldedValue(i, k))
    BY <1>3 DEF Simplify
  <2>4. QED
    BY <2>1, <2>2, <2>3, Constructed
<1>4. CASE ~Foldable(i, k) /\ i.op = "Binary"
  <2>1. i.dest \in Slots(n) /\ i.lhs \in Slots(n) /\ i.rhs \in Slots(n)
    BY <1>2, <1>4, CodeIs
  <2>2. Simplify(i, known) \in {Move(i.dest, i.rhs), Move(i.dest, i.lhs),
                                Unary(i.dest, "minus", i.rhs), Const(i.dest, 0), i}
    BY <1>4 DEF Simplify
  <2>3. 0 \in c.values
    BY WordsAre DEF Constants
  <2>4. QED
    BY <2>1, <2>2, <2>3, Constructed
<1>5. CASE ~Foldable(i, k) /\ i.op # "Binary"
  <2>1. Simplify(i, known) = i
    BY <1>5 DEF Simplify
  <2>2. QED
    BY <2>1
<1>6. QED
  BY <1>3, <1>4, <1>5

LEMMA ConstFoldStays ==
    ASSUME NEW c, IsContext(c), c.values = Constants, NEW m \in Nat, NEW body \in Seq(Code(c, m))
    PROVE  ConstFold(body) \in Seq(Code(c, m))
<1> DEFINE n == Len(body)
           base == [known |-> Nothing, code |-> <<>>]
           op(acc, k) ==
              [known |-> IF IsControlBoundary(body[k]) THEN Nothing ELSE Learn(acc.known, body[k]),
               code  |-> Append(acc.code, Simplify(body[k], acc.known))]
           Is(f) == f = [k \in 0 .. n |-> IF k = 0 THEN base
                                        ELSE CHOOSE v \in {op(u, k) : u \in {f[k - 1]}} : TRUE]
           at == CHOOSE f : Is(f)
           C == [known : Known(m), code : Seq(Code(c, m))]
<1>1. n \in Nat /\ base \in C
  BY MapsAre DEF Known
<1>2. \A u \in C, k \in 1 .. n : op(u, k) \in C
  <2>1. TAKE u \in C, k \in 1 .. n
  <2>2. body[k] \in Code(c, m) /\ u.known \in Known(m) /\ u.code \in Seq(Code(c, m))
    OBVIOUS
  <2>3. Nothing \in Known(m)
    BY MapsAre DEF Known
  <2>4. Learn(u.known, body[k]) \in Known(m) /\ Simplify(body[k], u.known) \in Code(c, m)
    BY <2>2, LearnStays, SimplifyStays
  <2>5. QED
    BY <2>2, <2>3, <2>4
<1>3. ConstFold(body) = at[n].code
  BY DEF ConstFold, Walk
<1> HIDE DEF op, C, n, base
<1> DEFINE G == [z \in C \X (1 .. n) |-> op(z[1], z[2])]
<1>4. G \in [C \X (1 .. n) -> C] /\ \A u \in C, k \in 1 .. n : G[<<u, k>>] = op(u, k)
  BY <1>2
<1> HIDE DEF G
<1>5. PICK f \in [0 .. n -> C] : Walks(f, n, base, G)
  BY <1>1, <1>4, WalkExists
<1>6. Is(f)
  <2>1. ASSUME NEW k \in 1 .. n PROVE k - 1 \in 0 .. n /\ k # 0 /\ f[k] = op(f[k - 1], k)
    <3>1. k - 1 \in 0 .. n /\ k # 0
      BY <1>1
    <3>2. f[k - 1] \in C
      BY <3>1
    <3>3. QED
      BY <1>4, <1>5, <3>1, <3>2 DEF Walks
  <2>2. \A k \in 0 .. n : k # 0 => k \in 1 .. n
    BY <1>1
  <2>3. f[0] = base
    BY <1>5 DEF Walks
  <2>4. QED
    BY <2>1, <2>2, <2>3
<1>7. Is(at)
  BY <1>6
<1> HIDE DEF at
<1>8. at[0] = base /\ \A k \in 1 .. n : at[k] = op(at[k - 1], k)
  <2>1. 0 \in 0 .. n /\ \A k \in 1 .. n : k \in 0 .. n /\ k # 0
    BY <1>1
  <2>2. at[0] = base
    BY <1>7, <2>1
  <2>3. ASSUME NEW k \in 1 .. n PROVE at[k] = op(at[k - 1], k)
    <3>1. at[k] = CHOOSE v \in {op(u, k) : u \in {at[k - 1]}} : TRUE
      BY <1>7, <2>1
    <3>2. QED
      BY <3>1
  <2>4. QED
    BY <2>2, <2>3
<1>9. \A k \in 0 .. n : at[k] \in C
  <2>1. \A k \in 1 .. n : at[k - 1] \in C => at[k] \in C
    BY <1>2, <1>8
  <2>2. at[0] \in C
    BY <1>1, <1>8
  <2>3. QED
    BY <1>1, <2>1, <2>2, WalkStays
<1>10. at[n] \in C
  BY <1>1, <1>9
<1>11. QED
  BY <1>3, <1>10 DEF C

LEMMA BranchFoldStays ==
    ASSUME NEW c, IsContext(c), c.values = Constants, NEW m \in Nat, NEW body \in Seq(Code(c, m))
    PROVE  BranchFold(body) \in Seq(Code(c, m))
<1> DEFINE Folded(i, known) ==
              IF i.op = "Branch" /\ i.lhs \in DOMAIN known
              THEN LET target == IF known[i.lhs] = 0 THEN i.falseLabel ELSE i.label
                   IN  IF target = NoLabel THEN <<>> ELSE <<Goto(target)>>
              ELSE <<IF StopsAt(i, known) THEN Const(i.dest, Undef) ELSE i>>
           n == Len(body)
           base == [known |-> Nothing, code |-> <<>>]
           op(acc, k) ==
              [known |-> IF IsControlBoundary(body[k]) THEN Nothing ELSE Learn(acc.known, body[k]),
               code  |-> acc.code \o Folded(body[k], acc.known)]
           Is(f) == f = [k \in 0 .. n |-> IF k = 0 THEN base
                                        ELSE CHOOSE v \in {op(u, k) : u \in {f[k - 1]}} : TRUE]
           at == CHOOSE f : Is(f)
           C == [known : Known(m), code : Seq(Code(c, m))]
<1>1. n \in Nat /\ base \in C
  BY MapsAre DEF Known
<1>2. \A u \in C, k \in 1 .. n : op(u, k) \in C
  <2>1. TAKE u \in C, k \in 1 .. n
  <2>2. body[k] \in Code(c, m) /\ u.known \in Known(m) /\ u.code \in Seq(Code(c, m))
    OBVIOUS
  <2>3. Nothing \in Known(m)
    BY MapsAre DEF Known
  <2>4. Learn(u.known, body[k]) \in Known(m)
    BY <2>2, LearnStays
  <2>5. body[k].label \in c.labels /\ body[k].falseLabel \in c.labels
    BY <2>2 DEF Code, Instructions
  <2>6. Goto(body[k].label) \in Code(c, m) /\ Goto(body[k].falseLabel) \in Code(c, m)
    BY <2>5, Constructed
  <2>7. ASSUME StopsAt(body[k], u.known) PROVE Const(body[k].dest, Undef) \in Code(c, m)
    <3>1. body[k].op \in {"Move", "Unary", "Binary"}
      BY <2>7 DEF StopsAt, Foldable
    <3>2. body[k] \in Instructions(c) /\ body[k] \in Code(c, m)
      BY <2>2 DEF Code
    <3>3. body[k].dest \in Slots(m)
      BY <3>1, <3>2, CodeIs
    <3>4. Undef \in c.values
      BY DEF Constants
    <3>5. QED
      BY <3>3, <3>4, Constructed
  <2>a. Folded(body[k], u.known) \in Seq(Code(c, m))
    BY <2>2, <2>6, <2>7
  <2>8. u.code \o Folded(body[k], u.known) \in Seq(Code(c, m))
    <3> HIDE DEF Folded
    <3>1. QED
      BY <2>2, <2>a
  <2>9. QED
    BY <2>2, <2>3, <2>4, <2>8
<1>3. BranchFold(body) = at[n].code
  BY DEF BranchFold, Walk
<1> HIDE DEF op, C, n, base
<1> DEFINE G == [z \in C \X (1 .. n) |-> op(z[1], z[2])]
<1>4. G \in [C \X (1 .. n) -> C] /\ \A u \in C, k \in 1 .. n : G[<<u, k>>] = op(u, k)
  BY <1>2
<1> HIDE DEF G
<1>5. PICK f \in [0 .. n -> C] : Walks(f, n, base, G)
  BY <1>1, <1>4, WalkExists
<1>6. Is(f)
  <2>1. ASSUME NEW k \in 1 .. n PROVE k - 1 \in 0 .. n /\ k # 0 /\ f[k] = op(f[k - 1], k)
    <3>1. k - 1 \in 0 .. n /\ k # 0
      BY <1>1
    <3>2. f[k - 1] \in C
      BY <3>1
    <3>3. QED
      BY <1>4, <1>5, <3>1, <3>2 DEF Walks
  <2>2. \A k \in 0 .. n : k # 0 => k \in 1 .. n
    BY <1>1
  <2>3. f[0] = base
    BY <1>5 DEF Walks
  <2>4. QED
    BY <2>1, <2>2, <2>3
<1>7. Is(at)
  BY <1>6
<1> HIDE DEF at
<1>8. at[0] = base /\ \A k \in 1 .. n : at[k] = op(at[k - 1], k)
  <2>1. 0 \in 0 .. n /\ \A k \in 1 .. n : k \in 0 .. n /\ k # 0
    BY <1>1
  <2>2. at[0] = base
    BY <1>7, <2>1
  <2>3. ASSUME NEW k \in 1 .. n PROVE at[k] = op(at[k - 1], k)
    <3>1. at[k] = CHOOSE v \in {op(u, k) : u \in {at[k - 1]}} : TRUE
      BY <1>7, <2>1
    <3>2. QED
      BY <3>1
  <2>4. QED
    BY <2>2, <2>3
<1>9. \A k \in 0 .. n : at[k] \in C
  <2>1. \A k \in 1 .. n : at[k - 1] \in C => at[k] \in C
    BY <1>2, <1>8
  <2>2. at[0] \in C
    BY <1>1, <1>8
  <2>3. QED
    BY <1>1, <2>1, <2>2, WalkStays
<1>10. at[n] \in C
  BY <1>1, <1>9
<1>11. QED
  BY <1>3, <1>10 DEF C

LEMMA DeadBlockStays ==
    ASSUME NEW S, NEW body \in Seq(S)
    PROVE  DeadBlock(body) \in Seq(S)
BY KeepAtStays DEF DeadBlock

LEMMA GotoCleanupStays ==
    ASSUME NEW S, NEW body \in Seq(S)
    PROVE  GotoCleanup(body) \in Seq(S)
BY KeepAtStays DEF GotoCleanup

-----------------------------------------------------------------------------
(* Dead code and copies. *)

LEMMA DceStays ==
    ASSUME NEW S, NEW body \in Seq(S)
    PROVE  Dce(body) \in Seq(S)
<1> DEFINE Round(code) ==
              LET used == UNION {Reads(code[j]) : j \in DOMAIN code}
              IN  KeepAt(code, {j \in DOMAIN code : DefinesSlot(code[j]) => code[j].dest \in used})
           n == Len(body) + 1
           base == [x |-> body, stable |-> FALSE]
           op(acc, k) == IF acc.stable THEN acc
                         ELSE LET next == Round(acc.x) IN [x |-> next, stable |-> next = acc.x]
           Is(f) == f = [k \in 0 .. n |-> IF k = 0 THEN base
                                        ELSE CHOOSE v \in {op(u, k) : u \in {f[k - 1]}} : TRUE]
           at == CHOOSE f : Is(f)
           C == [x : Seq(S), stable : BOOLEAN]
<1>1. n \in Nat /\ base \in C
  OBVIOUS
<1>2. \A u \in C, k \in 1 .. n : op(u, k) \in C
  <2>1. TAKE u \in C, k \in 1 .. n
  <2>2. Round(u.x) \in Seq(S)
    BY KeepAtStays
  <2> HIDE DEF Round
  <2>3. QED
    BY <2>2
<1>3. Dce(body) = at[n].x
  BY DEF Dce, Saturate, Walk
<1> HIDE DEF op, C, n, base
<1> DEFINE G == [z \in C \X (1 .. n) |-> op(z[1], z[2])]
<1>4. G \in [C \X (1 .. n) -> C] /\ \A u \in C, k \in 1 .. n : G[<<u, k>>] = op(u, k)
  BY <1>2
<1> HIDE DEF G
<1>5. PICK f \in [0 .. n -> C] : Walks(f, n, base, G)
  BY <1>1, <1>4, WalkExists
<1>6. Is(f)
  <2>1. ASSUME NEW k \in 1 .. n PROVE k - 1 \in 0 .. n /\ k # 0 /\ f[k] = op(f[k - 1], k)
    <3>1. k - 1 \in 0 .. n /\ k # 0
      BY <1>1
    <3>2. f[k - 1] \in C
      BY <3>1
    <3>3. QED
      BY <1>4, <1>5, <3>1, <3>2 DEF Walks
  <2>2. \A k \in 0 .. n : k # 0 => k \in 1 .. n
    BY <1>1
  <2>3. f[0] = base
    BY <1>5 DEF Walks
  <2>4. QED
    BY <2>1, <2>2, <2>3
<1>7. Is(at)
  BY <1>6
<1> HIDE DEF at
<1>8. at[0] = base /\ \A k \in 1 .. n : at[k] = op(at[k - 1], k)
  <2>1. 0 \in 0 .. n /\ \A k \in 1 .. n : k \in 0 .. n /\ k # 0
    BY <1>1
  <2>2. at[0] = base
    BY <1>7, <2>1
  <2>3. ASSUME NEW k \in 1 .. n PROVE at[k] = op(at[k - 1], k)
    <3>1. at[k] = CHOOSE v \in {op(u, k) : u \in {at[k - 1]}} : TRUE
      BY <1>7, <2>1
    <3>2. QED
      BY <3>1
  <2>4. QED
    BY <2>2, <2>3
<1>9. \A k \in 0 .. n : at[k] \in C
  <2>1. \A k \in 1 .. n : at[k - 1] \in C => at[k] \in C
    BY <1>2, <1>8
  <2>2. at[0] \in C
    BY <1>1, <1>8
  <2>3. QED
    BY <1>1, <2>1, <2>2, WalkStays
<1>10. at[n] \in C
  BY <1>1, <1>9
<1>11. QED
  BY <1>3, <1>10 DEF C

Aliases(n) == Maps(Slots(n), Slots(n))

\* An alias lost is no harm.
LEMMA UnaliasStays ==
    ASSUME NEW K, NEW V, NEW alias \in Maps(K, V), NEW d
    PROVE  Unalias(alias, d) \in Maps(K, V)
<1> DEFINE D == {t \in DOMAIN alias : t # d /\ alias[t] # d}
<1>1. D \in SUBSET K /\ \A t \in D : alias[t] \in V
  BY MapsAre
<1>2. Unalias(alias, d) = [s \in D |-> alias[s]]
  BY DEF Unalias
<1> HIDE DEF D
<1>3. Unalias(alias, d) \in [D -> V]
  BY <1>1, <1>2
<1>4. QED
  BY <1>1, <1>3 DEF Maps

LEMMA AfterMoveStays ==
    ASSUME NEW c, NEW n \in Nat, NEW i \in Code(c, n), NEW alias \in Aliases(n)
    PROVE  AfterMove(alias, i) \in Aliases(n)
<1>1. Unalias(alias, i.dest) \in Aliases(n)
  BY UnaliasStays DEF Aliases
<1>2. i.op = "Move" => i.dest \in Slots(n) /\ i.lhs \in Slots(n)
  BY CodeIs DEF Code
<1>3. QED
  BY <1>1, <1>2, MapsAre DEF AfterMove, Aliases

\* Operands replaced by slots, an absent one by itself or a slot.
LEMMA SubstituteStays ==
    ASSUME NEW c, NEW n \in Nat, NEW i \in Code(c, n), NEW l \in Int, NEW r \in Int,
           i.lhs \in Slots(n) => l \in Slots(n), i.rhs \in Slots(n) => r \in Slots(n),
           i.op \in {"Move", "Unary", "Binary", "StoreGlobal", "Branch", "Return"}
    PROVE  [i EXCEPT !.lhs = l, !.rhs = r] \in Code(c, n)
<1> DEFINE j == [i EXCEPT !.lhs = l, !.rhs = r]
<1>1. i \in Instructions(c)
  BY DEF Code
<1>2. /\ j \in Instructions(c) /\ j.op = i.op /\ j.lhs = l /\ j.rhs = r /\ j.dest = i.dest
      /\ j.oper = i.oper /\ j.value = i.value /\ j.name = i.name /\ j.args = i.args
  BY <1>1 DEF Instructions
<1>3. /\ i.op \in {"Move", "StoreGlobal", "Unary", "Branch", "Return", "Binary"} => i.lhs \in Slots(n)
      /\ i.op = "Binary" => i.rhs \in Slots(n) /\ i.oper \in BinaryOpers
      /\ i.op = "Unary" => i.oper \in UnaryOpers
      /\ i.op \in {"Const", "Move", "LoadGlobal", "Unary", "Binary", "Call"} => i.dest \in Slots(n)
      /\ i.op = "StoreGlobal" => c.stores
  BY <1>1, CodeIs
<1> HIDE DEF j
<1>4. j \in Code(c, n)
  BY <1>2, <1>3, CodeIs
<1>5. QED
  BY <1>4 DEF j

\* the reads of i through alias, as copy propagation replaces them
Renamed(i, alias) == Substitute(i, LAMBDA s : IF s \in DOMAIN alias THEN alias[s] ELSE s)

LEMMA RenamedStays ==
    ASSUME NEW c, NEW m \in Nat, NEW i \in Code(c, m), NEW alias \in Aliases(m)
    PROVE  Renamed(i, alias) \in Code(c, m)
<1> DEFINE To(s) == IF s \in DOMAIN alias THEN alias[s] ELSE s
<1>1. i \in Code(c, m) /\ i.lhs \in Int /\ i.rhs \in Int
  BY DEF Code, Instructions
<1>2. \A s \in DOMAIN alias : alias[s] \in Slots(m) /\ alias[s] \in Int
  BY MapsAre DEF Aliases, Slots
<1>3. To(i.lhs) \in Int /\ (i.lhs \in Slots(m) => To(i.lhs) \in Slots(m))
  BY <1>1, <1>2
<1>4. To(i.rhs) \in Int /\ (i.rhs \in Slots(m) => To(i.rhs) \in Slots(m))
  BY <1>1, <1>2
<1>5. Renamed(i, alias) = IF i.op \in {"Move", "Unary", "Binary", "StoreGlobal", "Branch", "Return"}
                        THEN [i EXCEPT !.lhs = To(i.lhs), !.rhs = To(i.rhs)] ELSE i
  BY DEF Renamed, Substitute
<1> DEFINE l == To(i.lhs)
           r == To(i.rhs)
<1> HIDE DEF l, r, To
<1>6. Renamed(i, alias) \in Code(c, m)
  <2>1. l \in Int /\ r \in Int
    BY <1>3, <1>4 DEF l, r
  <2>2. (i.lhs \in Slots(m) => l \in Slots(m)) /\ (i.rhs \in Slots(m) => r \in Slots(m))
    BY <1>3, <1>4 DEF l, r
  <2>3. CASE i.op \in {"Move", "Unary", "Binary", "StoreGlobal", "Branch", "Return"}
    <3>1. [i EXCEPT !.lhs = l, !.rhs = r] \in Code(c, m)
      BY <1>1, <2>1, <2>2, <2>3, SubstituteStays
    <3>2. Renamed(i, alias) = [i EXCEPT !.lhs = l, !.rhs = r]
      BY <1>5, <2>3 DEF l, r
    <3>3. QED
      BY <3>1, <3>2
  <2>4. CASE i.op \notin {"Move", "Unary", "Binary", "StoreGlobal", "Branch", "Return"}
    BY <1>1, <1>5, <2>4
  <2>5. QED
    BY <2>3, <2>4
<1>7. QED
  BY <1>6

LEMMA CopyPropStays ==
    ASSUME NEW c, NEW m \in Nat, NEW body \in Seq(Code(c, m))
    PROVE  CopyProp(body) \in Seq(Code(c, m))
<1> DEFINE One(alias, i) ==
              Substitute(i, LAMBDA s : IF s \in DOMAIN alias THEN alias[s] ELSE s)
           n == Len(body)
           base == [alias |-> Nothing, code |-> <<>>]
           op(acc, k) ==
              LET i == One(acc.alias, body[k])
              IN  [alias |-> IF IsControlBoundary(i) THEN Nothing ELSE AfterMove(acc.alias, i),
                   code  |-> Append(acc.code, i)]
           Is(f) == f = [k \in 0 .. n |-> IF k = 0 THEN base
                                        ELSE CHOOSE v \in {op(u, k) : u \in {f[k - 1]}} : TRUE]
           at == CHOOSE f : Is(f)
           C == [alias : Aliases(m), code : Seq(Code(c, m))]
<1>1. n \in Nat /\ base \in C
  BY MapsAre DEF Aliases
<1>2. \A u \in C, k \in 1 .. n : op(u, k) \in C
  <2>1. TAKE u \in C, k \in 1 .. n
  <2>2. body[k] \in Code(c, m) /\ u.alias \in Aliases(m) /\ u.code \in Seq(Code(c, m))
    OBVIOUS
  <2>3. Nothing \in Aliases(m)
    BY MapsAre DEF Aliases
  <2>4. One(u.alias, body[k]) \in Code(c, m)
    BY <2>2, RenamedStays DEF Renamed
  <2>5. AfterMove(u.alias, One(u.alias, body[k])) \in Aliases(m)
    BY <2>2, <2>4, AfterMoveStays
  <2> HIDE DEF One
  <2>6. QED
    BY <2>2, <2>3, <2>4, <2>5
<1>3. CopyProp(body) = at[n].code
  BY DEF CopyProp, Walk
<1> HIDE DEF op, C, n, base
<1> DEFINE G == [z \in C \X (1 .. n) |-> op(z[1], z[2])]
<1>4. G \in [C \X (1 .. n) -> C] /\ \A u \in C, k \in 1 .. n : G[<<u, k>>] = op(u, k)
  BY <1>2
<1> HIDE DEF G
<1>5. PICK f \in [0 .. n -> C] : Walks(f, n, base, G)
  BY <1>1, <1>4, WalkExists
<1>6. Is(f)
  <2>1. ASSUME NEW k \in 1 .. n PROVE k - 1 \in 0 .. n /\ k # 0 /\ f[k] = op(f[k - 1], k)
    <3>1. k - 1 \in 0 .. n /\ k # 0
      BY <1>1
    <3>2. f[k - 1] \in C
      BY <3>1
    <3>3. QED
      BY <1>4, <1>5, <3>1, <3>2 DEF Walks
  <2>2. \A k \in 0 .. n : k # 0 => k \in 1 .. n
    BY <1>1
  <2>3. f[0] = base
    BY <1>5 DEF Walks
  <2>4. QED
    BY <2>1, <2>2, <2>3
<1>7. Is(at)
  BY <1>6
<1> HIDE DEF at
<1>8. at[0] = base /\ \A k \in 1 .. n : at[k] = op(at[k - 1], k)
  <2>1. 0 \in 0 .. n /\ \A k \in 1 .. n : k \in 0 .. n /\ k # 0
    BY <1>1
  <2>2. at[0] = base
    BY <1>7, <2>1
  <2>3. ASSUME NEW k \in 1 .. n PROVE at[k] = op(at[k - 1], k)
    <3>1. at[k] = CHOOSE v \in {op(u, k) : u \in {at[k - 1]}} : TRUE
      BY <1>7, <2>1
    <3>2. QED
      BY <3>1
  <2>4. QED
    BY <2>2, <2>3
<1>9. \A k \in 0 .. n : at[k] \in C
  <2>1. \A k \in 1 .. n : at[k - 1] \in C => at[k] \in C
    BY <1>2, <1>8
  <2>2. at[0] \in C
    BY <1>1, <1>8
  <2>3. QED
    BY <1>1, <2>1, <2>2, WalkStays
<1>10. at[n] \in C
  BY <1>1, <1>9
<1>11. QED
  BY <1>3, <1>10 DEF C

-----------------------------------------------------------------------------
(* Common subexpressions, coalescing and chains of additions. *)

\* operands as they go into a key, and the entries of the table
Operands == Int \cup {1073741824 + (v % 4194304) : v \in Constants}
LocalKeys == {LocalKey(o, a, b) : o \in UnaryOpers \cup BinaryOpers, a \in Operands, b \in Operands}
Entries(n) == [dest : Slots(n), opers : SUBSET Int]

LEMMA EncodedIsOperand ==
    ASSUME NEW K, NEW known \in Maps(K, Constants), NEW s \in Int
    PROVE  Encoded(s, known) \in Operands
<1>1. s \in DOMAIN known => known[s] \in Constants
  BY MapsAre
<1>2. QED
  BY <1>1 DEF Encoded, Operands

LEMMA CseStays ==
    ASSUME NEW c, IsContext(c), NEW m \in Nat, NEW body \in Seq(Code(c, m))
    PROVE  Cse(body) \in Seq(Code(c, m))
<1> DEFINE n == Len(body)
           base == [known |-> Nothing, seen |-> Nothing, code |-> <<>>]
           op(acc, k) == CseStep(acc, body[k])
           Is(f) == f = [k \in 0 .. n |-> IF k = 0 THEN base
                                        ELSE CHOOSE v \in {op(u, k) : u \in {f[k - 1]}} : TRUE]
           at == CHOOSE f : Is(f)
           K == Maps(Int, Constants)
           T == Maps(LocalKeys, Entries(m))
           C == [known : K, seen : T, code : Seq(Code(c, m))]
<1>1. n \in Nat /\ base \in C
  BY MapsAre
<1>2. \A u \in C, k \in 1 .. n : op(u, k) \in C
  <2>1. TAKE u \in C, k \in 1 .. n
  <2> DEFINE i == body[k]
             known == IF i.op = "Const" THEN Bind(u.known, i.dest, i.value) ELSE u.known
             a == Encoded(i.lhs, known)
             b == Encoded(i.rhs, known)
             key == IF Swapped(i, a, b) THEN LocalKey(i.oper, b, a) ELSE LocalKey(i.oper, a, b)
             entry == [dest |-> i.dest, opers |-> {i.lhs, i.rhs} \ DOMAIN known]
             tried == i.op = "Binary" /\ ~SelfUpdate(i)
             hit == tried /\ key \in DOMAIN u.seen
             seen == IF tried /\ ~hit THEN Bind(u.seen, key, entry) ELSE u.seen
             left == [q \in {p \in DOMAIN seen : i.dest \notin seen[p].opers} |-> seen[q]]
             next == IF hit THEN Move(i.dest, u.seen[key].dest) ELSE i
  <2>2. i \in Code(c, m) /\ i \in Instructions(c) /\ u.known \in K /\ u.seen \in T /\ u.code \in Seq(Code(c, m))
    BY DEF Code
  <2>3. /\ i.dest \in Int /\ i.lhs \in Int /\ i.rhs \in Int /\ i.value \in Constants
        /\ i.oper \in UnaryOpers \cup BinaryOpers
    BY <2>2 DEF Instructions, Constants
  <2>4. known \in K
    BY <2>2, <2>3, MapsAre
  <2> HIDE DEF known
  <2>5. a \in Operands /\ b \in Operands
    BY <2>3, <2>4, EncodedIsOperand
  <2> HIDE DEF a, b
  <2>6. key \in LocalKeys
    BY <2>3, <2>5 DEF LocalKeys
  <2> HIDE DEF key
  <2>7. tried => i.dest \in Slots(m) /\ entry \in Entries(m)
    <3>1. i.op = "Binary" => i.dest \in Slots(m)
      BY <2>2, CodeIs
    <3>2. QED
      BY <2>3, <3>1 DEF Entries
  <2> HIDE DEF entry
  <2>8. seen \in T
    BY <2>2, <2>6, <2>7, MapsAre
  <2>9. next \in Code(c, m)
    <3>1. hit => u.seen[key] \in Entries(m)
      BY <2>2, MapsAre
    <3>2. hit => u.seen[key].dest \in Slots(m)
      BY <3>1 DEF Entries
    <3>3. hit => i.dest \in Slots(m)
      BY <2>7
    <3>4. QED
      BY <2>2, <3>2, <3>3, Constructed
  <2> HIDE DEF seen
  <2>10. left \in T
    <3> DEFINE D == {p \in DOMAIN seen : i.dest \notin seen[p].opers}
    <3>1. D \in SUBSET LocalKeys /\ \A q \in D : seen[q] \in Entries(m)
      BY <2>8, MapsAre
    <3>2. left = [q \in D |-> seen[q]]
      OBVIOUS
    <3> HIDE DEF D, left
    <3>3. left \in [D -> Entries(m)]
      BY <3>1, <3>2
    <3>4. QED
      BY <3>1, <3>3 DEF Maps
  <2>11. op(u, k) = IF IsControlBoundary(i)
                    THEN [known |-> Nothing, seen |-> Nothing, code |-> Append(u.code, i)]
                    ELSE [known |-> known, seen |-> IF DefinesSlot(i) THEN left ELSE seen,
                          code |-> Append(u.code, next)]
    BY DEF CseStep, known, a, b, key, entry, seen
  <2> HIDE DEF left, next, op, i, hit
  <2>12. Nothing \in K /\ Nothing \in T
    BY MapsAre
  <2> HIDE DEF K, T
  <2>13. Append(u.code, i) \in Seq(Code(c, m)) /\ Append(u.code, next) \in Seq(Code(c, m))
    BY <2>2, <2>9
  <2>14. QED
    BY <2>4, <2>8, <2>10, <2>11, <2>12, <2>13
<1>3. Cse(body) = at[n].code
  BY DEF Cse, Walk
<1> HIDE DEF op, C, n, base
<1> DEFINE G == [z \in C \X (1 .. n) |-> op(z[1], z[2])]
<1>4. G \in [C \X (1 .. n) -> C] /\ \A u \in C, k \in 1 .. n : G[<<u, k>>] = op(u, k)
  BY <1>2
<1> HIDE DEF G
<1>5. PICK f \in [0 .. n -> C] : Walks(f, n, base, G)
  BY <1>1, <1>4, WalkExists
<1>6. Is(f)
  <2>1. ASSUME NEW k \in 1 .. n PROVE k - 1 \in 0 .. n /\ k # 0 /\ f[k] = op(f[k - 1], k)
    <3>1. k - 1 \in 0 .. n /\ k # 0
      BY <1>1
    <3>2. f[k - 1] \in C
      BY <3>1
    <3>3. QED
      BY <1>4, <1>5, <3>1, <3>2 DEF Walks
  <2>2. \A k \in 0 .. n : k # 0 => k \in 1 .. n
    BY <1>1
  <2>3. f[0] = base
    BY <1>5 DEF Walks
  <2>4. QED
    BY <2>1, <2>2, <2>3
<1>7. Is(at)
  BY <1>6
<1> HIDE DEF at
<1>8. at[0] = base /\ \A k \in 1 .. n : at[k] = op(at[k - 1], k)
  <2>1. 0 \in 0 .. n /\ \A k \in 1 .. n : k \in 0 .. n /\ k # 0
    BY <1>1
  <2>2. at[0] = base
    BY <1>7, <2>1
  <2>3. ASSUME NEW k \in 1 .. n PROVE at[k] = op(at[k - 1], k)
    <3>1. at[k] = CHOOSE v \in {op(u, k) : u \in {at[k - 1]}} : TRUE
      BY <1>7, <2>1
    <3>2. QED
      BY <3>1
  <2>4. QED
    BY <2>2, <2>3
<1>9. \A k \in 0 .. n : at[k] \in C
  <2>1. \A k \in 1 .. n : at[k - 1] \in C => at[k] \in C
    BY <1>2, <1>8
  <2>2. at[0] \in C
    BY <1>1, <1>8
  <2>3. QED
    BY <1>1, <2>1, <2>2, WalkStays
<1>10. at[n] \in C
  BY <1>1, <1>9
<1>11. QED
  BY <1>3, <1>10 DEF C

\* A definition that writes another slot of the frame.
LEMMA RetargetStays ==
    ASSUME NEW c, NEW n \in Nat, NEW i \in Code(c, n), NEW d \in Slots(n)
    PROVE  [i EXCEPT !.dest = d] \in Code(c, n)
<1> DEFINE j == [i EXCEPT !.dest = d]
<1>1. i \in Instructions(c) /\ d \in Int
  BY DEF Code, Slots
<1>2. /\ j \in Instructions(c) /\ j.op = i.op /\ j.lhs = i.lhs /\ j.rhs = i.rhs /\ j.dest = d
      /\ j.oper = i.oper /\ j.value = i.value /\ j.name = i.name /\ j.args = i.args
  BY <1>1 DEF Instructions
<1> HIDE DEF j
<1>3. j \in Code(c, n)
  BY <1>1, <1>2, CodeIs
<1>4. QED
  BY <1>3 DEF j

LEMMA CopyCoalesceStays ==
    ASSUME NEW c, NEW m \in Nat, NEW body \in Seq(Code(c, m))
    PROVE  CopyCoalesce(body) \in Seq(Code(c, m))
<1> DEFINE Movable(code) ==
              {j \in DOMAIN code :
                 LET s == code[j].lhs
                 IN  /\ code[j].op = "Move" /\ s # code[j].dest
                     /\ DefsOf(code, s) = {j - 1}
                     /\ code[j-1].op # "Move"
                     /\ UseCount(code, s) = 1}
           Retargeted(code) ==
              [j \in DOMAIN code |->
                 IF j + 1 \in Movable(code) THEN [code[j] EXCEPT !.dest = code[j+1].dest]
                 ELSE code[j]]
           Round(code) == KeepAt(Retargeted(code), DOMAIN code \ Movable(code))
           n == Len(body) + 1
           base == [x |-> body, stable |-> FALSE]
           op(acc, k) == IF acc.stable THEN acc
                         ELSE LET next == Round(acc.x) IN [x |-> next, stable |-> next = acc.x]
           Is(f) == f = [k \in 0 .. n |-> IF k = 0 THEN base
                                        ELSE CHOOSE v \in {op(u, k) : u \in {f[k - 1]}} : TRUE]
           at == CHOOSE f : Is(f)
           C == [x : Seq(Code(c, m)), stable : BOOLEAN]
<1>1. n \in Nat /\ base \in C
  OBVIOUS
<1>2. \A u \in C, k \in 1 .. n : op(u, k) \in C
  <2>1. TAKE u \in C, k \in 1 .. n
  <2>2. u.x \in Seq(Code(c, m))
    OBVIOUS
  <2>3. Retargeted(u.x) \in Seq(Code(c, m))
    <3>1. ASSUME NEW j \in DOMAIN u.x PROVE Retargeted(u.x)[j] \in Code(c, m)
      <4>1. u.x[j] \in Code(c, m)
        BY <2>2
      <4>2. CASE j + 1 \in Movable(u.x)
        <5>1. j + 1 \in DOMAIN u.x /\ u.x[j + 1].op = "Move"
          BY <4>2
        <5>2. u.x[j + 1] \in Code(c, m)
          BY <2>2, <5>1
        <5>3. u.x[j + 1].dest \in Slots(m)
          BY <5>1, <5>2, CodeIs DEF Code
        <5>4. [u.x[j] EXCEPT !.dest = u.x[j + 1].dest] \in Code(c, m)
          BY <4>1, <5>3, RetargetStays
        <5>5. QED
          BY <4>2, <5>4
      <4>3. CASE j + 1 \notin Movable(u.x)
        BY <4>1, <4>3
      <4>4. QED
        BY <4>2, <4>3
    <3>2. DOMAIN u.x = 1 .. Len(u.x) /\ Len(u.x) \in Nat
      BY <2>2
    <3>3. Retargeted(u.x) = [j \in 1 .. Len(u.x) |-> Retargeted(u.x)[j]]
      BY <3>2
    <3> DEFINE R == Retargeted(u.x)
    <3> HIDE DEF Retargeted
    <3>4. R \in [1 .. Len(u.x) -> Code(c, m)]
      BY <3>1, <3>2, <3>3
    <3>5. QED
      BY <3>2, <3>4
  <2>4. Round(u.x) \in Seq(Code(c, m))
    <3> HIDE DEF Retargeted, Movable
    <3>1. QED
      BY <2>3, KeepAtStays
  <2> HIDE DEF Round
  <2>5. QED
    BY <2>2, <2>4
<1>3. CopyCoalesce(body) = at[n].x
  BY DEF CopyCoalesce, Saturate, Walk
<1> HIDE DEF op, C, n, base
<1> DEFINE G == [z \in C \X (1 .. n) |-> op(z[1], z[2])]
<1>4. G \in [C \X (1 .. n) -> C] /\ \A u \in C, k \in 1 .. n : G[<<u, k>>] = op(u, k)
  BY <1>2
<1> HIDE DEF G
<1>5. PICK f \in [0 .. n -> C] : Walks(f, n, base, G)
  BY <1>1, <1>4, WalkExists
<1>6. Is(f)
  <2>1. ASSUME NEW k \in 1 .. n PROVE k - 1 \in 0 .. n /\ k # 0 /\ f[k] = op(f[k - 1], k)
    <3>1. k - 1 \in 0 .. n /\ k # 0
      BY <1>1
    <3>2. f[k - 1] \in C
      BY <3>1
    <3>3. QED
      BY <1>4, <1>5, <3>1, <3>2 DEF Walks
  <2>2. \A k \in 0 .. n : k # 0 => k \in 1 .. n
    BY <1>1
  <2>3. f[0] = base
    BY <1>5 DEF Walks
  <2>4. QED
    BY <2>1, <2>2, <2>3
<1>7. Is(at)
  BY <1>6
<1> HIDE DEF at
<1>8. at[0] = base /\ \A k \in 1 .. n : at[k] = op(at[k - 1], k)
  <2>1. 0 \in 0 .. n /\ \A k \in 1 .. n : k \in 0 .. n /\ k # 0
    BY <1>1
  <2>2. at[0] = base
    BY <1>7, <2>1
  <2>3. ASSUME NEW k \in 1 .. n PROVE at[k] = op(at[k - 1], k)
    <3>1. at[k] = CHOOSE v \in {op(u, k) : u \in {at[k - 1]}} : TRUE
      BY <1>7, <2>1
    <3>2. QED
      BY <3>1
  <2>4. QED
    BY <2>2, <2>3
<1>9. \A k \in 0 .. n : at[k] \in C
  <2>1. \A k \in 1 .. n : at[k - 1] \in C => at[k] \in C
    BY <1>2, <1>8
  <2>2. at[0] \in C
    BY <1>1, <1>8
  <2>3. QED
    BY <1>1, <2>1, <2>2, WalkStays
<1>10. at[n] \in C
  BY <1>1, <1>9
<1>11. QED
  BY <1>3, <1>10 DEF C

\* A Const with another value.
LEMMA RevaluedStays ==
    ASSUME NEW c, IsContext(c), NEW n \in Nat, NEW i \in Code(c, n), NEW v \in Words
    PROVE  [i EXCEPT !.value = v] \in Code(c, n)
<1> DEFINE j == [i EXCEPT !.value = v]
<1>1. i \in Instructions(c)
  BY DEF Code
<1>2. /\ j \in Instructions(c) /\ j.op = i.op /\ j.lhs = i.lhs /\ j.rhs = i.rhs /\ j.dest = i.dest
      /\ j.oper = i.oper /\ j.value = v /\ j.name = i.name /\ j.args = i.args
  BY <1>1 DEF Instructions, Constants
<1>3. v \in c.values
  BY DEF IsContext
<1> HIDE DEF j
<1>4. j \in Code(c, n)
  BY <1>1, <1>2, <1>3, CodeIs
<1>5. QED
  BY <1>4 DEF j

\* A slot with one constant for its value holds a word.
LEMMA SingleConstIsWord ==
    ASSUME NEW c, c.values = Words, NEW n \in Nat, NEW body \in Seq(Code(c, n)), NEW s, SingleConst(body, s)
    PROVE  body[ConstAt(body, s)].value \in Words
<1>1. PICK k \in DOMAIN body : DefsOf(body, s) = {k} /\ body[k].op = "Const"
  BY DEF SingleConst
<1>2. ConstAt(body, s) = k
  <2>1. DefsOf(body, s) = {ConstAt(body, s)}
    BY <1>1 DEF ConstAt
  <2>2. QED
    BY <1>1, <2>1
<1>3. body[k] \in Code(c, n)
  OBVIOUS
<1>4. QED
  BY <1>1, <1>2, <1>3 DEF Code

LEMMA InstCombineStays ==
    ASSUME NEW c, IsContext(c), c.values = Words, NEW m \in Nat, NEW body \in Seq(Code(c, m))
    PROVE  InstCombine(body) \in Seq(Code(c, m))
<1> DEFINE NoTip == [slot |-> NoSlot, first |-> 0, adds |-> TRUE, accum |-> 0]
           Signed(i, v) == IF i.oper = "add" THEN v ELSE Wrap(-v)
           n == Len(body)
           base == [code |-> body, tip |-> NoTip]
           op(acc, k) ==
              LET i       == acc.code[k]
                  tip     == acc.tip
                  linear  == i.op = "Binary" /\ i.oper \in {"add", "sub"}
                  isConst == linear /\ SingleConst(body, i.rhs)
                  v       == Signed(i, body[ConstAt(body, i.rhs)].value)
                  link    == linear /\ tip.slot # NoSlot /\ i.lhs = tip.slot /\ i.dest # tip.slot
                  extends == link /\ isConst /\ UseCount(body, tip.slot) = 1
                  starts  == ~extends /\ isConst /\ i.dest # i.lhs /\ UseCount(body, i.rhs) = 1
                  accum   == Wrap(tip.accum + v)
                  rest    == IF link /\ UseCount(body, tip.slot) # 1 THEN NoTip ELSE tip
              IN  CASE extends ->
                          [code |-> [acc.code EXCEPT
                                      ![tip.first].value = IF tip.adds THEN accum ELSE Wrap(-accum),
                                      ![k] = Move(i.dest, tip.slot)],
                           tip  |-> [tip EXCEPT !.slot = i.dest, !.accum = accum]]
                    [] starts ->
                          [acc EXCEPT !.tip = [slot |-> i.dest, first |-> ConstAt(body, i.rhs),
                                               adds |-> i.oper = "add", accum |-> v]]
                    [] OTHER ->
                          [acc EXCEPT !.tip = IF \/ IsControlBoundary(i)
                                                 \/ DefinesSlot(i) /\ i.dest = tip.slot
                                              THEN NoTip ELSE rest]
           Is(f) == f = [k \in 0 .. n |-> IF k = 0 THEN base
                                        ELSE CHOOSE v \in {op(u, k) : u \in {f[k - 1]}} : TRUE]
           at == CHOOSE f : Is(f)
           F == DOMAIN body \cup {0}
           Tips == [slot : Slots(m) \cup {NoSlot}, first : F, adds : BOOLEAN, accum : Int]
           L == [1 .. n -> Code(c, m)]
           C == [code : L, tip : Tips]
<1>1. n \in Nat /\ base \in C
  <2>1. NoTip \in Tips
    OBVIOUS
  <2>2. QED
    BY <2>1
<1>2. \A u \in C, k \in 1 .. n : op(u, k) \in C
  <2>1. TAKE u \in C, k \in 1 .. n
  <2> DEFINE i       == u.code[k]
             tip     == u.tip
             linear  == i.op = "Binary" /\ i.oper \in {"add", "sub"}
             isConst == linear /\ SingleConst(body, i.rhs)
             v       == Signed(i, body[ConstAt(body, i.rhs)].value)
             link    == linear /\ tip.slot # NoSlot /\ i.lhs = tip.slot /\ i.dest # tip.slot
             extends == link /\ isConst /\ UseCount(body, tip.slot) = 1
             starts  == ~extends /\ isConst /\ i.dest # i.lhs /\ UseCount(body, i.rhs) = 1
             accum   == Wrap(tip.accum + v)
             rest    == IF link /\ UseCount(body, tip.slot) # 1 THEN NoTip ELSE tip
             fixed   == IF tip.adds THEN accum ELSE Wrap(-accum)
             moved   == [u.code EXCEPT ![tip.first].value = fixed, ![k] = Move(i.dest, tip.slot)]
             further == [tip EXCEPT !.slot = i.dest, !.accum = accum]
             begun   == [slot |-> i.dest, first |-> ConstAt(body, i.rhs),
                         adds |-> i.oper = "add", accum |-> v]
             dropped == IF \/ IsControlBoundary(i)
                           \/ DefinesSlot(i) /\ i.dest = tip.slot
                        THEN NoTip ELSE rest
  <2>2. /\ u.code \in L /\ tip \in Tips /\ i \in Code(c, m) /\ i \in Instructions(c)
        /\ u = [code |-> u.code, tip |-> tip]
    BY DEF Code
  <2>3. op(u, k) = CASE extends -> [code |-> moved, tip |-> further]
                     [] starts -> [u EXCEPT !.tip = begun]
                     [] OTHER -> [u EXCEPT !.tip = dropped]
    OBVIOUS
  <2> HIDE DEF op
  <2>4. NoTip \in Tips
    OBVIOUS
  <2>5. /\ tip.slot \in Slots(m) \cup {NoSlot} /\ tip.first \in F /\ tip.adds \in BOOLEAN
        /\ tip.accum \in Int
    BY <2>2
  <2>6. dropped \in Tips
    BY <2>2, <2>4
  <2>7. isConst => v \in Int
    <3>1. isConst => body[ConstAt(body, i.rhs)].value \in Words
      BY SingleConstIsWord
    <3> DEFINE w == body[ConstAt(body, i.rhs)].value
    <3> HIDE DEF w
    <3>2. isConst => w \in Words
      BY <3>1 DEF w
    <3>3. w \in Words => w \in Int /\ -w \in Int
      BY WordsAre
    <3>4. QED
      BY <3>2, <3>3, WordsAre DEF w
  <2>8. isConst => i.dest \in Slots(m)
    BY <2>2, CodeIs
  <2>9. isConst => ConstAt(body, i.rhs) \in F
    <3>1. ASSUME isConst PROVE ConstAt(body, i.rhs) \in F
      <4>1. PICK j \in DOMAIN body : DefsOf(body, i.rhs) = {j}
        BY <3>1 DEF SingleConst
      <4>2. ConstAt(body, i.rhs) \in DOMAIN body
        BY <4>1 DEF ConstAt
      <4>3. QED
        BY <4>2
    <3>2. QED
      BY <3>1
  <2>10. isConst => begun \in Tips
    BY <2>7, <2>8, <2>9
  <2>11. isConst => accum \in Int /\ fixed \in Words
    <3> HIDE DEF v
    <3>1. isConst => tip.accum + v \in Int
      BY <2>5, <2>7
    <3>2. isConst => accum \in Int /\ accum \in Words
      BY <3>1, WordsAre
    <3> HIDE DEF accum
    <3>3. isConst => -accum \in Int
      BY <3>2
    <3>4. QED
      BY <3>2, <3>3, WordsAre
  <2> HIDE DEF v, accum, fixed
  <2>12. isConst => further \in Tips
    BY <2>2, <2>5, <2>8, <2>11
  <2>13. extends => moved \in L
    <3>1. ASSUME extends PROVE moved \in L
      <4>1. fixed \in Words /\ i.dest \in Slots(m) /\ tip.slot \in Slots(m)
        BY <2>5, <2>8, <2>11, <3>1
      <4>2. Move(i.dest, tip.slot) \in Code(c, m)
        BY <4>1, Constructed
      <4> DEFINE one == [u.code EXCEPT ![tip.first].value = fixed]
      <4>3. one \in L
        <5>1. \A j \in 1 .. n : [u.code[j] EXCEPT !.value = fixed] \in Code(c, m)
          BY <2>2, <4>1, RevaluedStays
        <5>2. QED
          BY <2>2, <5>1
      <4>4. moved = [one EXCEPT ![k] = Move(i.dest, tip.slot)]
        OBVIOUS
      <4> HIDE DEF one, moved
      <4>5. QED
        BY <4>2, <4>3, <4>4
    <3>2. QED
      BY <3>1
  <2>14. /\ extends => isConst
         /\ starts => isConst /\ ~extends
    OBVIOUS
  <2> HIDE DEF moved, further, begun, dropped, extends, starts, isConst, L, Tips, tip
  <2>15. CASE extends
    <3>1. op(u, k) = [code |-> moved, tip |-> further]
      BY <2>3, <2>14, <2>15
    <3>2. QED
      BY <2>12, <2>13, <2>14, <2>15, <3>1
  <2>16. CASE starts
    <3>1. op(u, k) = [u EXCEPT !.tip = begun]
      BY <2>3, <2>14, <2>16
    <3>2. QED
      BY <2>2, <2>10, <2>14, <2>16, <3>1
  <2>17. CASE ~extends /\ ~starts
    <3>1. op(u, k) = [u EXCEPT !.tip = dropped]
      BY <2>3, <2>17
    <3>2. QED
      BY <2>2, <2>6, <3>1
  <2>18. QED
    BY <2>15, <2>16, <2>17
<1>3. InstCombine(body) = at[n].code
  BY DEF InstCombine, Walk
<1> HIDE DEF op, C, n, base
<1> DEFINE G == [z \in C \X (1 .. n) |-> op(z[1], z[2])]
<1>4. G \in [C \X (1 .. n) -> C] /\ \A u \in C, k \in 1 .. n : G[<<u, k>>] = op(u, k)
  BY <1>2
<1> HIDE DEF G
<1>5. PICK f \in [0 .. n -> C] : Walks(f, n, base, G)
  BY <1>1, <1>4, WalkExists
<1>6. Is(f)
  <2>1. ASSUME NEW k \in 1 .. n PROVE k - 1 \in 0 .. n /\ k # 0 /\ f[k] = op(f[k - 1], k)
    <3>1. k - 1 \in 0 .. n /\ k # 0
      BY <1>1
    <3>2. f[k - 1] \in C
      BY <3>1
    <3>3. QED
      BY <1>4, <1>5, <3>1, <3>2 DEF Walks
  <2>2. \A k \in 0 .. n : k # 0 => k \in 1 .. n
    BY <1>1
  <2>3. f[0] = base
    BY <1>5 DEF Walks
  <2>4. QED
    BY <2>1, <2>2, <2>3
<1>7. Is(at)
  BY <1>6
<1> HIDE DEF at
<1>8. at[0] = base /\ \A k \in 1 .. n : at[k] = op(at[k - 1], k)
  <2>1. 0 \in 0 .. n /\ \A k \in 1 .. n : k \in 0 .. n /\ k # 0
    BY <1>1
  <2>2. at[0] = base
    BY <1>7, <2>1
  <2>3. ASSUME NEW k \in 1 .. n PROVE at[k] = op(at[k - 1], k)
    <3>1. at[k] = CHOOSE v \in {op(u, k) : u \in {at[k - 1]}} : TRUE
      BY <1>7, <2>1
    <3>2. QED
      BY <3>1
  <2>4. QED
    BY <2>2, <2>3
<1>9. \A k \in 0 .. n : at[k] \in C
  <2>1. \A k \in 1 .. n : at[k - 1] \in C => at[k] \in C
    BY <1>2, <1>8
  <2>2. at[0] \in C
    BY <1>1, <1>8
  <2>3. QED
    BY <1>1, <2>1, <2>2, WalkStays
<1>10. QED
  <2>1. at[n].code \in [1 .. n -> Code(c, m)]
    BY <1>1, <1>9 DEF C
  <2>2. QED
    BY <1>1, <1>3, <2>1

-----------------------------------------------------------------------------
(* Loops. *)

\* The least of some numbers is one of them.
LEMMA MinIsIn ==
    ASSUME NEW T, T \subseteq Nat, T # {}
    PROVE  Min(T) \in T /\ \A x \in T : Min(T) =< x
<1>1. PICK k \in T : \A j \in T : k =< j
  BY LeastExists
<1>2. QED
  BY <1>1 DEF Min

\* The greatest of finitely many is one of them.
LEMMA MaxIsIn ==
    ASSUME NEW T, T # {}, NEW n \in Nat, T \subseteq 1 .. n
    PROVE  Max(T) \in T /\ \A x \in T : Max(T) >= x
<1> DEFINE D == {n - x : x \in T}
<1>1. D \subseteq Nat /\ D # {}
  <2>1. ASSUME NEW x \in T PROVE n - x \in Nat
    <3>1. x \in 1 .. n
      OBVIOUS
    <3>2. QED
      BY <3>1
  <2>2. QED
    BY <2>1
<1>2. PICK d \in D : \A e \in D : d =< e
  BY <1>1, LeastExists
<1>3. PICK k \in T : d = n - k
  OBVIOUS
<1>4. \A x \in T : k >= x
  <2>1. TAKE x \in T
  <2>2. n - x \in D
    OBVIOUS
  <2>3. n - k =< n - x
    BY <1>2, <1>3, <2>2
  <2>4. x \in Int /\ k \in Int
    OBVIOUS
  <2>5. QED
    BY <2>3, <2>4
<1>5. QED
  BY <1>4 DEF Max

\* A loop's head and its end.
LEMMA LoopIs ==
    ASSUME NEW S, NEW body \in Seq(S), NEW c \in LoopHeads(body)
    PROVE  /\ c \in 1 .. Len(body)
           /\ LoopEnd(body, c) \in c + 1 .. Len(body)
<1>1. c \in DOMAIN body /\ Closing(body, c) # {}
  BY DEF LoopHeads
<1>2. Closing(body, c) \subseteq c + 1 .. Len(body)
  BY DEF Closing
<1>3. c \in 1 .. Len(body) /\ Len(body) \in Nat
  BY <1>1
<1>4. Closing(body, c) \subseteq Nat
  BY <1>2, <1>3
<1>5. Min(Closing(body, c)) \in Closing(body, c)
  BY <1>1, <1>4, MinIsIn
<1>6. QED
  BY <1>2, <1>3, <1>5 DEF LoopEnd

\* Part of a list.
LEMMA PartStays ==
    ASSUME NEW S, NEW body \in Seq(S), NEW lo \in 1 .. Len(body) + 1, NEW hi \in 0 .. Len(body)
    PROVE  SubSeq(body, lo, hi) \in Seq(S)
OBVIOUS

LEMMA LicmStays ==
    ASSUME NEW S, NEW body \in Seq(S), NEW pure
    PROVE  Licm(body, pure) \in Seq(S)
<1> DEFINE HoistAt(code, c) ==
              LET out == Hoisted(code, c, pure)
              IN  SubSeq(code, 1, c - 1)
                    \o KeepAt(code, out)
                    \o KeepAt(code, (c .. Len(code)) \ out)
           Round(code) == AtFirstLoop(code, LoopHeads(code), LAMBDA c : HoistAt(code, c))
           n == 2 * Len(body)
           base == [x |-> body, stable |-> FALSE]
           op(acc, k) == IF acc.stable THEN acc
                         ELSE LET next == Round(acc.x) IN [x |-> next, stable |-> next = acc.x]
           Is(f) == f = [k \in 0 .. n |-> IF k = 0 THEN base
                                        ELSE CHOOSE v \in {op(u, k) : u \in {f[k - 1]}} : TRUE]
           at == CHOOSE f : Is(f)
           C == [x : Seq(S), stable : BOOLEAN]
<1>1. n \in Nat /\ base \in C
  OBVIOUS
<1>2. \A u \in C, k \in 1 .. n : op(u, k) \in C
  <2>1. TAKE u \in C, k \in 1 .. n
  <2> DEFINE code == u.x
             hit == {c \in LoopHeads(code) : HoistAt(code, c) # code}
  <2>2. code \in Seq(S)
    OBVIOUS
  <2>3. Round(code) = IF hit = {} THEN code ELSE HoistAt(code, Min(hit))
    BY DEF AtFirstLoop
  <2> HIDE DEF Round
  <2>4. \A c \in LoopHeads(code) : HoistAt(code, c) \in Seq(S)
    <3>1. TAKE c \in LoopHeads(code)
    <3>2. c \in 1 .. Len(code) /\ Len(code) \in Nat
      BY <2>2, LoopIs
    <3>3. 1 \in 1 .. Len(code) + 1 /\ c - 1 \in 0 .. Len(code)
      BY <3>2
    <3>4. SubSeq(code, 1, c - 1) \in Seq(S)
      BY <2>2, <3>3, PartStays
    <3> DEFINE out == Hoisted(code, c, pure)
               left == (c .. Len(code)) \ out
    <3> HIDE DEF out, left
    <3>5. KeepAt(code, out) \in Seq(S) /\ KeepAt(code, left) \in Seq(S)
      BY <2>2, KeepAtStays
    <3>6. QED
      BY <3>4, <3>5 DEF out, left
  <2>5. hit # {} => Min(hit) \in LoopHeads(code)
    <3>1. LoopHeads(code) \subseteq Nat
      BY <2>2, LoopIs
    <3>2. QED
      BY <3>1, MinIsIn
  <2> HIDE DEF HoistAt, hit
  <2>6. Round(code) \in Seq(S)
    BY <2>2, <2>3, <2>4, <2>5
  <2>7. QED
    BY <2>6
<1>3. Licm(body, pure) = at[n].x
  BY DEF Licm, Saturate, Walk
<1> HIDE DEF op, C, n, base
<1> DEFINE G == [z \in C \X (1 .. n) |-> op(z[1], z[2])]
<1>4. G \in [C \X (1 .. n) -> C] /\ \A u \in C, k \in 1 .. n : G[<<u, k>>] = op(u, k)
  BY <1>2
<1> HIDE DEF G
<1>5. PICK f \in [0 .. n -> C] : Walks(f, n, base, G)
  BY <1>1, <1>4, WalkExists
<1>6. Is(f)
  <2>1. ASSUME NEW k \in 1 .. n PROVE k - 1 \in 0 .. n /\ k # 0 /\ f[k] = op(f[k - 1], k)
    <3>1. k - 1 \in 0 .. n /\ k # 0
      BY <1>1
    <3>2. f[k - 1] \in C
      BY <3>1
    <3>3. QED
      BY <1>4, <1>5, <3>1, <3>2 DEF Walks
  <2>2. \A k \in 0 .. n : k # 0 => k \in 1 .. n
    BY <1>1
  <2>3. f[0] = base
    BY <1>5 DEF Walks
  <2>4. QED
    BY <2>1, <2>2, <2>3
<1>7. Is(at)
  BY <1>6
<1> HIDE DEF at
<1>8. at[0] = base /\ \A k \in 1 .. n : at[k] = op(at[k - 1], k)
  <2>1. 0 \in 0 .. n /\ \A k \in 1 .. n : k \in 0 .. n /\ k # 0
    BY <1>1
  <2>2. at[0] = base
    BY <1>7, <2>1
  <2>3. ASSUME NEW k \in 1 .. n PROVE at[k] = op(at[k - 1], k)
    <3>1. at[k] = CHOOSE v \in {op(u, k) : u \in {at[k - 1]}} : TRUE
      BY <1>7, <2>1
    <3>2. QED
      BY <3>1
  <2>4. QED
    BY <2>2, <2>3
<1>9. \A k \in 0 .. n : at[k] \in C
  <2>1. \A k \in 1 .. n : at[k - 1] \in C => at[k] \in C
    BY <1>2, <1>8
  <2>2. at[0] \in C
    BY <1>1, <1>8
  <2>3. QED
    BY <1>1, <2>1, <2>2, WalkStays
<1>10. at[n] \in C
  BY <1>1, <1>9
<1>11. QED
  BY <1>3, <1>10 DEF C

-----------------------------------------------------------------------------
(* Sums in closed form. *)

PolySet == [q : Int, a : Int, c : Int]

LEMMA PolyIs ==
    /\ \A q, a, c \in Int : Poly(q, a, c) \in PolySet
    /\ \A p \in PolySet : p.q \in Int /\ p.a \in Int /\ p.c \in Int
BY DEF Poly, PolySet

LEMMA CombinedStays ==
    ASSUME NEW oper, NEW l \in PolySet, NEW r \in PolySet
    PROVE  Combined(oper, l, r) \subseteq PolySet
<1> DEFINE p == CASE oper = "add" -> Poly(l.q + r.q, l.a + r.a, l.c + r.c)
                  [] oper = "sub" -> Poly(l.q - r.q, l.a - r.a, l.c - r.c)
                  [] OTHER -> Poly(l.q * r.c + l.a * r.a + l.c * r.q,
                                   l.a * r.c + l.c * r.a, l.c * r.c)
<1>1. /\ l.q \in Int /\ l.a \in Int /\ l.c \in Int
      /\ r.q \in Int /\ r.a \in Int /\ r.c \in Int
  BY PolyIs
<1>2. /\ Poly(l.q + r.q, l.a + r.a, l.c + r.c) \in PolySet
      /\ Poly(l.q - r.q, l.a - r.a, l.c - r.c) \in PolySet
  <2>1. l.q + r.q \in Int /\ l.a + r.a \in Int /\ l.c + r.c \in Int
    BY <1>1
  <2>2. l.q - r.q \in Int /\ l.a - r.a \in Int /\ l.c - r.c \in Int
    BY <1>1
  <2>3. QED
    BY <2>1, <2>2, PolyIs
<1>3. Poly(l.q * r.c + l.a * r.a + l.c * r.q, l.a * r.c + l.c * r.a, l.c * r.c) \in PolySet
  <2>1. /\ l.q * r.c \in Int /\ l.a * r.a \in Int /\ l.c * r.q \in Int
        /\ l.a * r.c \in Int /\ l.c * r.a \in Int /\ l.c * r.c \in Int
    BY <1>1
  <2>2. l.q * r.c + l.a * r.a + l.c * r.q \in Int /\ l.a * r.c + l.c * r.a \in Int
    BY <2>1
  <2>3. QED
    BY <2>1, <2>2, PolyIs
<1>4. p \in PolySet
  BY <1>2, <1>3
<1>5. Combined(oper, l, r) \subseteq {p}
  BY DEF Combined
<1>6. QED
  BY <1>4, <1>5

\* What is known as a polynomial stays known, or nothing is.
LEMMA AdvanceStays ==
    ASSUME NEW c, c.values = Words, NEW n \in Nat, NEW i \in Code(c, n),
           NEW polys \in Maps(Int, PolySet)
    PROVE  \/ Advance(polys, i) = NoPoly
           \/ /\ Advance(polys, i) \in Maps(Int, PolySet)
              /\ DOMAIN polys \subseteq DOMAIN Advance(polys, i)
<1> DEFINE p == IF polys = NoPoly THEN {}
                ELSE CASE i.op = "Const" -> {Poly(0, 0, i.value)}
                       [] i.op = "Move" -> {polys[s] : s \in Reads(i) \cap DOMAIN polys}
                       [] i.op = "Binary" ->
                             IF Reads(i) \subseteq DOMAIN polys
                             THEN Combined(i.oper, polys[i.lhs], polys[i.rhs]) ELSE {}
                       [] OTHER -> {}
<1>1. i \in Instructions(c) /\ i.dest \in Int
  BY DEF Code, Instructions
<1>2. \A s \in DOMAIN polys : polys[s] \in PolySet
  BY MapsAre
<1>3. p \subseteq PolySet
  <2>1. i.op = "Const" => Poly(0, 0, i.value) \in PolySet
    BY PolyIs, WordsAre DEF Code
  <2>2. {polys[s] : s \in Reads(i) \cap DOMAIN polys} \subseteq PolySet
    BY <1>2
  <2>3. ASSUME i.op = "Binary", Reads(i) \subseteq DOMAIN polys
        PROVE  Combined(i.oper, polys[i.lhs], polys[i.rhs]) \subseteq PolySet
    <3>1. i.lhs \in DOMAIN polys /\ i.rhs \in DOMAIN polys
      BY <2>3, ReadsAre
    <3>2. QED
      BY <1>2, <3>1, CombinedStays
  <2>4. CASE i.op = "Const"
    BY <2>1, <2>4
  <2>5. CASE i.op = "Move"
    BY <2>2, <2>5
  <2>6. CASE i.op = "Binary"
    BY <2>3, <2>6
  <2>7. CASE i.op \notin {"Const", "Move", "Binary"}
    BY <2>7
  <2>8. QED
    BY <2>4, <2>5, <2>6, <2>7
<1>4. Advance(polys, i) = IF p = {} THEN NoPoly ELSE Bind(polys, i.dest, CHOOSE q \in p : TRUE)
  BY DEF Advance
<1> HIDE DEF p
<1>5. p # {} => (CHOOSE q \in p : TRUE) \in PolySet
  BY <1>3
<1> DEFINE q == CHOOSE x \in p : TRUE
<1>6. Bind(polys, i.dest, q) \in Maps(Int, PolySet) \/ p = {}
  <2> HIDE DEF q
  <2>1. p # {} => q \in PolySet
    BY <1>5 DEF q
  <2>2. QED
    BY <1>1, <2>1, MapsAre
<1>7. DOMAIN polys \subseteq DOMAIN Bind(polys, i.dest, q)
  BY DEF Bind
<1>8. QED
  BY <1>4, <1>6, <1>7

LEMMA ConstSlotIsWord ==
    ASSUME NEW c, c.values = Words, NEW n \in Nat, NEW body \in Seq(Code(c, n)), NEW s
    PROVE  ConstSlot(body, s) \in Words /\ ConstSlot(body, s) \in Int
BY SingleConstIsWord, WordsAre DEF ConstSlot

\* The accumulators have polynomials as long as there are any.
LEMMA RoundPolysStay ==
    ASSUME NEW c, c.values = Words, NEW m \in Nat, NEW body \in Seq(Code(c, m)),
           NEW insts \in SUBSET DOMAIN body, NEW i \in Int, NEW accs \in SUBSET Int,
           RoundPolys(body, insts, i, accs) # NoPoly
    PROVE  \A s \in accs : RoundPolys(body, insts, i, accs)[s] \in PolySet
<1> DEFINE consts == {s \in UNION {Reads(body[j]) : j \in insts} : SingleConst(body, s)}
           base == [s \in accs \cup consts \cup {i} |->
                      CASE s \in accs -> Poly(0, 0, 0)
                        [] s \in consts \ accs -> Poly(0, 0, ConstSlot(body, s))
                        [] OTHER -> Poly(0, 1, 0)]
           n == Len(body)
           op(polys, k) == IF k \in insts THEN Advance(polys, body[k]) ELSE polys
           Is(f) == f = [k \in 0 .. n |-> IF k = 0 THEN base
                                        ELSE CHOOSE v \in {op(u, k) : u \in {f[k - 1]}} : TRUE]
           at == CHOOSE f : Is(f)
           C == {NoPoly} \cup {p \in Maps(Int, PolySet) : accs \subseteq DOMAIN p}
<1>1. n \in Nat /\ base \in C
  <2>1. consts \subseteq Int
    <3>1. ASSUME NEW j \in insts PROVE Reads(body[j]) \subseteq Int
      <4>1. body[j] \in Code(c, m)
        OBVIOUS
      <4>2. Reads(body[j]) \subseteq 0 .. m - 1
        BY <4>1 DEF Code, FitsFrame
      <4>3. QED
        BY <4>2
    <3>2. QED
      BY <3>1
  <2> DEFINE D == accs \cup consts \cup {i}
  <2>2. D \in SUBSET Int
    BY <2>1
  <2>3. \A s \in D : base[s] \in PolySet
    <3>1. TAKE s \in D
    <3>2. Poly(0, 0, 0) \in PolySet /\ Poly(0, 1, 0) \in PolySet
      BY PolyIs
    <3>3. Poly(0, 0, ConstSlot(body, s)) \in PolySet
      <4>1. ConstSlot(body, s) \in Int
        BY ConstSlotIsWord
      <4>2. QED
        BY <4>1, PolyIs
    <3> HIDE DEF consts
    <3>4. QED
      BY <3>2, <3>3
  <2>4. base = [s \in D |-> base[s]]
    OBVIOUS
  <2>5. accs \subseteq D /\ DOMAIN base = D
    OBVIOUS
  <2> HIDE DEF D, base, consts
  <2>6. base \in [D -> PolySet]
    BY <2>3, <2>4
  <2>7. base \in Maps(Int, PolySet)
    BY <2>2, <2>6 DEF Maps
  <2>8. QED
    BY <2>5, <2>7
<1>2. \A u \in C, k \in 1 .. n : op(u, k) \in C
  <2>1. TAKE u \in C, k \in 1 .. n
  <2>2. body[k] \in Code(c, m)
    OBVIOUS
  <2>3. u \in Maps(Int, PolySet)
    BY MapsAre DEF NoPoly
  <2>4. CASE u = NoPoly
    <3>1. Advance(u, body[k]) = NoPoly
      BY <2>4 DEF Advance
    <3>2. QED
      BY <2>4, <3>1
  <2>5. CASE u # NoPoly
    <3>1. accs \subseteq DOMAIN u
      BY <2>5
    <3>2. Advance(u, body[k]) \in C
      BY <2>2, <2>3, <3>1, AdvanceStays
    <3>3. QED
      BY <3>2
  <2>6. QED
    BY <2>4, <2>5
<1>3. RoundPolys(body, insts, i, accs) = at[n]
  BY DEF RoundPolys, Walk
<1> HIDE DEF op, C, n, base
<1> DEFINE G == [z \in C \X (1 .. n) |-> op(z[1], z[2])]
<1>4. G \in [C \X (1 .. n) -> C] /\ \A u \in C, k \in 1 .. n : G[<<u, k>>] = op(u, k)
  BY <1>2
<1> HIDE DEF G
<1>5. PICK f \in [0 .. n -> C] : Walks(f, n, base, G)
  BY <1>1, <1>4, WalkExists
<1>6. Is(f)
  <2>1. ASSUME NEW k \in 1 .. n PROVE k - 1 \in 0 .. n /\ k # 0 /\ f[k] = op(f[k - 1], k)
    <3>1. k - 1 \in 0 .. n /\ k # 0
      BY <1>1
    <3>2. f[k - 1] \in C
      BY <3>1
    <3>3. QED
      BY <1>4, <1>5, <3>1, <3>2 DEF Walks
  <2>2. \A k \in 0 .. n : k # 0 => k \in 1 .. n
    BY <1>1
  <2>3. f[0] = base
    BY <1>5 DEF Walks
  <2>4. QED
    BY <2>1, <2>2, <2>3
<1>7. Is(at)
  BY <1>6
<1> HIDE DEF at
<1>8. at[0] = base /\ \A k \in 1 .. n : at[k] = op(at[k - 1], k)
  <2>1. 0 \in 0 .. n /\ \A k \in 1 .. n : k \in 0 .. n /\ k # 0
    BY <1>1
  <2>2. at[0] = base
    BY <1>7, <2>1
  <2>3. ASSUME NEW k \in 1 .. n PROVE at[k] = op(at[k - 1], k)
    <3>1. at[k] = CHOOSE v \in {op(u, k) : u \in {at[k - 1]}} : TRUE
      BY <1>7, <2>1
    <3>2. QED
      BY <3>1
  <2>4. QED
    BY <2>2, <2>3
<1>9. \A k \in 0 .. n : at[k] \in C
  <2>1. \A k \in 1 .. n : at[k - 1] \in C => at[k] \in C
    BY <1>2, <1>8
  <2>2. at[0] \in C
    BY <1>1, <1>8
  <2>3. QED
    BY <1>1, <2>1, <2>2, WalkStays
<1>10. QED
  <2>1. at[n] \in C
    BY <1>1, <1>9
  <2>2. at[n] \in Maps(Int, PolySet) /\ accs \subseteq DOMAIN at[n]
    BY <1>3, <2>1 DEF C
  <2>3. QED
    BY <1>3, <2>2, MapsAre

LEMMA InitConstIsWord ==
    ASSUME NEW c, c.values = Words, NEW n \in Nat, NEW body \in Seq(Code(c, n)), NEW s,
           NEW k \in 1 .. Len(body)
    PROVE  InitConst(body, s, k) \subseteq Words
<1> DEFINE Before(t, m) == {j \in 1 .. m - 1 : body[j].dest = t}
           IsConst(P) == P # {} /\ body[Max(P)].op = "Const"
           A == Before(s, k)
           B == Before(body[Max(A)].lhs, Max(A))
<1>1. \A j \in 1 .. Len(body) : body[j].op = "Const" => body[j].value \in Words
  BY DEF Code
<1>2. A # {} => Max(A) \in 1 .. Len(body)
  <2>1. A \subseteq 1 .. Len(body) /\ Len(body) \in Nat
    OBVIOUS
  <2>2. A # {} => Max(A) \in A
    BY <2>1, MaxIsIn
  <2>3. QED
    BY <2>1, <2>2
<1>3. A # {} /\ B # {} => Max(B) \in 1 .. Len(body)
  <2>1. A # {} => B \subseteq 1 .. Len(body) /\ Len(body) \in Nat
    <3> DEFINE M == Max(A)
    <3>1. B \subseteq 1 .. M - 1
      OBVIOUS
    <3>2. A # {} => M \in 1 .. Len(body)
      BY <1>2
    <3> HIDE DEF M, B, A
    <3>3. A # {} => 1 .. M - 1 \subseteq 1 .. Len(body)
      BY <3>2
    <3>4. QED
      BY <3>1, <3>3
  <2>2. A # {} /\ B # {} => Max(B) \in B
    BY <2>1, MaxIsIn
  <2>3. QED
    BY <2>1, <2>2
<1>4. InitConst(body, s, k) =
        CASE IsConst(A) -> {body[Max(A)].value}
          [] A # {} /\ body[Max(A)].op = "Move" /\ IsConst(B) -> {body[Max(B)].value}
          [] OTHER -> {}
  BY DEF InitConst
<1> HIDE DEF A, B
<1>5. CASE IsConst(A)
  BY <1>1, <1>2, <1>4, <1>5
<1>6. CASE A # {} /\ body[Max(A)].op = "Move" /\ IsConst(B)
  BY <1>1, <1>3, <1>4, <1>6
<1>7. CASE ~IsConst(A) /\ ~(A # {} /\ body[Max(A)].op = "Move" /\ IsConst(B))
  BY <1>4, <1>7
<1>8. QED
  BY <1>5, <1>6, <1>7

LEMMA TripsAreInts ==
    ASSUME NEW rel, NEW init \in Int, NEW step \in Int, step # 0, NEW bound \in Int
    PROVE  Trips(rel, init, step, bound) \subseteq Int
<1> DEFINE dist == IF step > 0 THEN bound - init ELSE init - bound
           size == Magnitude(step)
           strict == IF step > 0 THEN "lt" ELSE "gt"
           loose  == IF step > 0 THEN "le" ELSE "ge"
<1>1. dist \in Int /\ size \in Nat /\ size > 0
  BY DEF Magnitude
<1>2. Trips(rel, init, step, bound) =
        CASE rel = "ne" -> IF dist >= 0 /\ dist % size = 0 THEN {dist \div size} ELSE {}
          [] rel = strict -> {IF dist =< 0 THEN 0 ELSE (dist + size - 1) \div size}
          [] rel = loose -> {IF dist < 0 THEN 0 ELSE dist \div size + 1}
          [] OTHER -> {}
  BY DEF Trips
<1>3. strict # "ne" /\ loose # "ne" /\ strict # loose
  OBVIOUS
<1> HIDE DEF dist, size, strict, loose
<1>4. dist \div size \in Int /\ (dist + size - 1) \div size \in Int
  <2>1. dist + size - 1 \in Int
    BY <1>1
  <2>2. QED
    BY <1>1, <2>1, DivMod
<1>5. dist \div size + 1 \in Int
  BY <1>4
<1>6. QED
  BY <1>2, <1>3, <1>4, <1>5

LEMMA ClosedFormIsWord ==
    ASSUME NEW p \in PolySet, NEW init \in Int, NEW step \in Int, NEW t \in Int
    PROVE  ClosedForm(p, init, step, t) \in Words
<1> DEFINE tri   == (t * (t - 1)) \div 2
           cube  == (tri * (2 * t - 1)) \div 3
           sumSq == t * init * init + 2 * init * step * tri + step * step * cube
           total == t * (p.a * init + p.c) + p.a * step * tri + p.q * sumSq
<1>1. p.q \in Int /\ p.a \in Int /\ p.c \in Int
  BY PolyIs
<1>2. tri \in Int
  <2>1. t * (t - 1) \in Int
    OBVIOUS
  <2>2. QED
    BY <2>1, DivMod
<1>3. cube \in Int
  <2> HIDE DEF tri
  <2>1. tri * (2 * t - 1) \in Int
    BY <1>2
  <2>2. QED
    BY <2>1, DivMod
<1>4. sumSq \in Int
  <2> HIDE DEF tri, cube
  <2>1. t * init * init \in Int /\ 2 * init * step * tri \in Int /\ step * step * cube \in Int
    BY <1>2, <1>3
  <2>2. QED
    BY <2>1
<1>5. total \in Int
  <2> HIDE DEF tri, cube, sumSq
  <2>1. t * (p.a * init + p.c) \in Int /\ p.a * step * tri \in Int /\ p.q * sumSq \in Int
    BY <1>1, <1>2, <1>4
  <2>2. QED
    BY <2>1
<1>6. Wrap(total) \in Words
  BY <1>5, WordsAre
<1>7. QED
  BY <1>6 DEF ClosedForm

\* The induction variable is a slot of the frame, its step a number other than 0.
LEMMA InductionIs ==
    ASSUME NEW c, c.values = Words, NEW m \in Nat, NEW body \in Seq(Code(c, m)),
           NEW insts \in SUBSET DOMAIN body, \A j \in insts : DefinesSlot(body[j]),
           NEW cmp, NEW ind \in Inductions(body, insts, cmp)
    PROVE  ind.slot \in Slots(m) /\ ind.step \in Int /\ ind.step # 0
<1> DEFINE Signed(i, v) == IF i.oper = "sub" THEN -v ELSE v
<1>1. \A i, s : Signed(i, ConstSlot(body, s)) \in Int
  <2>1. TAKE i, s
  <2>2. ConstSlot(body, s) \in Int
    BY ConstSlotIsWord
  <2> DEFINE v == ConstSlot(body, s)
  <2> HIDE DEF v
  <2>3. v \in Int => Signed(i, v) \in Int
    OBVIOUS
  <2>4. QED
    BY <2>2, <2>3 DEF v
<1>2. \A j \in insts : body[j].dest \in Slots(m)
  <2>1. TAKE j \in insts
  <2>2. body[j] \in Code(c, m) /\ DefinesSlot(body[j])
    OBVIOUS
  <2>3. QED
    BY <2>2 DEF Code, FitsFrame, Slots
<1>3. /\ ind.step # 0
      /\ \E j \in insts : \E i, s : ind = [slot |-> body[j].dest, step |-> Signed(i, ConstSlot(body, s))]
  <2> DEFINE tested == {cmp.lhs, cmp.rhs}
             linear(n) == body[n].op = "Binary" /\ body[n].oper \in {"add", "sub"}
             direct == {n \in insts : /\ linear(n) /\ body[n].dest = body[n].lhs
                                     /\ body[n].dest \in tested}
             Updates(n) == {t \in insts : body[t].dest = body[n].lhs}
             Other(t, i) == IF t.lhs = i THEN t.rhs ELSE t.lhs
             copied == {n \in insts :
                         /\ body[n].op = "Move" /\ body[n].dest \in tested
                         /\ \E m2 \in insts :
                               LET t == body[m2]
                               IN  /\ Updates(n) = {m2} /\ linear(m2)
                                   /\ body[n].dest \in {t.lhs, t.rhs}
                                   /\ t.oper = "sub" => t.lhs = body[n].dest
                                   /\ ConstSlot(body, Other(t, body[n].dest)) # 0}
             Copied(n) == LET t == body[CHOOSE m2 \in insts : Updates(n) = {m2}]
                          IN  [slot |-> body[n].dest,
                               step |-> Signed(t, ConstSlot(body, Other(t, body[n].dest)))]
             Direct(n) == [slot |-> body[n].dest,
                           step |-> Signed(body[n], ConstSlot(body, body[n].rhs))]
             found == IF direct # {} THEN {Direct(n) : n \in direct} ELSE {Copied(n) : n \in copied}
  <2>1. Inductions(body, insts, cmp) =
          IF Cardinality(IF direct # {} THEN direct ELSE copied) = 1
          THEN {i \in found : i.step # 0} ELSE {}
    BY DEF Inductions
  <2>2. direct \subseteq insts /\ copied \subseteq insts
    OBVIOUS
  <2> HIDE DEF direct, copied, Signed
  <2>3. ind \in found /\ ind.step # 0
    BY <2>1
  <2>4. \/ \E n \in insts : ind = Direct(n)
        \/ \E n \in insts : ind = Copied(n)
    BY <2>2, <2>3
  <2> HIDE DEF Updates, Other
  <2>5. \A n \in insts : \E i, s : Direct(n) = [slot |-> body[n].dest, step |-> Signed(i, ConstSlot(body, s))]
    OBVIOUS
  <2>6. \A n \in insts : \E i, s : Copied(n) = [slot |-> body[n].dest, step |-> Signed(i, ConstSlot(body, s))]
    OBVIOUS
  <2>7. QED
    BY <2>3, <2>4, <2>5, <2>6
<1> HIDE DEF Signed
<1>4. PICK j \in insts : \E i, s : ind = [slot |-> body[j].dest, step |-> Signed(i, ConstSlot(body, s))]
  BY <1>3
<1>5. QED
  BY <1>1, <1>2, <1>3, <1>4

\* The body of a loop is part of the list.
LEMMA BodyInstsAre ==
    ASSUME NEW S, NEW body \in Seq(S), NEW k \in LoopHeads(body), BodyLabels(body, k) # {}
    PROVE  BodyInsts(body, k) \in SUBSET DOMAIN body
<1>1. k \in 1 .. Len(body) /\ LoopEnd(body, k) \in k + 1 .. Len(body) /\ Len(body) \in Nat
  BY LoopIs
<1>2. BodyLabels(body, k) \subseteq k + 1 .. LoopEnd(body, k) - 1
  BY DEF BodyLabels, Between
<1> DEFINE e == LoopEnd(body, k)
           b == Min(BodyLabels(body, k))
<1>3. b \in k + 1 .. e - 1
  <2>1. BodyLabels(body, k) \subseteq Nat
    BY <1>1, <1>2
  <2>2. QED
    BY <1>2, <2>1, MinIsIn
<1>4. BodyInsts(body, k) \subseteq b .. e - 1
  BY DEF BodyInsts
<1> HIDE DEF b, e
<1>5. e \in k + 1 .. Len(body)
  BY <1>1 DEF e
<1>6. b .. e - 1 \subseteq 1 .. Len(body)
  BY <1>1, <1>3, <1>5
<1>7. QED
  BY <1>4, <1>6

-----------------------------------------------------------------------------
(* Functions. *)

\* What passes may make of fn: the same name and parameters, as many slots or more,
\* and instructions that c allows.
Versions(c, fn) ==
    {f \in [name : {fn.name}, params : {fn.params}, slotCount : Nat, named : {fn.named},
            body : Seq(Instructions(c))] :
        fn.slotCount =< f.slotCount /\ f.body \in Seq(Code(c, f.slotCount))}

LEMMA CodeGrows ==
    ASSUME NEW c, NEW n \in Nat, NEW k \in Nat, n =< k
    PROVE  Code(c, n) \subseteq Code(c, k) /\ Seq(Code(c, n)) \subseteq Seq(Code(c, k))
<1>1. Slots(n) \subseteq Slots(k)
  BY DEF Slots
<1>2. Code(c, n) \subseteq Code(c, k)
  BY <1>1 DEF Code, FitsFrame, Slots
<1>3. QED
  BY <1>2

LEMMA CodeIsInstructions ==
    ASSUME NEW c, NEW n PROVE Seq(Code(c, n)) \subseteq Seq(Instructions(c))
<1>1. Code(c, n) \subseteq Instructions(c)
  BY DEF Code
<1>2. QED
  BY <1>1

\* A version with another body and maybe more slots is one, too.
LEMMA NewVersion ==
    ASSUME NEW c, NEW fn, fn.slotCount \in Nat, NEW f \in Versions(c, fn), NEW k \in Nat,
           f.slotCount =< k, NEW code \in Seq(Code(c, k))
    PROVE  /\ [f EXCEPT !.slotCount = k, !.body = code] \in Versions(c, fn)
           /\ k = f.slotCount => [f EXCEPT !.body = code] \in Versions(c, fn)
<1> DEFINE R == [name : {fn.name}, params : {fn.params}, slotCount : Nat, named : {fn.named},
                 body : Seq(Instructions(c))]
<1>1. f \in R /\ fn.slotCount =< f.slotCount /\ f.slotCount \in Nat
  BY DEF Versions
<1>2. code \in Seq(Instructions(c))
  BY CodeIsInstructions
<1> DEFINE g == [f EXCEPT !.slotCount = k, !.body = code]
           h == [f EXCEPT !.body = code]
<1>3. g \in R /\ g.slotCount = k /\ g.body = code
  BY <1>1, <1>2
<1>4. h \in R /\ h.slotCount = f.slotCount /\ h.body = code
  BY <1>1, <1>2
<1>5. fn.slotCount =< k
  BY <1>1
<1> HIDE DEF g, h
<1>6. g \in Versions(c, fn)
  BY <1>3, <1>5 DEF Versions
<1>7. k = f.slotCount => h \in Versions(c, fn)
  BY <1>1, <1>4 DEF Versions
<1>8. QED
  BY <1>6, <1>7 DEF g, h

\* tailCallPass: the moves that stand in place of a call are into the function's own
\* parameters, from slots of its frame.
THEOREM TailCallStays ==
    ASSUME NEW c, IsContext(c), TailEntry \in c.labels, NEW g, g.slotCount \in Nat,
           NEW fn \in Versions(c, g), fn.params \in Seq(Slots(fn.slotCount)),
           fn.name \in DOMAIN c.arity => c.arity[fn.name] = Len(fn.params)
    PROVE  TailCall(fn) \in Versions(c, g)
<1> DEFINE body == fn.body
           m == fn.slotCount
           IsTail(j) == /\ j \in 1 .. Len(body) - 1
                        /\ body[j].op = "Call" /\ body[j].name = fn.name
                        /\ body[j+1].op = "Return" /\ body[j+1].lhs = body[j].dest
           Moves(args) == [k \in DOMAIN args |-> Move(fn.params[k], args[k])]
           n == Len(body)
           base == <<Label(TailEntry)>>
           op(code, j) ==
             CASE IsTail(j) -> code \o Moves(body[j].args) \o <<Goto(TailEntry)>>
               [] IsTail(j - 1) -> code
               [] OTHER -> Append(code, body[j])
           Is(f) == f = [k \in 0 .. n |-> IF k = 0 THEN base
                                        ELSE CHOOSE v \in {op(u, k) : u \in {f[k - 1]}} : TRUE]
           at == CHOOSE f : Is(f)
           C == Seq(Code(c, m))
<1>a. m \in Nat /\ body \in Seq(Code(c, m))
  BY DEF Versions
<1>1. n \in Nat /\ base \in C
  <2>1. Label(TailEntry) \in Code(c, m)
    BY <1>a, Constructed
  <2>2. QED
    BY <1>a, <2>1
<1>2. \A u \in C, k \in 1 .. n : op(u, k) \in C
  <2>1. TAKE u \in C, k \in 1 .. n
  <2>2. body[k] \in Code(c, m)
    BY <1>a
  <2>3. ASSUME IsTail(k) PROVE op(u, k) \in C
    <3> DEFINE args == body[k].args
               moves == Moves(args)
    <3>1. /\ args \in Seq(Int) /\ \A j \in DOMAIN args : args[j] \in Slots(m)
          /\ Len(args) = Len(fn.params)
      <4>1. body[k] \in Instructions(c) /\ body[k].op = "Call" /\ body[k].name = fn.name
        BY <2>2, <2>3 DEF Code
      <4> HIDE DEF IsTail, Moves, body
      <4>2. /\ \A j \in DOMAIN args : args[j] \in Slots(m)
            /\ body[k].name \in DOMAIN c.arity /\ Len(args) = c.arity[body[k].name]
        BY <1>a, <2>2, <4>1, CodeIs
      <4>3. args \in Seq(Int)
        BY <4>1 DEF Instructions
      <4>4. QED
        BY <4>1, <4>2, <4>3
    <3>2. \A j \in DOMAIN args : Move(fn.params[j], args[j]) \in Code(c, m)
      <4>1. TAKE j \in DOMAIN args
      <4>2. j \in DOMAIN fn.params
        BY <3>1
      <4>3. fn.params[j] \in Slots(m)
        BY <4>2
      <4>4. QED
        BY <1>a, <3>1, <4>3, Constructed
    <3>3. moves \in [1 .. Len(args) -> Code(c, m)]
      BY <3>1, <3>2
    <3>4. moves \in C
      <4>1. Len(args) \in Nat
        BY <3>1
      <4> HIDE DEF moves, args
      <4>2. moves \in Seq(Code(c, m))
        BY <3>3, <4>1
      <4>3. QED
        BY <4>2
    <3>5. Goto(TailEntry) \in Code(c, m)
      BY <1>a, Constructed
    <3>6. op(u, k) = u \o moves \o <<Goto(TailEntry)>>
      <4>1. (k - 1) + 1 = k
        BY <1>1
      <4>2. ~IsTail(k - 1)
        BY <2>3, <4>1
      <4> HIDE DEF IsTail, Moves
      <4>3. QED
        BY <2>3, <4>2
    <3> HIDE DEF moves, op
    <3>7. u \o moves \o <<Goto(TailEntry)>> \in C
      BY <3>4, <3>5
    <3>8. QED
      BY <3>6, <3>7
  <2>4. CASE ~IsTail(k)
    <3>1. op(u, k) = u \/ op(u, k) = Append(u, body[k])
      <4> HIDE DEF IsTail, Moves
      <4>1. QED
        BY <2>4
    <3> HIDE DEF op
    <3>2. Append(u, body[k]) \in C
      BY <2>2
    <3>3. QED
      BY <3>1, <3>2
  <2>5. QED
    BY <2>3, <2>4
<1>3. TailCall(fn) = IF \E j \in DOMAIN body : IsTail(j) THEN [fn EXCEPT !.body = at[n]] ELSE fn
  BY DEF TailCall, Walk
<1> HIDE DEF IsTail, Moves
<1> HIDE DEF op, C, n, base
<1> DEFINE G == [z \in C \X (1 .. n) |-> op(z[1], z[2])]
<1>4. G \in [C \X (1 .. n) -> C] /\ \A u \in C, k \in 1 .. n : G[<<u, k>>] = op(u, k)
  BY <1>2
<1> HIDE DEF G
<1>5. PICK f \in [0 .. n -> C] : Walks(f, n, base, G)
  BY <1>1, <1>4, WalkExists
<1>6. Is(f)
  <2>1. ASSUME NEW k \in 1 .. n PROVE k - 1 \in 0 .. n /\ k # 0 /\ f[k] = op(f[k - 1], k)
    <3>1. k - 1 \in 0 .. n /\ k # 0
      BY <1>1
    <3>2. f[k - 1] \in C
      BY <3>1
    <3>3. QED
      BY <1>4, <1>5, <3>1, <3>2 DEF Walks
  <2>2. \A k \in 0 .. n : k # 0 => k \in 1 .. n
    BY <1>1
  <2>3. f[0] = base
    BY <1>5 DEF Walks
  <2>4. QED
    BY <2>1, <2>2, <2>3
<1>7. Is(at)
  BY <1>6
<1> HIDE DEF at
<1>8. at[0] = base /\ \A k \in 1 .. n : at[k] = op(at[k - 1], k)
  <2>1. 0 \in 0 .. n /\ \A k \in 1 .. n : k \in 0 .. n /\ k # 0
    BY <1>1
  <2>2. at[0] = base
    BY <1>7, <2>1
  <2>3. ASSUME NEW k \in 1 .. n PROVE at[k] = op(at[k - 1], k)
    <3>1. at[k] = CHOOSE v \in {op(u, k) : u \in {at[k - 1]}} : TRUE
      BY <1>7, <2>1
    <3>2. QED
      BY <3>1
  <2>4. QED
    BY <2>2, <2>3
<1>9. \A k \in 0 .. n : at[k] \in C
  <2>1. \A k \in 1 .. n : at[k - 1] \in C => at[k] \in C
    BY <1>2, <1>8
  <2>2. at[0] \in C
    BY <1>1, <1>8
  <2>3. QED
    BY <1>1, <2>1, <2>2, WalkStays
<1>10. QED
  <2>1. at[n] \in Seq(Code(c, m))
    BY <1>1, <1>9 DEF C
  <2> DEFINE code == at[n]
  <2>a. m =< m
    BY <1>a
  <2>b. code \in Seq(Code(c, m))
    BY <2>1
  <2> HIDE DEF code
  <2>c. [fn EXCEPT !.body = code] \in Versions(c, g)
    BY <1>a, <2>a, <2>b, NewVersion
  <2>2. [fn EXCEPT !.body = at[n]] \in Versions(c, g)
    BY <2>c DEF code
  <2>3. QED
    BY <1>3, <2>2

LEMMA HalfOfDouble == \A l \in Nat : (2 * l) \div 2 = l
  OBVIOUS

\* The code that replaces a summing loop fits a frame with a new slot for every sum.
LEMMA SumElimAtStays ==
    ASSUME NEW c, IsContext(c), c.values = Words, NEW g, g.slotCount \in Nat, NEW fn \in Versions(c, g),
           NEW k \in LoopHeads(fn.body)
    PROVE  SumElimAt(fn, k) \in Versions(c, g)
<1> DEFINE body   == fn.body
           m      == fn.slotCount
           insts  == BodyInsts(body, k)
           straight == /\ BodyLabels(body, k) # {} /\ insts # {} /\ Cardinality(insts) =< 48
                       /\ \A j \in insts : DefinesSlot(body[j])
           cmp    == The(Comparison(body, k))
           ind    == The(Inductions(body, insts, cmp))
           init   == The(InitConst(body, ind.slot, k))
           bound  == IF cmp.lhs = ind.slot THEN cmp.rhs ELSE cmp.lhs
           rel    == IF cmp.lhs = ind.slot THEN cmp.oper ELSE Mirrored(cmp.oper)
           trips  == Trips(rel, init, ind.step, ConstSlot(body, bound))
           accs   == Accumulators(body, k, insts, ind.slot)
           polys  == RoundPolys(body, insts, ind.slot, accs)
           sums   == /\ accs # {} /\ polys # NoPoly
                     /\ \A s \in accs : /\ Cardinality({j \in insts : body[j].dest = s}) = 1
                                        /\ polys[s] # Poly(0, 0, 0)
           Sum(s) == ClosedForm(polys[s], init, ind.step, The(trips))
           n == m
           base == <<>>
           op(code, j) ==
             LET s     == j - 1
                 fresh == m + (Len(code) \div 2)
             IN  IF s \in accs THEN code \o <<Const(fresh, Sum(s)), Binary(s, "add", s, fresh)>> ELSE code
           Is(f) == f = [q \in 0 .. n |-> IF q = 0 THEN base
                                        ELSE CHOOSE v \in {op(u, q) : u \in {f[q - 1]}} : TRUE]
           at == CHOOSE f : Is(f)
           adds == at[n]
           fits == /\ straight /\ Comparison(body, k) # {}
                   /\ Inductions(body, insts, cmp) # {} /\ sums
                   /\ SingleConst(body, bound) /\ InitConst(body, ind.slot, k) # {} /\ trips # {}
           last == Const(ind.slot, Wrap(init + The(trips) * ind.step))
           new  == SubSeq(body, 1, k - 1) \o adds \o <<last>> \o SubSeq(body, LoopEnd(body, k), Len(body))
           C == UNION {{code \in Seq(Code(c, m + j)) : Len(code) = 2 * j} : j \in Nat}
<1>a. m \in Nat /\ body \in Seq(Code(c, m))
  BY DEF Versions
<1>3. SumElimAt(fn, k) = IF fits THEN [fn EXCEPT !.slotCount = @ + (Len(adds) \div 2), !.body = new]
                         ELSE fn
  BY DEF SumElimAt, Walk
<1>b. SUFFICES ASSUME fits
               PROVE  [fn EXCEPT !.slotCount = @ + (Len(adds) \div 2), !.body = new] \in Versions(c, g)
  BY <1>3
<1>c. insts \in SUBSET DOMAIN body /\ \A j \in insts : DefinesSlot(body[j])
  BY <1>a, <1>b, BodyInstsAre
<1>d. ind.slot \in Slots(m) /\ ind.step \in Int /\ ind.step # 0
  <2>1. ind \in Inductions(body, insts, cmp)
    BY <1>b DEF The
  <2> HIDE DEF ind, insts, cmp
  <2>2. QED
    BY <1>a, <1>c, <2>1, InductionIs
<1>e. k \in 1 .. Len(body) /\ LoopEnd(body, k) \in k + 1 .. Len(body) /\ Len(body) \in Nat
  BY <1>a, LoopIs
<1>f. init \in Int
  <2>1. init \in InitConst(body, ind.slot, k)
    BY <1>b DEF The
  <2> HIDE DEF ind, init
  <2>2. QED
    BY <1>a, <1>e, <2>1, InitConstIsWord, WordsAre
<1>g. The(trips) \in Int
  <2>1. The(trips) \in trips
    BY <1>b DEF The
  <2>2. ConstSlot(body, bound) \in Int
    BY <1>a, ConstSlotIsWord
  <2> HIDE DEF bound, rel, init, ind
  <2>3. QED
    BY <1>d, <1>f, <2>1, <2>2, TripsAreInts
<1>h. accs \in SUBSET Int /\ polys # NoPoly
  <2>1. \A j \in insts : body[j].dest \in Int
    BY <1>a, <1>c DEF Code, Instructions
  <2>2. accs \subseteq {body[j].dest : j \in insts}
    BY DEF Accumulators
  <2>3. QED
    BY <1>b, <2>1, <2>2
<1>i. \A s \in accs : Sum(s) \in Words
  <2>1. ind.slot \in Int
    BY <1>d DEF Slots
  <2> HIDE DEF insts, ind, accs
  <2>2. \A s \in accs : polys[s] \in PolySet
    BY <1>a, <1>c, <1>h, <2>1, RoundPolysStay
  <2> HIDE DEF polys, trips, init
  <2>3. QED
    BY <1>d, <1>f, <1>g, <2>2, ClosedFormIsWord
<1> HIDE DEF ind, accs, Sum, trips, init
<1>1. n \in Nat /\ base \in C
  <2>1. <<>> \in Seq(Code(c, m + 0)) /\ Len(<<>>) = 2 * 0
    OBVIOUS
  <2>2. QED
    BY <1>a, <2>1
<1>2. \A u \in C, j \in 1 .. n : op(u, j) \in C
  <2>1. TAKE u \in C, j \in 1 .. n
  <2>2. PICK l \in Nat : u \in Seq(Code(c, m + l)) /\ Len(u) = 2 * l
    OBVIOUS
  <2>3. ASSUME j - 1 \in accs PROVE op(u, j) \in C
    <3> DEFINE fresh == m + (Len(u) \div 2)
               one == Const(fresh, Sum(j - 1))
               two == Binary(j - 1, "add", j - 1, fresh)
               w == m + (l + 1)
    <3>1. (2 * l) \div 2 = l
      BY HalfOfDouble
    <3>2. fresh = m + l
      BY <2>2, <3>1
    <3>3. w \in Nat /\ fresh \in Slots(w) /\ j - 1 \in Slots(w)
      <4>1. m \in Nat /\ l \in Nat /\ j \in Int /\ 0 =< j - 1 /\ j - 1 =< m - 1
        BY <1>a, <2>3 DEF Slots
      <4> HIDE DEF fresh
      <4>2. w \in Nat /\ 0 =< m + l /\ m + l =< w - 1 /\ j - 1 =< w - 1
        BY <4>1
      <4>3. fresh \in Int /\ 0 =< fresh /\ fresh =< w - 1
        BY <3>2, <4>1, <4>2
      <4> HIDE DEF w
      <4>4. QED
        BY <4>1, <4>2, <4>3 DEF Slots
    <3>4. Sum(j - 1) \in c.values
      BY <1>i, <2>3
    <3>5. one \in Code(c, w) /\ two \in Code(c, w)
      BY <3>3, <3>4, Constructed
    <3>6. u \in Seq(Code(c, w))
      <4>1. m + l \in Nat /\ w \in Nat /\ m + l =< w
        BY <1>a
      <4> HIDE DEF w
      <4>2. QED
        BY <2>2, <4>1, CodeGrows
    <3> HIDE DEF one, two, w
    <3>7. u \o <<one, two>> \in Seq(Code(c, w)) /\ Len(u \o <<one, two>>) = 2 * (l + 1)
      <4>1. <<one, two>> \in Seq(Code(c, w)) /\ Len(<<one, two>>) = 2
        BY <3>5
      <4>2. Len(u \o <<one, two>>) = 2 * l + 2
        BY <2>2, <3>6, <4>1
      <4>3. QED
        BY <3>6, <4>1, <4>2
    <3>8. u \o <<one, two>> \in C
      BY <3>7 DEF w
    <3>9. QED
      BY <2>3, <3>8 DEF one, two
  <2>4. CASE j - 1 \notin accs
    BY <2>4
  <2>5. QED
    BY <2>3, <2>4
<1> HIDE DEF op, C, n, base
<1> DEFINE G == [z \in C \X (1 .. n) |-> op(z[1], z[2])]
<1>4. G \in [C \X (1 .. n) -> C] /\ \A u \in C, q \in 1 .. n : G[<<u, q>>] = op(u, q)
  BY <1>2
<1> HIDE DEF G
<1>5. PICK f \in [0 .. n -> C] : Walks(f, n, base, G)
  BY <1>1, <1>4, WalkExists
<1>6. Is(f)
  <2>1. ASSUME NEW q \in 1 .. n PROVE q - 1 \in 0 .. n /\ q # 0 /\ f[q] = op(f[q - 1], q)
    <3>1. q - 1 \in 0 .. n /\ q # 0
      BY <1>1
    <3>2. f[q - 1] \in C
      BY <3>1
    <3>3. QED
      BY <1>4, <1>5, <3>1, <3>2 DEF Walks
  <2>2. \A q \in 0 .. n : q # 0 => q \in 1 .. n
    BY <1>1
  <2>3. f[0] = base
    BY <1>5 DEF Walks
  <2>4. QED
    BY <2>1, <2>2, <2>3
<1>7. Is(at)
  BY <1>6
<1> HIDE DEF at
<1>8. at[0] = base /\ \A q \in 1 .. n : at[q] = op(at[q - 1], q)
  <2>1. 0 \in 0 .. n /\ \A q \in 1 .. n : q \in 0 .. n /\ q # 0
    BY <1>1
  <2>2. at[0] = base
    BY <1>7, <2>1
  <2>3. ASSUME NEW q \in 1 .. n PROVE at[q] = op(at[q - 1], q)
    <3>1. at[q] = CHOOSE v \in {op(u, q) : u \in {at[q - 1]}} : TRUE
      BY <1>7, <2>1
    <3>2. QED
      BY <3>1
  <2>4. QED
    BY <2>2, <2>3
<1>9. \A q \in 0 .. n : at[q] \in C
  <2>1. \A q \in 1 .. n : at[q - 1] \in C => at[q] \in C
    BY <1>2, <1>8
  <2>2. at[0] \in C
    BY <1>1, <1>8
  <2>3. QED
    BY <1>1, <2>1, <2>2, WalkStays
<1>10. PICK l \in Nat : adds \in Seq(Code(c, m + l)) /\ Len(adds) = 2 * l
  <2>1. adds \in C
    BY <1>1, <1>9
  <2>2. QED
    BY <2>1 DEF C
<1> DEFINE w == m + l
<1>11. w \in Nat /\ m =< w /\ m + (Len(adds) \div 2) = w
  <2>1. (2 * l) \div 2 = l
    OBVIOUS
  <2>2. QED
    BY <1>a, <1>10, <2>1
<1>12. new \in Seq(Code(c, w))
  <2>1. body \in Seq(Code(c, w))
    BY <1>a, <1>11, CodeGrows
  <2>2. SubSeq(body, 1, k - 1) \in Seq(Code(c, w))
    <3>1. 1 \in 1 .. Len(body) + 1 /\ k - 1 \in 0 .. Len(body)
      BY <1>e
    <3>2. QED
      BY <2>1, <3>1, PartStays
  <2>3. SubSeq(body, LoopEnd(body, k), Len(body)) \in Seq(Code(c, w))
    <3> DEFINE e == LoopEnd(body, k)
    <3>1. e \in 1 .. Len(body) + 1 /\ Len(body) \in 0 .. Len(body)
      BY <1>e
    <3> HIDE DEF e
    <3>2. SubSeq(body, e, Len(body)) \in Seq(Code(c, w))
      BY <2>1, <3>1, PartStays
    <3>3. QED
      BY <3>2 DEF e
  <2>4. last \in Code(c, w)
    <3> DEFINE t == The(trips)
    <3> HIDE DEF t
    <3>1. init + t * ind.step \in Int
      BY <1>d, <1>f, <1>g DEF t
    <3>2. Wrap(init + t * ind.step) \in c.values
      BY <3>1, WordsAre
    <3>3. ind.slot \in Slots(w)
      BY <1>d, <1>11, <1>a DEF Slots
    <3> HIDE DEF w
    <3>4. QED
      BY <1>11, <3>2, <3>3, Constructed DEF t
  <2>5. adds \in Seq(Code(c, w))
    BY <1>10
  <2> DEFINE front == SubSeq(body, 1, k - 1)
             back == SubSeq(body, LoopEnd(body, k), Len(body))
  <2> HIDE DEF adds, w, last, front, back
  <2>6. front \o adds \o <<last>> \o back \in Seq(Code(c, w))
    BY <2>2, <2>3, <2>4, <2>5 DEF front, back
  <2>7. QED
    BY <2>6 DEF front, back
<1> HIDE DEF new, adds, w
<1>13. [fn EXCEPT !.slotCount = w, !.body = new] \in Versions(c, g)
  BY <1>11, <1>12, NewVersion
<1>14. QED
  BY <1>11, <1>13

\* loopSumElimPass: the slots it takes for the sums are inside the frame it makes.
THEOREM LoopSumElimStays ==
    ASSUME NEW c, IsContext(c), c.values = Words, NEW g, g.slotCount \in Nat, NEW fn \in Versions(c, g)
    PROVE  LoopSumElim(fn) \in Versions(c, g)
<1> DEFINE Round(f) == AtFirstLoop(f, LoopHeads(f.body), LAMBDA k : SumElimAt(f, k))
           n == Len(fn.body)
           base == [x |-> fn, stable |-> FALSE]
           op(acc, k) == IF acc.stable THEN acc
                         ELSE LET next == Round(acc.x) IN [x |-> next, stable |-> next = acc.x]
           Is(f) == f = [k \in 0 .. n |-> IF k = 0 THEN base
                                        ELSE CHOOSE v \in {op(u, k) : u \in {f[k - 1]}} : TRUE]
           at == CHOOSE f : Is(f)
           C == [x : Versions(c, g), stable : BOOLEAN]
<1>1. n \in Nat /\ base \in C
  <2>1. fn.body \in Seq(Instructions(c))
    BY DEF Versions
  <2>2. n \in Nat
    BY <2>1
  <2>3. QED
    BY <2>2
<1>2. \A u \in C, k \in 1 .. n : op(u, k) \in C
  <2>1. TAKE u \in C, k \in 1 .. n
  <2> DEFINE f == u.x
             hit == {j \in LoopHeads(f.body) : SumElimAt(f, j) # f}
  <2>2. f \in Versions(c, g) /\ f.body \in Seq(Instructions(c))
    BY DEF Versions
  <2>3. Round(f) = IF hit = {} THEN f ELSE SumElimAt(f, Min(hit))
    BY DEF AtFirstLoop
  <2> HIDE DEF Round, f
  <2>4. \A j \in LoopHeads(f.body) : SumElimAt(f, j) \in Versions(c, g)
    BY <2>2, SumElimAtStays
  <2>5. hit # {} => Min(hit) \in LoopHeads(f.body)
    <3>1. LoopHeads(f.body) \subseteq Nat
      BY <2>2, LoopIs
    <3>2. QED
      BY <3>1, MinIsIn
  <2> HIDE DEF hit
  <2>6. Round(f) \in Versions(c, g)
    BY <2>2, <2>3, <2>4, <2>5
  <2>7. QED
    BY <2>6 DEF f
<1>3. LoopSumElim(fn) = at[n].x
  BY DEF LoopSumElim, Saturate, Walk
<1> HIDE DEF op, C, n, base
<1> DEFINE G == [z \in C \X (1 .. n) |-> op(z[1], z[2])]
<1>4. G \in [C \X (1 .. n) -> C] /\ \A u \in C, k \in 1 .. n : G[<<u, k>>] = op(u, k)
  BY <1>2
<1> HIDE DEF G
<1>5. PICK f \in [0 .. n -> C] : Walks(f, n, base, G)
  BY <1>1, <1>4, WalkExists
<1>6. Is(f)
  <2>1. ASSUME NEW k \in 1 .. n PROVE k - 1 \in 0 .. n /\ k # 0 /\ f[k] = op(f[k - 1], k)
    <3>1. k - 1 \in 0 .. n /\ k # 0
      BY <1>1
    <3>2. f[k - 1] \in C
      BY <3>1
    <3>3. QED
      BY <1>4, <1>5, <3>1, <3>2 DEF Walks
  <2>2. \A k \in 0 .. n : k # 0 => k \in 1 .. n
    BY <1>1
  <2>3. f[0] = base
    BY <1>5 DEF Walks
  <2>4. QED
    BY <2>1, <2>2, <2>3
<1>7. Is(at)
  BY <1>6
<1> HIDE DEF at
<1>8. at[0] = base /\ \A k \in 1 .. n : at[k] = op(at[k - 1], k)
  <2>1. 0 \in 0 .. n /\ \A k \in 1 .. n : k \in 0 .. n /\ k # 0
    BY <1>1
  <2>2. at[0] = base
    BY <1>7, <2>1
  <2>3. ASSUME NEW k \in 1 .. n PROVE at[k] = op(at[k - 1], k)
    <3>1. at[k] = CHOOSE v \in {op(u, k) : u \in {at[k - 1]}} : TRUE
      BY <1>7, <2>1
    <3>2. QED
      BY <3>1
  <2>4. QED
    BY <2>2, <2>3
<1>9. \A k \in 0 .. n : at[k] \in C
  <2>1. \A k \in 1 .. n : at[k - 1] \in C => at[k] \in C
    BY <1>2, <1>8
  <2>2. at[0] \in C
    BY <1>1, <1>8
  <2>3. QED
    BY <1>1, <2>1, <2>2, WalkStays
<1>10. at[n] \in C
  BY <1>1, <1>9
<1>11. QED
  BY <1>3, <1>10 DEF C

-----------------------------------------------------------------------------
(* Facts carried across the control-flow graph. *)

GlobalKeys == {<<o, a % 1048576, b % 1048576>> : o \in UnaryOpers \cup BinaryOpers,
                                                 a \in Operands, b \in Operands}
Exprs(n) == [avail : Maps(GlobalKeys, Slots(n)), known : Known(n)]
Facts(analysis, n) ==
    CASE analysis = "constants" -> Known(n)
      [] analysis = "copies" -> Aliases(n)
      [] analysis = "expressions" -> Exprs(n)
Analyses == {"constants", "copies", "expressions"}

LEMMA FactsAre ==
    ASSUME NEW n
    PROVE  /\ Facts("constants", n) = Known(n)
           /\ Facts("copies", n) = Aliases(n)
           /\ Facts("expressions", n) = Exprs(n)
           /\ \A analysis \in Analyses : NoFacts(analysis) \in Facts(analysis, n)
<1>1. /\ Facts("constants", n) = Known(n)
      /\ Facts("copies", n) = Aliases(n)
      /\ Facts("expressions", n) = Exprs(n)
  BY DEF Facts
<1>2. Nothing \in Known(n) /\ Nothing \in Aliases(n) /\ NoExprs \in Exprs(n)
  BY MapsAre DEF Known, Aliases, Exprs, NoExprs
<1>3. QED
  BY <1>1, <1>2 DEF NoFacts, Analyses

LEMMA GlobalKeyStays ==
    ASSUME NEW c, NEW n \in Nat, NEW i \in Code(c, n), NEW known \in Known(n)
    PROVE  GlobalKey(i, known) \in GlobalKeys
<1> DEFINE a == Encoded(i.lhs, known)
           b == Encoded(i.rhs, known)
<1>1. i.lhs \in Int /\ i.rhs \in Int /\ i.oper \in UnaryOpers \cup BinaryOpers
  BY DEF Code, Instructions
<1>2. a \in Operands /\ b \in Operands
  BY <1>1, EncodedIsOperand DEF Known
<1>3. GlobalKey(i, known) = IF Swapped(i, a, b) THEN <<i.oper, b % 1048576, a % 1048576>>
                            ELSE <<i.oper, a % 1048576, b % 1048576>>
  BY DEF GlobalKey
<1> HIDE DEF a, b
<1>4. <<i.oper, b % 1048576, a % 1048576>> \in GlobalKeys /\ <<i.oper, a % 1048576, b % 1048576>> \in GlobalKeys
  BY <1>1, <1>2 DEF GlobalKeys
<1>5. QED
  BY <1>3, <1>4

LEMMA KillStays ==
    ASSUME NEW n, NEW f \in Exprs(n), NEW d
    PROVE  Kill(f, d) \in Exprs(n)
<1> DEFINE D == {p \in DOMAIN f.avail : d \notin {f.avail[p], p[2], p[3]}}
           m == [q \in D |-> f.avail[q]]
<1>1. D \in SUBSET GlobalKeys /\ \A q \in D : f.avail[q] \in Slots(n)
  BY MapsAre DEF Exprs
<1> HIDE DEF D
<1>2. m \in [D -> Slots(n)]
  BY <1>1
<1>3. m \in Maps(GlobalKeys, Slots(n))
  BY <1>1, <1>2 DEF Maps
<1>4. Forget(f.known, d) \in Known(n)
  BY MapsAre DEF Exprs, Known
<1>5. Kill(f, d) = [avail |-> m, known |-> Forget(f.known, d)]
  BY DEF Kill, D
<1> HIDE DEF m
<1>6. QED
  BY <1>3, <1>4, <1>5 DEF Exprs

LEMMA AvailableStays ==
    ASSUME NEW c, NEW n \in Nat, NEW i \in Code(c, n), NEW f \in Exprs(n)
    PROVE  Available(f, i) \in Exprs(n)
<1> DEFINE k == Kill(f, i.dest)
<1>1. k \in Exprs(n)
  BY KillStays
<1> HIDE DEF k
<1>2. k.avail \in Maps(GlobalKeys, Slots(n)) /\ k.known \in Known(n) /\ k = [avail |-> k.avail, known |-> k.known]
  BY <1>1 DEF Exprs
<1>3. i \in Instructions(c) /\ i.value \in Constants
  BY DEF Code, Instructions, Constants
<1>4. i.op \in {"Const", "Move", "Binary"} => i.dest \in Slots(n)
  BY <1>3, CodeIs
<1>5. CASE i.op = "Const"
  <2>1. Available(f, i) = [k EXCEPT !.known = Bind(@, i.dest, i.value)]
    BY <1>5 DEF Available, k
  <2>2. Bind(k.known, i.dest, i.value) \in Known(n)
    BY <1>2, <1>3, <1>4, <1>5, MapsAre DEF Known
  <2>3. QED
    BY <1>2, <2>1, <2>2 DEF Exprs
<1>6. CASE i.op = "Move"
  <2> DEFINE m == IF i.lhs \in DOMAIN k.known THEN Bind(k.known, i.dest, k.known[i.lhs]) ELSE k.known
  <2>1. Available(f, i) = [k EXCEPT !.known = m]
    BY <1>6 DEF Available, k
  <2>2. m \in Known(n)
    <3>1. i.lhs \in DOMAIN k.known => k.known[i.lhs] \in Constants
      BY <1>2, MapsAre DEF Known
    <3>2. QED
      BY <1>2, <1>4, <1>6, <3>1, MapsAre DEF Known
  <2> HIDE DEF m
  <2>3. QED
    BY <1>2, <2>1, <2>2 DEF Exprs
<1>7. CASE i.op = "Binary"
  <2> DEFINE l == IF SelfUpdate(i) THEN k.avail ELSE Bind(k.avail, GlobalKey(i, k.known), i.dest)
             m == IF Foldable(i, k.known) THEN Bind(k.known, i.dest, FoldedValue(i, k.known)) ELSE k.known
  <2>1. Available(f, i) = [avail |-> l, known |-> m]
    BY <1>7 DEF Available, k
  <2>2. l \in Maps(GlobalKeys, Slots(n))
    <3>1. GlobalKey(i, k.known) \in GlobalKeys
      BY <1>2, GlobalKeyStays
    <3>2. QED
      BY <1>2, <1>4, <1>7, <3>1, MapsAre
  <2>3. m \in Known(n)
    <3>1. Foldable(i, k.known) => FoldedValue(i, k.known) \in Constants
      BY <1>2, FoldedIsConstant
    <3>2. QED
      BY <1>2, <1>4, <1>7, <3>1, MapsAre DEF Known
  <2> HIDE DEF l, m
  <2>4. QED
    BY <2>1, <2>2, <2>3 DEF Exprs
<1>8. CASE i.op \notin {"Const", "Move", "Binary"}
  <2>1. Available(f, i) = k
    BY <1>8 DEF Available, k
  <2>2. QED
    BY <1>1, <2>1
<1>9. QED
  BY <1>5, <1>6, <1>7, <1>8

LEMMA FactsAfterStays ==
    ASSUME NEW c, NEW n \in Nat, NEW analysis \in Analyses, NEW i \in Code(c, n),
           NEW f \in Facts(analysis, n)
    PROVE  FactsAfter(analysis, f, i) \in Facts(analysis, n)
<1>1. CASE analysis = "constants"
  BY <1>1, FactsAre, LearnStays DEF FactsAfter
<1>2. CASE analysis = "copies"
  BY <1>2, FactsAre, AfterMoveStays DEF FactsAfter
<1>3. CASE analysis = "expressions"
  BY <1>3, FactsAre, AvailableStays DEF FactsAfter
<1>4. QED
  BY <1>1, <1>2, <1>3 DEF Analyses

LEMMA AgreedStays ==
    ASSUME NEW K, NEW V, NEW f \in Maps(K, V), NEW g
    PROVE  Agreed(f, g) \in Maps(K, V)
<1> DEFINE D == {y \in DOMAIN f \cap DOMAIN g : f[y] = g[y]}
<1>1. D \in SUBSET K /\ \A y \in D : f[y] \in V
  BY MapsAre
<1>2. Agreed(f, g) = [x \in D |-> f[x]]
  BY DEF Agreed
<1> HIDE DEF D
<1>3. Agreed(f, g) \in [D -> V]
  BY <1>1, <1>2
<1>4. QED
  BY <1>1, <1>3 DEF Maps

LEMMA MeetStays ==
    ASSUME NEW n, NEW analysis \in Analyses, NEW f \in Facts(analysis, n), NEW g
    PROVE  Meet(analysis, f, g) \in Facts(analysis, n)
<1>1. CASE analysis = "constants"
  <2>1. Agreed(f, g) \in Known(n)
    BY <1>1, FactsAre, AgreedStays DEF Known
  <2>2. QED
    BY <1>1, <2>1, FactsAre DEF Meet
<1>2. CASE analysis = "copies"
  <2>1. Agreed(f, g) \in Aliases(n)
    BY <1>2, FactsAre, AgreedStays DEF Aliases
  <2>2. QED
    BY <1>2, <2>1, FactsAre DEF Meet
<1>3. CASE analysis = "expressions"
  <2>a. f \in Exprs(n)
    BY <1>3, FactsAre
  <2>1. f.avail \in Maps(GlobalKeys, Slots(n)) /\ f.known \in Maps(Slots(n), Constants)
    BY <2>a DEF Exprs, Known
  <2>2. Agreed(f.avail, g.avail) \in Maps(GlobalKeys, Slots(n)) /\ Agreed(f.known, g.known) \in Known(n)
    BY <2>1, AgreedStays DEF Known
  <2>3. BothAvailable(f, g) \in Exprs(n)
    BY <2>2 DEF BothAvailable, Exprs
  <2>4. QED
    BY <1>3, <2>3, FactsAre DEF Meet
<1>4. QED
  BY <1>1, <1>2, <1>3 DEF Analyses

\* A block ends at or behind its start, and no other starts inside it.
LEMMA BlockEndIs ==
    ASSUME NEW S, NEW body \in Seq(S), NEW b \in Leaders(body)
    PROVE  /\ BlockEnd(body, b) \in b .. Len(body) /\ b \in 1 .. Len(body)
           /\ \A m \in b + 1 .. BlockEnd(body, b) : m \notin Leaders(body)
<1> DEFINE T == {n \in b .. Len(body) : n = Len(body) \/ n + 1 \in Leaders(body)}
<1>1. b \in 1 .. Len(body) /\ Len(body) \in Nat
  BY DEF Leaders
<1>2. T \subseteq Nat /\ Len(body) \in T
  BY <1>1
<1>3. PICK e \in T : \A n \in T : e =< n
  BY <1>2, LeastExists
<1>4. \A m \in b + 1 .. e : m \notin Leaders(body)
  <2>1. SUFFICES ASSUME NEW m \in b + 1 .. e, m \in Leaders(body) PROVE FALSE
    OBVIOUS
  <2>2. e \in b .. Len(body)
    OBVIOUS
  <2>3. m - 1 \in b .. Len(body) /\ (m - 1) + 1 = m
    BY <1>1, <2>1, <2>2
  <2>4. m - 1 \in T
    BY <2>1, <2>3
  <2>5. e =< m - 1
    BY <1>3, <2>4
  <2>6. QED
    BY <1>1, <2>2, <2>5
<1>5. \E n \in b .. Len(body) : /\ \A m \in b + 1 .. n : m \notin Leaders(body)
                                /\ n = Len(body) \/ n + 1 \in Leaders(body)
  BY <1>4
<1>6. /\ BlockEnd(body, b) \in b .. Len(body)
      /\ \A m \in b + 1 .. BlockEnd(body, b) : m \notin Leaders(body)
  BY <1>5 DEF BlockEnd
<1>7. QED
  BY <1>1, <1>6

LEMMA ThroughBlockStays ==
    ASSUME NEW c, NEW m \in Nat, NEW body \in Seq(Code(c, m)), NEW analysis \in Analyses,
           NEW facts \in Facts(analysis, m), NEW b \in Leaders(body)
    PROVE  ThroughBlock(body, BuildCFG(body), analysis, facts, b) \in Facts(analysis, m)
<1> DEFINE n == BuildCFG(body).ends[b] - b + 1
           base == facts
           op(f, k) == FactsAfter(analysis, f, body[b + k - 1])
           Is(f) == f = [k \in 0 .. n |-> IF k = 0 THEN base
                                        ELSE CHOOSE v \in {op(u, k) : u \in {f[k - 1]}} : TRUE]
           at == CHOOSE f : Is(f)
           C == Facts(analysis, m)
<1>a. BuildCFG(body).ends[b] = BlockEnd(body, b)
  BY DEF BuildCFG
<1>b. BlockEnd(body, b) \in b .. Len(body) /\ b \in 1 .. Len(body) /\ Len(body) \in Nat
  BY BlockEndIs
<1>1. n \in Nat /\ base \in C
  <2> DEFINE e == BlockEnd(body, b)
  <2>1. n = e - b + 1
    BY <1>a
  <2> HIDE DEF e, n
  <2>2. e \in b .. Len(body)
    BY <1>b DEF e
  <2>3. QED
    BY <1>b, <2>1, <2>2
<1>2. \A u \in C, k \in 1 .. n : op(u, k) \in C
  <2>1. TAKE u \in C, k \in 1 .. n
  <2> DEFINE e == BlockEnd(body, b)
             p == b + k - 1
  <2>2. n = e - b + 1 /\ e \in b .. Len(body)
    BY <1>a, <1>b
  <2> HIDE DEF e, n
  <2>3. p \in 1 .. Len(body)
    BY <1>b, <2>2
  <2>4. body[p] \in Code(c, m)
    BY <2>3
  <2> HIDE DEF p
  <2>5. FactsAfter(analysis, u, body[p]) \in Facts(analysis, m)
    BY <2>4, FactsAfterStays
  <2>6. QED
    BY <2>5 DEF p
<1>3. ThroughBlock(body, BuildCFG(body), analysis, facts, b) = at[n]
  BY DEF ThroughBlock, Walk
<1> HIDE DEF op, C, n, base
<1> DEFINE G == [z \in C \X (1 .. n) |-> op(z[1], z[2])]
<1>4. G \in [C \X (1 .. n) -> C] /\ \A u \in C, k \in 1 .. n : G[<<u, k>>] = op(u, k)
  BY <1>2
<1> HIDE DEF G
<1>5. PICK f \in [0 .. n -> C] : Walks(f, n, base, G)
  BY <1>1, <1>4, WalkExists
<1>6. Is(f)
  <2>1. ASSUME NEW k \in 1 .. n PROVE k - 1 \in 0 .. n /\ k # 0 /\ f[k] = op(f[k - 1], k)
    <3>1. k - 1 \in 0 .. n /\ k # 0
      BY <1>1
    <3>2. f[k - 1] \in C
      BY <3>1
    <3>3. QED
      BY <1>4, <1>5, <3>1, <3>2 DEF Walks
  <2>2. \A k \in 0 .. n : k # 0 => k \in 1 .. n
    BY <1>1
  <2>3. f[0] = base
    BY <1>5 DEF Walks
  <2>4. QED
    BY <2>1, <2>2, <2>3
<1>7. Is(at)
  BY <1>6
<1> HIDE DEF at
<1>8. at[0] = base /\ \A k \in 1 .. n : at[k] = op(at[k - 1], k)
  <2>1. 0 \in 0 .. n /\ \A k \in 1 .. n : k \in 0 .. n /\ k # 0
    BY <1>1
  <2>2. at[0] = base
    BY <1>7, <2>1
  <2>3. ASSUME NEW k \in 1 .. n PROVE at[k] = op(at[k - 1], k)
    <3>1. at[k] = CHOOSE v \in {op(u, k) : u \in {at[k - 1]}} : TRUE
      BY <1>7, <2>1
    <3>2. QED
      BY <3>1
  <2>4. QED
    BY <2>2, <2>3
<1>9. \A k \in 0 .. n : at[k] \in C
  <2>1. \A k \in 1 .. n : at[k - 1] \in C => at[k] \in C
    BY <1>2, <1>8
  <2>2. at[0] \in C
    BY <1>1, <1>8
  <2>3. QED
    BY <1>1, <2>1, <2>2, WalkStays
<1>10. at[n] \in C
  BY <1>1, <1>9
<1>11. QED
  BY <1>3, <1>10 DEF C

LEMMA MeetAllStays ==
    ASSUME NEW S, NEW body \in Seq(S), NEW m \in Nat, NEW analysis \in Analyses,
           NEW P, P \subseteq Leaders(body), P # {},
           NEW out \in [Leaders(body) -> Facts(analysis, m)]
    PROVE  MeetAll(body, analysis, P, out) \in Facts(analysis, m)
<1> DEFINE first == CHOOSE p \in P : \A q \in P : p =< q
           n == Len(body)
           base == out[first]
           op(f, k) == IF k \in P THEN Meet(analysis, f, out[k]) ELSE f
           Is(f) == f = [k \in 0 .. n |-> IF k = 0 THEN base
                                        ELSE CHOOSE v \in {op(u, k) : u \in {f[k - 1]}} : TRUE]
           at == CHOOSE f : Is(f)
           C == Facts(analysis, m)
<1>1. n \in Nat /\ base \in C
  <2>1. P \subseteq Nat
    BY DEF Leaders
  <2>2. \E p \in P : \A q \in P : p =< q
    BY <2>1, LeastExists
  <2>3. first \in P
    BY <2>2
  <2>4. QED
    BY <2>3
<1>2. \A u \in C, k \in 1 .. n : op(u, k) \in C
  BY MeetStays
<1>3. MeetAll(body, analysis, P, out) = at[n]
  BY DEF MeetAll, Walk
<1> HIDE DEF op, C, n, base
<1> DEFINE G == [z \in C \X (1 .. n) |-> op(z[1], z[2])]
<1>4. G \in [C \X (1 .. n) -> C] /\ \A u \in C, k \in 1 .. n : G[<<u, k>>] = op(u, k)
  BY <1>2
<1> HIDE DEF G
<1>5. PICK f \in [0 .. n -> C] : Walks(f, n, base, G)
  BY <1>1, <1>4, WalkExists
<1>6. Is(f)
  <2>1. ASSUME NEW k \in 1 .. n PROVE k - 1 \in 0 .. n /\ k # 0 /\ f[k] = op(f[k - 1], k)
    <3>1. k - 1 \in 0 .. n /\ k # 0
      BY <1>1
    <3>2. f[k - 1] \in C
      BY <3>1
    <3>3. QED
      BY <1>4, <1>5, <3>1, <3>2 DEF Walks
  <2>2. \A k \in 0 .. n : k # 0 => k \in 1 .. n
    BY <1>1
  <2>3. f[0] = base
    BY <1>5 DEF Walks
  <2>4. QED
    BY <2>1, <2>2, <2>3
<1>7. Is(at)
  BY <1>6
<1> HIDE DEF at
<1>8. at[0] = base /\ \A k \in 1 .. n : at[k] = op(at[k - 1], k)
  <2>1. 0 \in 0 .. n /\ \A k \in 1 .. n : k \in 0 .. n /\ k # 0
    BY <1>1
  <2>2. at[0] = base
    BY <1>7, <2>1
  <2>3. ASSUME NEW k \in 1 .. n PROVE at[k] = op(at[k - 1], k)
    <3>1. at[k] = CHOOSE v \in {op(u, k) : u \in {at[k - 1]}} : TRUE
      BY <1>7, <2>1
    <3>2. QED
      BY <3>1
  <2>4. QED
    BY <2>2, <2>3
<1>9. \A k \in 0 .. n : at[k] \in C
  <2>1. \A k \in 1 .. n : at[k - 1] \in C => at[k] \in C
    BY <1>2, <1>8
  <2>2. at[0] \in C
    BY <1>1, <1>8
  <2>3. QED
    BY <1>1, <2>1, <2>2, WalkStays
<1>10. at[n] \in C
  BY <1>1, <1>9
<1>11. QED
  BY <1>3, <1>10 DEF C

\* what is known where, at the starts of the blocks and at their ends
States(body, analysis, m) ==
    [in : [Leaders(body) -> Facts(analysis, m)], out : [Leaders(body) -> Facts(analysis, m)]]

LEMMA VisitBlockStays ==
    ASSUME NEW c, NEW m \in Nat, NEW body \in Seq(Code(c, m)), NEW analysis \in Analyses,
           NEW st \in States(body, analysis, m), NEW b
    PROVE  VisitBlock(body, BuildCFG(body), analysis, st, b) \in States(body, analysis, m)
<1> DEFINE cfg == BuildCFG(body)
           L == Leaders(body)
           F == Facts(analysis, m)
           in == IF b = 1 \/ cfg.preds[b] = {} THEN NoFacts(analysis)
                 ELSE MeetAll(body, analysis, cfg.preds[b], st.out)
           out == ThroughBlock(body, cfg, analysis, in, b)
<1>1. cfg.starts = L
  BY DEF BuildCFG
<1>2. CASE b \notin L
  BY <1>1, <1>2 DEF VisitBlock
<1>3. CASE b \in L
  <2>1. cfg.preds[b] \subseteq L
    BY <1>3 DEF BuildCFG
  <2>2. st.in \in [L -> F] /\ st.out \in [L -> F]
    BY DEF States
  <2> HIDE DEF cfg, L, F
  <2>3. in \in F
    <3>1. NoFacts(analysis) \in F
      BY FactsAre DEF F
    <3>2. cfg.preds[b] # {} => MeetAll(body, analysis, cfg.preds[b], st.out) \in F
      BY <2>1, <2>2, MeetAllStays DEF F, L
    <3>3. QED
      BY <3>1, <3>2
  <2>4. VisitBlock(body, cfg, analysis, st, b)
          = [in |-> [st.in EXCEPT ![b] = in], out |-> [st.out EXCEPT ![b] = out]]
    BY <1>1, <1>3 DEF VisitBlock
  <2> HIDE DEF in
  <2>5. out \in F
    BY <1>3, <2>3, ThroughBlockStays DEF F, L, cfg
  <2> HIDE DEF out
  <2>6. [st.in EXCEPT ![b] = in] \in [L -> F] /\ [st.out EXCEPT ![b] = out] \in [L -> F]
    BY <2>2, <2>3, <2>5
  <2>7. VisitBlock(body, cfg, analysis, st, b) \in [in : [L -> F], out : [L -> F]]
    BY <2>4, <2>6
  <2>8. QED
    BY <2>7 DEF States, F, L, cfg
<1>4. QED
  BY <1>2, <1>3

LEMMA RoundOfVisitsStays ==
    ASSUME NEW c, NEW m \in Nat, NEW body \in Seq(Code(c, m)), NEW analysis \in Analyses,
           NEW st \in States(body, analysis, m)
    PROVE  Walk(LAMBDA s, b : VisitBlock(body, BuildCFG(body), analysis, s, b), st, Len(body))
             \in States(body, analysis, m)
<1> DEFINE n == Len(body)
           base == st
           op(s, k) == VisitBlock(body, BuildCFG(body), analysis, s, k)
           Is(f) == f = [k \in 0 .. n |-> IF k = 0 THEN base
                                        ELSE CHOOSE v \in {op(u, k) : u \in {f[k - 1]}} : TRUE]
           at == CHOOSE f : Is(f)
           C == States(body, analysis, m)
<1>1. n \in Nat /\ base \in C
  OBVIOUS
<1>2. \A u \in C, k \in 1 .. n : op(u, k) \in C
  BY VisitBlockStays
<1>3. Walk(LAMBDA s, b : VisitBlock(body, BuildCFG(body), analysis, s, b), st, Len(body)) = at[n]
  BY DEF Walk
<1> HIDE DEF op, C, n, base
<1> DEFINE G == [z \in C \X (1 .. n) |-> op(z[1], z[2])]
<1>4. G \in [C \X (1 .. n) -> C] /\ \A u \in C, k \in 1 .. n : G[<<u, k>>] = op(u, k)
  BY <1>2
<1> HIDE DEF G
<1>5. PICK f \in [0 .. n -> C] : Walks(f, n, base, G)
  BY <1>1, <1>4, WalkExists
<1>6. Is(f)
  <2>1. ASSUME NEW k \in 1 .. n PROVE k - 1 \in 0 .. n /\ k # 0 /\ f[k] = op(f[k - 1], k)
    <3>1. k - 1 \in 0 .. n /\ k # 0
      BY <1>1
    <3>2. f[k - 1] \in C
      BY <3>1
    <3>3. QED
      BY <1>4, <1>5, <3>1, <3>2 DEF Walks
  <2>2. \A k \in 0 .. n : k # 0 => k \in 1 .. n
    BY <1>1
  <2>3. f[0] = base
    BY <1>5 DEF Walks
  <2>4. QED
    BY <2>1, <2>2, <2>3
<1>7. Is(at)
  BY <1>6
<1> HIDE DEF at
<1>8. at[0] = base /\ \A k \in 1 .. n : at[k] = op(at[k - 1], k)
  <2>1. 0 \in 0 .. n /\ \A k \in 1 .. n : k \in 0 .. n /\ k # 0
    BY <1>1
  <2>2. at[0] = base
    BY <1>7, <2>1
  <2>3. ASSUME NEW k \in 1 .. n PROVE at[k] = op(at[k - 1], k)
    <3>1. at[k] = CHOOSE v \in {op(u, k) : u \in {at[k - 1]}} : TRUE
      BY <1>7, <2>1
    <3>2. QED
      BY <3>1
  <2>4. QED
    BY <2>2, <2>3
<1>9. \A k \in 0 .. n : at[k] \in C
  <2>1. \A k \in 1 .. n : at[k - 1] \in C => at[k] \in C
    BY <1>2, <1>8
  <2>2. at[0] \in C
    BY <1>1, <1>8
  <2>3. QED
    BY <1>1, <2>1, <2>2, WalkStays
<1>10. at[n] \in C
  BY <1>1, <1>9
<1>11. QED
  BY <1>3, <1>10 DEF C

LEMMA DataflowStays ==
    ASSUME NEW c, NEW m \in Nat, NEW body \in Seq(Code(c, m)), NEW analysis \in Analyses
    PROVE  Dataflow(body, analysis) \in [Leaders(body) -> Facts(analysis, m)]
<1> DEFINE cfg == BuildCFG(body)
           Round(st) == Walk(LAMBDA s, b : VisitBlock(body, cfg, analysis, s, b), st, Len(body))
           start == [b \in cfg.starts |-> NoFacts(analysis)]
           n == RoundCap
           base == [x |-> [in |-> start, out |-> start], stable |-> FALSE]
           op(acc, k) == IF acc.stable THEN acc
                         ELSE LET next == Round(acc.x) IN [x |-> next, stable |-> next = acc.x]
           Is(f) == f = [k \in 0 .. n |-> IF k = 0 THEN base
                                        ELSE CHOOSE v \in {op(u, k) : u \in {f[k - 1]}} : TRUE]
           at == CHOOSE f : Is(f)
           C == [x : States(body, analysis, m), stable : BOOLEAN]
<1>1. n \in Nat /\ base \in C
  <2>1. cfg.starts = Leaders(body)
    BY DEF BuildCFG
  <2>2. start \in [Leaders(body) -> Facts(analysis, m)]
    BY <2>1, FactsAre
  <2> HIDE DEF start
  <2>3. QED
    BY <2>2, RoundAssumption DEF States
<1>2. \A u \in C, k \in 1 .. n : op(u, k) \in C
  <2>1. TAKE u \in C, k \in 1 .. n
  <2>2. Round(u.x) \in States(body, analysis, m)
    BY RoundOfVisitsStays
  <2> HIDE DEF Round
  <2>3. QED
    BY <2>2
<1>3. Dataflow(body, analysis) = at[n].x.in
  BY DEF Dataflow, Saturate, Walk
<1> HIDE DEF op, C, n, base
<1> DEFINE G == [z \in C \X (1 .. n) |-> op(z[1], z[2])]
<1>4. G \in [C \X (1 .. n) -> C] /\ \A u \in C, k \in 1 .. n : G[<<u, k>>] = op(u, k)
  BY <1>2
<1> HIDE DEF G
<1>5. PICK f \in [0 .. n -> C] : Walks(f, n, base, G)
  BY <1>1, <1>4, WalkExists
<1>6. Is(f)
  <2>1. ASSUME NEW k \in 1 .. n PROVE k - 1 \in 0 .. n /\ k # 0 /\ f[k] = op(f[k - 1], k)
    <3>1. k - 1 \in 0 .. n /\ k # 0
      BY <1>1
    <3>2. f[k - 1] \in C
      BY <3>1
    <3>3. QED
      BY <1>4, <1>5, <3>1, <3>2 DEF Walks
  <2>2. \A k \in 0 .. n : k # 0 => k \in 1 .. n
    BY <1>1
  <2>3. f[0] = base
    BY <1>5 DEF Walks
  <2>4. QED
    BY <2>1, <2>2, <2>3
<1>7. Is(at)
  BY <1>6
<1> HIDE DEF at
<1>8. at[0] = base /\ \A k \in 1 .. n : at[k] = op(at[k - 1], k)
  <2>1. 0 \in 0 .. n /\ \A k \in 1 .. n : k \in 0 .. n /\ k # 0
    BY <1>1
  <2>2. at[0] = base
    BY <1>7, <2>1
  <2>3. ASSUME NEW k \in 1 .. n PROVE at[k] = op(at[k - 1], k)
    <3>1. at[k] = CHOOSE v \in {op(u, k) : u \in {at[k - 1]}} : TRUE
      BY <1>7, <2>1
    <3>2. QED
      BY <3>1
  <2>4. QED
    BY <2>2, <2>3
<1>9. \A k \in 0 .. n : at[k] \in C
  <2>1. \A k \in 1 .. n : at[k - 1] \in C => at[k] \in C
    BY <1>2, <1>8
  <2>2. at[0] \in C
    BY <1>1, <1>8
  <2>3. QED
    BY <1>1, <2>1, <2>2, WalkStays
<1>10. QED
  BY <1>1, <1>3, <1>9 DEF C, States

LEMMA FollowStays ==
    ASSUME NEW m, NEW alias \in Aliases(m), NEW s \in Int
    PROVE  Follow(alias, s) \in Int /\ (s \in Slots(m) => Follow(alias, s) \in Slots(m))
<1> DEFINE n == 4
           base == s
           op(t, k) == IF t \in DOMAIN alias THEN alias[t] ELSE t
           Is(f) == f = [k \in 0 .. n |-> IF k = 0 THEN base
                                        ELSE CHOOSE v \in {op(u, k) : u \in {f[k - 1]}} : TRUE]
           at == CHOOSE f : Is(f)
           C == {t \in Int : s \in Slots(m) => t \in Slots(m)}
<1>1. n \in Nat /\ base \in C
  OBVIOUS
<1>2. \A u \in C, k \in 1 .. n : op(u, k) \in C
  <2>1. \A t \in DOMAIN alias : alias[t] \in Slots(m) /\ alias[t] \in Int
    <3>1. \A t \in DOMAIN alias : alias[t] \in Slots(m)
      BY MapsAre DEF Aliases
    <3>2. Slots(m) \subseteq Int
      BY DEF Slots
    <3>3. QED
      BY <3>1, <3>2
  <2>2. QED
    BY <2>1
<1>3. Follow(alias, s) = at[n]
  BY DEF Follow, Walk
<1> HIDE DEF op, C, n, base
<1> DEFINE G == [z \in C \X (1 .. n) |-> op(z[1], z[2])]
<1>4. G \in [C \X (1 .. n) -> C] /\ \A u \in C, k \in 1 .. n : G[<<u, k>>] = op(u, k)
  BY <1>2
<1> HIDE DEF G
<1>5. PICK f \in [0 .. n -> C] : Walks(f, n, base, G)
  BY <1>1, <1>4, WalkExists
<1>6. Is(f)
  <2>1. ASSUME NEW k \in 1 .. n PROVE k - 1 \in 0 .. n /\ k # 0 /\ f[k] = op(f[k - 1], k)
    <3>1. k - 1 \in 0 .. n /\ k # 0
      BY <1>1
    <3>2. f[k - 1] \in C
      BY <3>1
    <3>3. QED
      BY <1>4, <1>5, <3>1, <3>2 DEF Walks
  <2>2. \A k \in 0 .. n : k # 0 => k \in 1 .. n
    BY <1>1
  <2>3. f[0] = base
    BY <1>5 DEF Walks
  <2>4. QED
    BY <2>1, <2>2, <2>3
<1>7. Is(at)
  BY <1>6
<1> HIDE DEF at
<1>8. at[0] = base /\ \A k \in 1 .. n : at[k] = op(at[k - 1], k)
  <2>1. 0 \in 0 .. n /\ \A k \in 1 .. n : k \in 0 .. n /\ k # 0
    BY <1>1
  <2>2. at[0] = base
    BY <1>7, <2>1
  <2>3. ASSUME NEW k \in 1 .. n PROVE at[k] = op(at[k - 1], k)
    <3>1. at[k] = CHOOSE v \in {op(u, k) : u \in {at[k - 1]}} : TRUE
      BY <1>7, <2>1
    <3>2. QED
      BY <3>1
  <2>4. QED
    BY <2>2, <2>3
<1>9. \A k \in 0 .. n : at[k] \in C
  <2>1. \A k \in 1 .. n : at[k - 1] \in C => at[k] \in C
    BY <1>2, <1>8
  <2>2. at[0] \in C
    BY <1>1, <1>8
  <2>3. QED
    BY <1>1, <2>1, <2>2, WalkStays
<1>10. at[n] \in C
  BY <1>1, <1>9
<1>11. QED
  BY <1>3, <1>10 DEF C

\* What the pass of an analysis may make constants of.
Allows(c, analysis) == analysis = "constants" => c.values = Constants

LEMMA RewrittenStays ==
    ASSUME NEW c, IsContext(c), NEW m \in Nat, NEW i \in Code(c, m), NEW analysis \in Analyses,
           Allows(c, analysis), NEW f \in Facts(analysis, m)
    PROVE  Rewritten(analysis, f, i) \in [facts : Facts(analysis, m), inst : Code(c, m)]
<1>1. CASE analysis = "constants"
  <2>1. f \in Known(m) /\ c.values = Constants
    BY <1>1, FactsAre DEF Allows
  <2>2. Learn(f, i) \in Known(m) /\ Simplify(i, f) \in Code(c, m)
    BY <2>1, LearnStays, SimplifyStays
  <2>3. Rewritten(analysis, f, i) = [facts |-> Learn(f, i), inst |-> Simplify(i, f)]
    BY <1>1 DEF Rewritten
  <2>4. QED
    BY <1>1, <2>2, <2>3, FactsAre
<1>2. CASE analysis = "copies"
  <2> DEFINE l == Follow(f, i.lhs)
             r == Follow(f, i.rhs)
             j == Substitute(i, LAMBDA s : Follow(f, s))
  <2>1. f \in Aliases(m)
    BY <1>2, FactsAre
  <2>2. i.lhs \in Int /\ i.rhs \in Int
    BY DEF Code, Instructions
  <2>3. /\ l \in Int /\ (i.lhs \in Slots(m) => l \in Slots(m))
        /\ r \in Int /\ (i.rhs \in Slots(m) => r \in Slots(m))
    BY <2>1, <2>2, FollowStays
  <2>4. j = IF i.op \in {"Move", "Unary", "Binary", "StoreGlobal", "Branch", "Return"}
            THEN [i EXCEPT !.lhs = l, !.rhs = r] ELSE i
    BY DEF Substitute
  <2> HIDE DEF l, r
  <2>5. j \in Code(c, m)
    <3> HIDE DEF j
    <3>1. CASE i.op \in {"Move", "Unary", "Binary", "StoreGlobal", "Branch", "Return"}
      <4>1. [i EXCEPT !.lhs = l, !.rhs = r] \in Code(c, m)
        BY <2>3, <3>1, SubstituteStays
      <4>2. QED
        BY <2>4, <3>1, <4>1
    <3>2. CASE i.op \notin {"Move", "Unary", "Binary", "StoreGlobal", "Branch", "Return"}
      BY <2>4, <3>2
    <3>3. QED
      BY <3>1, <3>2
  <2>6. Rewritten(analysis, f, i) = [facts |-> AfterMove(f, j), inst |-> j]
    BY <1>2 DEF Rewritten
  <2> HIDE DEF j
  <2>7. AfterMove(f, j) \in Aliases(m)
    BY <2>1, <2>5, AfterMoveStays
  <2>8. QED
    BY <1>2, <2>5, <2>6, <2>7, FactsAre
<1>3. CASE analysis = "expressions"
  <2> DEFINE key == GlobalKey(i, f.known)
             hit == /\ i.op = "Binary" /\ ~SelfUpdate(i)
                    /\ key \in DOMAIN f.avail
                    /\ f.avail[key] \notin {i.dest, i.lhs, i.rhs}
             old == [facts |-> Kill(f, i.dest), inst |-> Move(i.dest, f.avail[key])]
             new == [facts |-> Available(f, i), inst |-> i]
  <2>1. f \in Exprs(m)
    BY <1>3, FactsAre
  <2>2. Rewritten(analysis, f, i) = IF hit THEN old ELSE new
    BY <1>3 DEF Rewritten
  <2>3. new \in [facts : Exprs(m), inst : Code(c, m)]
    BY <2>1, AvailableStays
  <2>4. ASSUME hit PROVE old \in [facts : Exprs(m), inst : Code(c, m)]
    <3>1. i.dest \in Slots(m)
      BY <2>4, CodeIs DEF Code
    <3>2. f.avail[key] \in Slots(m)
      BY <2>1, <2>4, MapsAre DEF Exprs
    <3> HIDE DEF key
    <3>3. Kill(f, i.dest) \in Exprs(m) /\ Move(i.dest, f.avail[key]) \in Code(c, m)
      BY <2>1, <3>1, <3>2, KillStays, Constructed
    <3>4. QED
      BY <3>3
  <2> HIDE DEF hit, old, new
  <2>5. Rewritten(analysis, f, i) \in [facts : Exprs(m), inst : Code(c, m)]
    BY <2>2, <2>3, <2>4
  <2>6. QED
    BY <1>3, <2>5, FactsAre
<1>4. QED
  BY <1>1, <1>2, <1>3 DEF Analyses

LEMMA RewriteStays ==
    ASSUME NEW c, IsContext(c), NEW m \in Nat, NEW body \in Seq(Code(c, m)), NEW analysis \in Analyses,
           Allows(c, analysis)
    PROVE  Rewrite(body, analysis) \in Seq(Code(c, m))
<1> DEFINE in == Dataflow(body, analysis)
           n == Len(body)
           base == [facts |-> NoFacts(analysis), code |-> <<>>]
           op(acc, k) ==
              LET r == Rewritten(analysis, IF k \in DOMAIN in THEN in[k] ELSE acc.facts, body[k])
              IN  [facts |-> r.facts, code |-> Append(acc.code, r.inst)]
           Is(f) == f = [k \in 0 .. n |-> IF k = 0 THEN base
                                        ELSE CHOOSE v \in {op(u, k) : u \in {f[k - 1]}} : TRUE]
           at == CHOOSE f : Is(f)
           C == [facts : Facts(analysis, m), code : Seq(Code(c, m))]
<1>1. n \in Nat /\ base \in C
  BY FactsAre
<1>2. \A u \in C, k \in 1 .. n : op(u, k) \in C
  <2>1. TAKE u \in C, k \in 1 .. n
  <2> DEFINE f == IF k \in DOMAIN in THEN in[k] ELSE u.facts
             r == Rewritten(analysis, f, body[k])
  <2>2. in \in [Leaders(body) -> Facts(analysis, m)]
    BY DataflowStays
  <2> HIDE DEF in
  <2>3. f \in Facts(analysis, m) /\ body[k] \in Code(c, m) /\ u.code \in Seq(Code(c, m))
    BY <2>2
  <2>4. op(u, k) = [facts |-> r.facts, code |-> Append(u.code, r.inst)]
    OBVIOUS
  <2> HIDE DEF f, op
  <2>5. r \in [facts : Facts(analysis, m), inst : Code(c, m)]
    BY <2>3, RewrittenStays
  <2> HIDE DEF r
  <2>6. QED
    BY <2>3, <2>4, <2>5
<1>3. Rewrite(body, analysis) = at[n].code
  BY DEF Rewrite, Walk
<1> HIDE DEF op, C, n, base
<1> DEFINE G == [z \in C \X (1 .. n) |-> op(z[1], z[2])]
<1>4. G \in [C \X (1 .. n) -> C] /\ \A u \in C, k \in 1 .. n : G[<<u, k>>] = op(u, k)
  BY <1>2
<1> HIDE DEF G
<1>5. PICK f \in [0 .. n -> C] : Walks(f, n, base, G)
  BY <1>1, <1>4, WalkExists
<1>6. Is(f)
  <2>1. ASSUME NEW k \in 1 .. n PROVE k - 1 \in 0 .. n /\ k # 0 /\ f[k] = op(f[k - 1], k)
    <3>1. k - 1 \in 0 .. n /\ k # 0
      BY <1>1
    <3>2. f[k - 1] \in C
      BY <3>1
    <3>3. QED
      BY <1>4, <1>5, <3>1, <3>2 DEF Walks
  <2>2. \A k \in 0 .. n : k # 0 => k \in 1 .. n
    BY <1>1
  <2>3. f[0] = base
    BY <1>5 DEF Walks
  <2>4. QED
    BY <2>1, <2>2, <2>3
<1>7. Is(at)
  BY <1>6
<1> HIDE DEF at
<1>8. at[0] = base /\ \A k \in 1 .. n : at[k] = op(at[k - 1], k)
  <2>1. 0 \in 0 .. n /\ \A k \in 1 .. n : k \in 0 .. n /\ k # 0
    BY <1>1
  <2>2. at[0] = base
    BY <1>7, <2>1
  <2>3. ASSUME NEW k \in 1 .. n PROVE at[k] = op(at[k - 1], k)
    <3>1. at[k] = CHOOSE v \in {op(u, k) : u \in {at[k - 1]}} : TRUE
      BY <1>7, <2>1
    <3>2. QED
      BY <3>1
  <2>4. QED
    BY <2>2, <2>3
<1>9. \A k \in 0 .. n : at[k] \in C
  <2>1. \A k \in 1 .. n : at[k - 1] \in C => at[k] \in C
    BY <1>2, <1>8
  <2>2. at[0] \in C
    BY <1>1, <1>8
  <2>3. QED
    BY <1>1, <2>1, <2>2, WalkStays
<1>10. at[n] \in C
  BY <1>1, <1>9
<1>11. QED
  BY <1>3, <1>10 DEF C

\* globalConstPropPass, globalCopyPropPass and globalCsePass, wherever their iteration
\* stops: the function keeps its frame, and nothing is called, stored or jumped to that
\* was not before.
THEOREM GlobalPassesStay ==
    ASSUME NEW c, IsContext(c), NEW m \in Nat, NEW body \in Seq(Code(c, m))
    PROVE  /\ c.values = Constants => GlobalConstProp(body) \in Seq(Code(c, m))
           /\ GlobalCopyProp(body) \in Seq(Code(c, m))
           /\ GlobalCse(body) \in Seq(Code(c, m))
<1>1. c.values = Constants => Rewrite(body, "constants") \in Seq(Code(c, m))
  BY RewriteStays DEF Analyses, Allows
<1>2. Rewrite(body, "copies") \in Seq(Code(c, m)) /\ Rewrite(body, "expressions") \in Seq(Code(c, m))
  BY RewriteStays DEF Analyses, Allows
<1>3. QED
  BY <1>1, <1>2 DEF GlobalConstProp, GlobalCopyProp, GlobalCse

-----------------------------------------------------------------------------
(* Inlining. *)

\* the instructions of a function that calls nothing
Leaf(c) == [c EXCEPT !.arity = <<>>]

LEMMA LeafIs ==
    ASSUME NEW c, NEW n \in Nat, NEW i \in Code(Leaf(c), n),
           c = [values |-> c.values, stores |-> c.stores, loads |-> c.loads, names |-> c.names,
                labels |-> c.labels, arity |-> c.arity]
    PROVE  /\ i \in Instructions(c) /\ i.op # "Call"
           /\ i.op \in {"Move", "StoreGlobal", "Unary", "Branch", "Return", "Binary"} => i.lhs \in Slots(n)
           /\ i.op = "Binary" => i.rhs \in Slots(n) /\ i.oper \in BinaryOpers
           /\ i.op = "Unary" => i.oper \in UnaryOpers
           /\ i.op \in {"Const", "Move", "LoadGlobal", "Unary", "Binary", "Call"} => i.dest \in Slots(n)
           /\ i.op = "StoreGlobal" => c.stores
           /\ i.op = "LoadGlobal" => i.name \in c.loads
           /\ i.op = "Const" => i.value \in c.values
<1> DEFINE d == Leaf(c)
<1>1. /\ d.values = c.values /\ d.stores = c.stores /\ d.loads = c.loads /\ d.names = c.names /\ d.labels = c.labels
      /\ DOMAIN d.arity = {}
  BY DEF Leaf
<1>2. Instructions(d) = Instructions(c)
  BY <1>1 DEF Instructions
<1>3. i \in Instructions(d)
  BY DEF Code
<1> HIDE DEF d
<1>4. i \in Code(d, n)
  BY DEF d
<1>5. QED
  BY <1>1, <1>2, <1>3, <1>4, CodeIs

\* What replaces a call fits the frame that has grown by the callee's slots.
LEMMA ExpansionStays ==
    ASSUME NEW c, IsContext(c),
           c = [values |-> c.values, stores |-> c.stores, loads |-> c.loads, names |-> c.names,
                labels |-> c.labels, arity |-> c.arity],
           NEW site, \A k \in Nat : InlinedLabel(site, k) \in c.labels, Continuation(site) \in c.labels,
           NEW m \in Nat, NEW call \in Code(c, m), call.op = "Call",
           NEW callee, callee.slotCount \in Nat, callee.params \in Seq(Slots(callee.slotCount)),
           callee.body \in Seq(Code(Leaf(c), callee.slotCount)),
           Len(call.args) = Len(callee.params)
    PROVE  /\ Expansion(call, callee, m, site).slots \in Nat
           /\ Expansion(call, callee, m, site).code
                \in Seq(Code(c, m + Expansion(call, callee, m, site).slots))
<1> DEFINE body     == callee.body
           params   == callee.params
           ns       == callee.slotCount
           assigned == AssignedParams(callee)
           Pos(seq, x) == CHOOSE k \in DOMAIN seq : seq[k] = x
           Has(seq, x) == \E k \in DOMAIN seq : seq[k] = x
           Arg(p) == call.args[Pos(params, p)]
           Fresh(p) == m + ns + Pos(assigned, p) - 1
           Slot(s) == CASE s = NoSlot -> s
                        [] Has(assigned, s) -> Fresh(s)
                        [] ~Has(assigned, s) /\ Has(params, s) -> Arg(s)
                        [] OTHER -> s + m
           own  == KeepAt(body, {k \in DOMAIN body : body[k].op = "Label"})
           Name(l) == IF \E k \in DOMAIN own : own[k].label = l
                      THEN InlinedLabel(site, CHOOSE k \in DOMAIN own : own[k].label = l) ELSE l
           Same(i) == [i EXCEPT !.dest = Slot(@), !.lhs = Slot(@), !.rhs = Slot(@),
                                !.label = Name(@), !.falseLabel = Name(@)]
           Copied(i) ==
               CASE i.op = "Return" ->
                       <<Move(call.dest, Slot(i.lhs)), Goto(Continuation(site))>>
                 [] i.op = "ReturnVoid" -> <<Goto(Continuation(site))>>
                 [] OTHER -> <<Same(i)>>
           moves == [k \in DOMAIN assigned |-> Move(Fresh(assigned[k]), Arg(assigned[k]))]
           E == {params[k] : k \in DOMAIN params}
           grown == ns + Len(assigned)
           w == m + grown
           n == Len(body)
           base == <<>>
           op(code, k) == code \o Copied(body[k])
           Is(f) == f = [k \in 0 .. n |-> IF k = 0 THEN base
                                        ELSE CHOOSE v \in {op(u, k) : u \in {f[k - 1]}} : TRUE]
           at == CHOOSE f : Is(f)
           C == Seq(Code(c, w))
<1>a. Expansion(call, callee, m, site)
        = [code |-> moves \o at[n] \o <<Label(Continuation(site))>>, slots |-> grown]
  BY DEF Expansion, Walk
<1>b. assigned \in Seq(E)
  <2>1. params \in Seq(E)
    OBVIOUS
  <2> HIDE DEF E
  <2>2. QED
    BY <2>1, KeepAtStays DEF AssignedParams
<1> HIDE DEF assigned
<1>c. Len(assigned) \in Nat /\ DOMAIN assigned = 1 .. Len(assigned)
  BY <1>b
<1>d. grown \in Nat /\ w \in Nat /\ m =< w
  BY <1>c
<1>e. \A p \in E : Has(params, p) /\ Arg(p) \in Slots(m)
  <2>1. TAKE p \in E
  <2>2. Has(params, p)
    OBVIOUS
  <2>3. Pos(params, p) \in DOMAIN params
    BY <2>2
  <2>4. call \in Instructions(c) /\ call.args \in Seq(Int)
    BY DEF Code, Instructions
  <2>5. DOMAIN params = DOMAIN call.args
    BY <2>4
  <2>6. \A k \in DOMAIN call.args : call.args[k] \in Slots(m)
    BY <2>4, CodeIs
  <2> HIDE DEF Pos
  <2>7. QED
    BY <2>2, <2>3, <2>5, <2>6
<1>f. \A s : Has(assigned, s) => Fresh(s) \in Slots(w)
  <2>1. SUFFICES ASSUME NEW s, Has(assigned, s) PROVE Fresh(s) \in Slots(w)
    OBVIOUS
  <2> DEFINE p == Pos(assigned, s)
  <2>2. p \in 1 .. Len(assigned)
    BY <1>c, <2>1
  <2> HIDE DEF p
  <2>3. m + ns + p - 1 \in 0 .. m + (ns + Len(assigned)) - 1
    BY <1>c, <2>2
  <2>4. QED
    BY <2>3 DEF p, Slots
<1>g. Slots(m) \subseteq Slots(w) /\ Slots(w) \subseteq Int
  BY <1>d DEF Slots
<1>h. \A s \in Int : Slot(s) \in Int /\ (s \in Slots(ns) => Slot(s) \in Slots(w))
  <2>1. TAKE s \in Int
  <2>2. CASE s = NoSlot
    <3>1. s \notin Slots(ns)
      BY <2>2 DEF NoSlot, Slots
    <3>2. E \subseteq Slots(ns)
      OBVIOUS
    <3>3. ~Has(params, s)
      BY <3>1
    <3>a. ~Has(assigned, s)
      <4> HIDE DEF E
      <4>1. QED
        BY <1>b, <3>1, <3>2
    <3> HIDE DEF Fresh, Arg, Has
    <3>4. Slot(s) = s
      BY <2>2, <3>3, <3>a
    <3> HIDE DEF Slot
    <3>5. QED
      BY <3>1, <3>4
  <2>3. CASE s # NoSlot /\ Has(assigned, s)
    <3>1. Slot(s) = Fresh(s)
      BY <2>3
    <3> HIDE DEF Slot, Fresh, Has
    <3>2. QED
      BY <1>f, <1>g, <2>3, <3>1
  <2>4. CASE s # NoSlot /\ ~Has(assigned, s) /\ Has(params, s)
    <3>1. Slot(s) = Arg(s) /\ s \in E
      BY <2>4
    <3> HIDE DEF Slot, Arg, Has
    <3>2. QED
      BY <1>e, <1>g, <3>1
  <2>5. CASE s # NoSlot /\ ~Has(assigned, s) /\ ~Has(params, s)
    <3>1. Slot(s) = s + m
      BY <2>5
    <3> HIDE DEF Slot
    <3>2. s \in Slots(ns) => s + m \in 0 .. m + (ns + Len(assigned)) - 1
      BY <1>c DEF Slots
    <3>3. QED
      BY <3>1, <3>2 DEF Slots
  <2>6. QED
    BY <2>2, <2>3, <2>4, <2>5
<1> HIDE DEF Slot, Fresh, Arg, Pos, Has
<1>i. \A l \in c.labels : Name(l) \in c.labels
  <2>1. own \in Seq(Code(Leaf(c), ns))
    BY KeepAtStays
  <2> HIDE DEF own
  <2>2. DOMAIN own \subseteq Nat
    BY <2>1
  <2>3. QED
    BY <2>2
<1>j. call.dest \in Slots(w)
  <2>1. call.dest \in Slots(m)
    BY CodeIs DEF Code
  <2>2. QED
    BY <1>g, <2>1
<1> HIDE DEF Name, own, w
<1>k. \A i \in Code(Leaf(c), ns) : Copied(i) \in Seq(Code(c, w))
  <2>1. TAKE i \in Code(Leaf(c), ns)
  <2>2. /\ i \in Instructions(c) /\ i.op # "Call"
        /\ i.op \in {"Move", "StoreGlobal", "Unary", "Branch", "Return", "Binary"} => i.lhs \in Slots(ns)
        /\ i.op = "Binary" => i.rhs \in Slots(ns) /\ i.oper \in BinaryOpers
        /\ i.op = "Unary" => i.oper \in UnaryOpers
        /\ i.op \in {"Const", "Move", "LoadGlobal", "Unary", "Binary", "Call"} => i.dest \in Slots(ns)
        /\ i.op = "StoreGlobal" => c.stores
        /\ i.op = "LoadGlobal" => i.name \in c.loads
        /\ i.op = "Const" => i.value \in c.values
    BY LeafIs
  <2>3. i.dest \in Int /\ i.lhs \in Int /\ i.rhs \in Int /\ i.label \in c.labels /\ i.falseLabel \in c.labels
    BY <2>2 DEF Instructions
  <2>4. Goto(Continuation(site)) \in Code(c, w)
    BY <1>d, Constructed
  <2>5. CASE i.op = "Return"
    <3>1. Slot(i.lhs) \in Slots(w)
      BY <1>h, <2>2, <2>3, <2>5
    <3>2. Move(call.dest, Slot(i.lhs)) \in Code(c, w)
      BY <1>d, <1>j, <3>1, Constructed
    <3>3. QED
      BY <2>4, <2>5, <3>2
  <2>6. CASE i.op = "ReturnVoid"
    BY <2>4, <2>6
  <2>7. CASE i.op \notin {"Return", "ReturnVoid"}
    <3> DEFINE d == Slot(i.dest)
               l == Slot(i.lhs)
               r == Slot(i.rhs)
               x == Name(i.label)
               y == Name(i.falseLabel)
               j == [i EXCEPT !.dest = d, !.lhs = l, !.rhs = r, !.label = x, !.falseLabel = y]
    <3>1. d \in Int /\ l \in Int /\ r \in Int /\ x \in c.labels /\ y \in c.labels
      BY <1>h, <1>i, <2>3
    <3>2. /\ i.dest \in Slots(ns) => d \in Slots(w)
          /\ i.lhs \in Slots(ns) => l \in Slots(w)
          /\ i.rhs \in Slots(ns) => r \in Slots(w)
      BY <1>h, <2>3
    <3>a. Same(i) = j
      OBVIOUS
    <3> HIDE DEF d, l, r, x, y
    <3>3. /\ j \in Instructions(c) /\ j.op = i.op /\ j.dest = d /\ j.lhs = l /\ j.rhs = r
          /\ j.oper = i.oper /\ j.value = i.value /\ j.name = i.name /\ j.args = i.args
      BY <2>2, <3>1 DEF Instructions
    <3> HIDE DEF j, Same
    <3>4. j \in Code(c, w)
      BY <1>d, <2>2, <3>2, <3>3, CodeIs
    <3>5. Copied(i) = <<j>>
      BY <2>7, <3>a
    <3> DEFINE S == Code(c, w)
    <3> HIDE DEF Copied, S
    <3>6. <<j>> \in Seq(S)
      BY <3>4 DEF S
    <3>7. QED
      BY <3>5, <3>6 DEF S
  <2>8. QED
    BY <2>5, <2>6, <2>7
<1>l. moves \in Seq(Code(c, w))
  <2>1. \A k \in DOMAIN assigned : Move(Fresh(assigned[k]), Arg(assigned[k])) \in Code(c, w)
    <3>1. TAKE k \in DOMAIN assigned
    <3>2. Has(assigned, assigned[k]) /\ assigned[k] \in E
      BY <1>b DEF Has
    <3> DEFINE p == assigned[k]
    <3> HIDE DEF p
    <3>3. Fresh(p) \in Slots(w) /\ Arg(p) \in Slots(w)
      BY <1>e, <1>f, <1>g, <3>2 DEF p
    <3>4. QED
      BY <1>d, <3>3, Constructed DEF p
  <2>2. moves \in [1 .. Len(assigned) -> Code(c, w)]
    BY <1>c, <2>1
  <2> HIDE DEF moves
  <2>3. QED
    BY <1>c, <2>2
<1> HIDE DEF Copied, moves
<1>1. n \in Nat /\ base \in C
  OBVIOUS
<1>2. \A u \in C, k \in 1 .. n : op(u, k) \in C
  <2>1. TAKE u \in C, k \in 1 .. n
  <2>2. body[k] \in Code(Leaf(c), ns)
    OBVIOUS
  <2>3. Copied(body[k]) \in Seq(Code(c, w))
    BY <1>k, <2>2
  <2>4. QED
    BY <2>3
<1> HIDE DEF op, C, n, base
<1> DEFINE G == [z \in C \X (1 .. n) |-> op(z[1], z[2])]
<1>4. G \in [C \X (1 .. n) -> C] /\ \A u \in C, k \in 1 .. n : G[<<u, k>>] = op(u, k)
  BY <1>2
<1> HIDE DEF G
<1>5. PICK f \in [0 .. n -> C] : Walks(f, n, base, G)
  BY <1>1, <1>4, WalkExists
<1>6. Is(f)
  <2>1. ASSUME NEW k \in 1 .. n PROVE k - 1 \in 0 .. n /\ k # 0 /\ f[k] = op(f[k - 1], k)
    <3>1. k - 1 \in 0 .. n /\ k # 0
      BY <1>1
    <3>2. f[k - 1] \in C
      BY <3>1
    <3>3. QED
      BY <1>4, <1>5, <3>1, <3>2 DEF Walks
  <2>2. \A k \in 0 .. n : k # 0 => k \in 1 .. n
    BY <1>1
  <2>3. f[0] = base
    BY <1>5 DEF Walks
  <2>4. QED
    BY <2>1, <2>2, <2>3
<1>7. Is(at)
  BY <1>6
<1> HIDE DEF at
<1>8. at[0] = base /\ \A k \in 1 .. n : at[k] = op(at[k - 1], k)
  <2>1. 0 \in 0 .. n /\ \A k \in 1 .. n : k \in 0 .. n /\ k # 0
    BY <1>1
  <2>2. at[0] = base
    BY <1>7, <2>1
  <2>3. ASSUME NEW k \in 1 .. n PROVE at[k] = op(at[k - 1], k)
    <3>1. at[k] = CHOOSE v \in {op(u, k) : u \in {at[k - 1]}} : TRUE
      BY <1>7, <2>1
    <3>2. QED
      BY <3>1
  <2>4. QED
    BY <2>2, <2>3
<1>9. \A k \in 0 .. n : at[k] \in C
  <2>1. \A k \in 1 .. n : at[k - 1] \in C => at[k] \in C
    BY <1>2, <1>8
  <2>2. at[0] \in C
    BY <1>1, <1>8
  <2>3. QED
    BY <1>1, <2>1, <2>2, WalkStays
<1>10. at[n] \in Seq(Code(c, w))
  BY <1>1, <1>9 DEF C
<1>11. Label(Continuation(site)) \in Code(c, w)
  BY <1>d, Constructed
<1>12. moves \o at[n] \o <<Label(Continuation(site))>> \in Seq(Code(c, w))
  BY <1>l, <1>10, <1>11
<1>13. QED
  BY <1>a, <1>d, <1>12 DEF w

\* What may stand in place of the calls of g, with the frames and the arity to match.
Expandable(c, prog, caller, g) ==
    LET callee == FunctionNamed(prog, g)
    IN  /\ callee.slotCount \in Nat /\ callee.params \in Seq(Slots(callee.slotCount))
        /\ callee.body \in Seq(Code(Leaf(c), callee.slotCount))
        /\ \A k \in DOMAIN caller.body :
              caller.body[k].op = "Call" /\ caller.body[k].name = g
                => Len(caller.body[k].args) = Len(callee.params)

\* inlineCallsInFunction: the slots of every copied body are inside the caller's frame,
\* which has grown to hold them, and nothing is called that was not called before.
\* f[k] is what InlineCalls has made of the first k instructions.
Copies(f, caller, n, site, V) ==
    /\ \A k \in 0 .. n : f[k] \in [fn : V, site : Nat]
    /\ f[0] = [fn |-> [caller EXCEPT !.body = <<>>], site |-> site]
    /\ \A k \in 1 .. n :
          \/ f[k].site = f[k - 1].site + 1
          \/ f[k] = [fn |-> [f[k - 1].fn EXCEPT !.body = Append(f[k - 1].fn.body, caller.body[k])],
                     site |-> f[k - 1].site]

\* A copy that has brought in nothing so far has what it was made of.
LEMMA SameSite ==
    ASSUME NEW c, NEW caller, caller \in Versions(c, caller), NEW S, NEW n \in Nat, NEW site \in Nat,
           caller.body \in Seq(S), Len(caller.body) = n,
           NEW f, Copies(f, caller, n, site, Versions(c, caller))
    PROVE  site =< f[n].site /\ (f[n].site = site => f[n].fn = caller)
<1> DEFINE body == caller.body
           As(b) == [caller EXCEPT !.body = b]
           Is(k) == /\ f[k].site \in Nat /\ site =< f[k].site
                    /\ f[k].site = site => f[k].fn = As(SubSeq(body, 1, k))
           T == {k \in Nat : k =< n => Is(k)}
<1>1. caller = [name |-> caller.name, params |-> caller.params, slotCount |-> caller.slotCount,
                named |-> caller.named, body |-> body]
  BY DEF Versions
<1>2. body \in Seq(S) /\ Len(body) = n
  OBVIOUS
<1>9. /\ f[0] = [fn |-> [caller EXCEPT !.body = <<>>], site |-> site]
      /\ \A k \in 1 .. n :
            \/ f[k].site = f[k - 1].site + 1
            \/ f[k] = [fn |-> [f[k - 1].fn EXCEPT !.body = Append(f[k - 1].fn.body, body[k])],
                       site |-> f[k - 1].site]
  BY DEF Copies
<1> HIDE DEF body
<1>3. 0 \in T
  <2>1. SubSeq(body, 1, 0) = <<>>
    BY <1>2
  <2>2. f[0].site = site /\ f[0].fn = As(<<>>)
    BY <1>9
  <2>3. QED
    BY <2>1, <2>2
<1>4. ASSUME NEW k \in Nat, k \in T PROVE k + 1 \in T
  <2>1. SUFFICES ASSUME k + 1 =< n PROVE Is(k + 1)
    OBVIOUS
  <2>2. Is(k) /\ k + 1 \in 1 .. n /\ (k + 1) - 1 = k
    BY <1>4, <2>1
  <2>3. \/ f[k + 1].site = f[k].site + 1
        \/ f[k + 1] = [fn |-> [f[k].fn EXCEPT !.body = Append(f[k].fn.body, body[k + 1])],
                       site |-> f[k].site]
    BY <1>9, <2>2
  <2>4. CASE f[k + 1].site = f[k].site + 1
    BY <2>2, <2>4
  <2>5. CASE f[k + 1] = [fn |-> [f[k].fn EXCEPT !.body = Append(f[k].fn.body, body[k + 1])],
                         site |-> f[k].site]
    <3>1. f[k + 1].site = f[k].site
          /\ f[k + 1].fn = [f[k].fn EXCEPT !.body = Append(f[k].fn.body, body[k + 1])]
      BY <2>5
    <3>2. ASSUME f[k].site = site PROVE f[k + 1].fn = As(SubSeq(body, 1, k + 1))
      <4>1. f[k].fn = As(SubSeq(body, 1, k))
        BY <2>2, <3>2
      <4>2. Append(SubSeq(body, 1, k), body[k + 1]) = SubSeq(body, 1, k + 1)
        BY <1>2, <2>2
      <4> DEFINE b == SubSeq(body, 1, k)
                 d == Append(b, body[k + 1])
      <4>3. f[k].fn.body = b
        BY <1>1, <4>1
      <4>4. f[k + 1].fn = [As(b) EXCEPT !.body = d]
        BY <3>1, <4>1, <4>3
      <4> HIDE DEF b, d
      <4>5. [As(b) EXCEPT !.body = d] = As(d)
        BY <1>1
      <4>6. QED
        BY <4>2, <4>4, <4>5 DEF b, d
    <3>3. QED
      BY <2>2, <3>1, <3>2
  <2>6. QED
    BY <2>3, <2>4, <2>5
<1>5. n \in T
  BY <1>3, <1>4, Induction
<1>6. SubSeq(body, 1, n) = body
  BY <1>2
<1>7. As(body) = caller
  BY <1>1 DEF body
<1>8. QED
  <2>1. n =< n
    OBVIOUS
  <2>2. Is(n)
    BY <1>5, <2>1
  <2> HIDE DEF As
  <2>3. site =< f[n].site /\ (f[n].site = site => f[n].fn = As(body))
    BY <1>6, <2>2
  <2>4. QED
    BY <1>7, <2>3

THEOREM InlineCallsStay ==
    ASSUME NEW c, IsContext(c),
           c = [values |-> c.values, stores |-> c.stores, loads |-> c.loads, names |-> c.names,
                labels |-> c.labels, arity |-> c.arity],
           \A k, j \in Nat : InlinedLabel(k, j) \in c.labels, \A k \in Nat : Continuation(k) \in c.labels,
           NEW prog, NEW caller, caller.slotCount \in Nat, caller \in Versions(c, caller),
           NEW inlinable, NEW site \in Nat,
           \A k \in DOMAIN caller.body :
              caller.body[k].op = "Call" /\ caller.body[k].name \in inlinable
                => Expandable(c, prog, caller, caller.body[k].name)
    PROVE  LET e == InlineCalls(prog, caller, inlinable, site)
           IN  /\ e \in [fn : Versions(c, caller), site : Nat]
               /\ site =< e.site /\ (e.site = site => e.fn = caller)
<1> DEFINE body == caller.body
           n == Len(body)
           base == [fn |-> [caller EXCEPT !.body = <<>>], site |-> site]
           op(acc, k) ==
              LET i == body[k]
                  e == Expansion(i, FunctionNamed(prog, i.name), acc.fn.slotCount, acc.site)
              IN  IF i.op = "Call" /\ i.name \in inlinable
                  THEN [fn |-> [acc.fn EXCEPT !.body = @ \o e.code, !.slotCount = @ + e.slots],
                        site |-> acc.site + 1]
                  ELSE [acc EXCEPT !.fn.body = Append(@, i)]
           Is(f) == f = [k \in 0 .. n |-> IF k = 0 THEN base
                                        ELSE CHOOSE v \in {op(u, k) : u \in {f[k - 1]}} : TRUE]
           at == CHOOSE f : Is(f)
           C == [fn : Versions(c, caller), site : Nat]
<1>a. body \in Seq(Code(c, caller.slotCount))
  BY DEF Versions
<1>1. n \in Nat /\ base \in C
  <2>1. <<>> \in Seq(Code(c, caller.slotCount)) /\ caller.slotCount =< caller.slotCount
    OBVIOUS
  <2> DEFINE none == <<>>
  <2> HIDE DEF none
  <2>2. [caller EXCEPT !.body = none] \in Versions(c, caller)
    BY <2>1, NewVersion DEF none
  <2>3. QED
    BY <1>a, <2>2 DEF none
<1>2. \A u \in C, k \in 1 .. n : op(u, k) \in C
  <2>1. TAKE u \in C, k \in 1 .. n
  <2> DEFINE i == body[k]
             m == u.fn.slotCount
             e == Expansion(i, FunctionNamed(prog, i.name), m, u.site)
  <2>2. u.fn \in Versions(c, caller) /\ u.site \in Nat /\ i \in Code(c, caller.slotCount)
    BY <1>a
  <2>3. m \in Nat /\ caller.slotCount =< m /\ u.fn.body \in Seq(Code(c, m))
    BY <2>2 DEF Versions
  <2> HIDE DEF m
  <2>4. i \in Code(c, m)
    BY <2>2, <2>3, CodeGrows
  <2>5. CASE i.op = "Call" /\ i.name \in inlinable
    <3>1. Expandable(c, prog, caller, i.name)
      BY <2>1, <2>5
    <3> DEFINE callee == FunctionNamed(prog, i.name)
    <3>2. /\ callee.slotCount \in Nat /\ callee.params \in Seq(Slots(callee.slotCount))
          /\ callee.body \in Seq(Code(Leaf(c), callee.slotCount))
          /\ Len(i.args) = Len(callee.params)
      BY <2>1, <2>5, <3>1 DEF Expandable
    <3> HIDE DEF callee, i
    <3>3. e.slots \in Nat /\ e.code \in Seq(Code(c, m + e.slots))
      BY <2>3, <2>4, <2>5, <3>2, ExpansionStays DEF callee
    <3> DEFINE w == m + e.slots
               code == u.fn.body \o e.code
    <3>4. w \in Nat /\ m =< w /\ code \in Seq(Code(c, w))
      <4>1. w \in Nat /\ m =< w
        BY <2>3, <3>3
      <4> HIDE DEF w
      <4>2. u.fn.body \in Seq(Code(c, w))
        BY <2>3, <4>1, CodeGrows
      <4>3. e.code \in Seq(Code(c, w))
        BY <3>3 DEF w
      <4> HIDE DEF e
      <4>4. QED
        BY <4>1, <4>2, <4>3
    <3>5. op(u, k) = [fn |-> [u.fn EXCEPT !.slotCount = w, !.body = code], site |-> u.site + 1]
      <4>1. op(u, k) = [fn |-> [u.fn EXCEPT !.body = @ \o e.code, !.slotCount = @ + e.slots],
                        site |-> u.site + 1]
        BY <2>5 DEF i, m
      <4> HIDE DEF e, op
      <4>2. [u.fn EXCEPT !.body = @ \o e.code, !.slotCount = @ + e.slots]
              = [u.fn EXCEPT !.slotCount = w, !.body = code]
        BY <2>2 DEF m, Versions
      <4>3. QED
        BY <4>1, <4>2
    <3> HIDE DEF w, code, op
    <3>6. [u.fn EXCEPT !.slotCount = w, !.body = code] \in Versions(c, caller)
      BY <2>2, <2>3, <3>4, NewVersion DEF m
    <3>7. QED
      BY <2>2, <3>5, <3>6
  <2>6. CASE ~(i.op = "Call" /\ i.name \in inlinable)
    <3> DEFINE code == Append(u.fn.body, i)
    <3>1. op(u, k) = [fn |-> [u.fn EXCEPT !.body = code], site |-> u.site]
      BY <2>2, <2>6 DEF Versions
    <3>2. code \in Seq(Code(c, m))
      BY <2>3, <2>4
    <3> HIDE DEF code, op
    <3>3. m =< m
      BY <2>3
    <3>4. [u.fn EXCEPT !.body = code] \in Versions(c, caller)
      BY <2>2, <2>3, <3>2, <3>3, NewVersion DEF m
    <3>5. QED
      BY <2>2, <3>1, <3>4
  <2>7. QED
    BY <2>5, <2>6
<1>b. \A u \in C, k \in 1 .. n :
         \/ op(u, k).site = u.site + 1
         \/ op(u, k) = [fn |-> [u.fn EXCEPT !.body = Append(u.fn.body, body[k])], site |-> u.site]
  <2>1. TAKE u \in C, k \in 1 .. n
  <2> DEFINE i == body[k]
  <2>2. CASE i.op = "Call" /\ i.name \in inlinable
    BY <2>2
  <2>3. CASE ~(i.op = "Call" /\ i.name \in inlinable)
    BY <2>3 DEF Versions
  <2>4. QED
    BY <2>2, <2>3
<1>c. base = [fn |-> [caller EXCEPT !.body = <<>>], site |-> site]
  OBVIOUS
<1>3. InlineCalls(prog, caller, inlinable, site) = at[n]
  BY DEF InlineCalls, Walk
<1> HIDE DEF op, C, n, base
<1> DEFINE G == [z \in C \X (1 .. n) |-> op(z[1], z[2])]
<1>4. G \in [C \X (1 .. n) -> C] /\ \A u \in C, k \in 1 .. n : G[<<u, k>>] = op(u, k)
  BY <1>2
<1> HIDE DEF G
<1>5. PICK f \in [0 .. n -> C] : Walks(f, n, base, G)
  BY <1>1, <1>4, WalkExists
<1>6. Is(f)
  <2>1. ASSUME NEW k \in 1 .. n PROVE k - 1 \in 0 .. n /\ k # 0 /\ f[k] = op(f[k - 1], k)
    <3>1. k - 1 \in 0 .. n /\ k # 0
      BY <1>1
    <3>2. f[k - 1] \in C
      BY <3>1
    <3>3. QED
      BY <1>4, <1>5, <3>1, <3>2 DEF Walks
  <2>2. \A k \in 0 .. n : k # 0 => k \in 1 .. n
    BY <1>1
  <2>3. f[0] = base
    BY <1>5 DEF Walks
  <2>4. QED
    BY <2>1, <2>2, <2>3
<1>7. Is(at)
  BY <1>6
<1> HIDE DEF at
<1>8. at[0] = base /\ \A k \in 1 .. n : at[k] = op(at[k - 1], k)
  <2>1. 0 \in 0 .. n /\ \A k \in 1 .. n : k \in 0 .. n /\ k # 0
    BY <1>1
  <2>2. at[0] = base
    BY <1>7, <2>1
  <2>3. ASSUME NEW k \in 1 .. n PROVE at[k] = op(at[k - 1], k)
    <3>1. at[k] = CHOOSE v \in {op(u, k) : u \in {at[k - 1]}} : TRUE
      BY <1>7, <2>1
    <3>2. QED
      BY <3>1
  <2>4. QED
    BY <2>2, <2>3
<1>9. \A k \in 0 .. n : at[k] \in C
  <2>1. \A k \in 1 .. n : at[k - 1] \in C => at[k] \in C
    BY <1>2, <1>8
  <2>2. at[0] \in C
    BY <1>1, <1>8
  <2>3. QED
    BY <1>1, <2>1, <2>2, WalkStays
<1>10. at[n] \in C
  BY <1>1, <1>9
<1>11. site =< at[n].site /\ (at[n].site = site => at[n].fn = caller)
  <2>1. \A k \in 0 .. n : at[k] \in [fn : Versions(c, caller), site : Nat]
    BY <1>9 DEF C
  <2>2. \A k \in 1 .. n :
           \/ at[k].site = at[k - 1].site + 1
           \/ at[k] = [fn |-> [at[k - 1].fn EXCEPT !.body = Append(at[k - 1].fn.body, body[k])],
                       site |-> at[k - 1].site]
    <3>1. TAKE k \in 1 .. n
    <3>2. at[k - 1] \in C /\ at[k] = op(at[k - 1], k)
      BY <1>1, <1>8, <1>9
    <3>3. QED
      BY <1>b, <3>2
  <2>3. at[0] = [fn |-> [caller EXCEPT !.body = <<>>], site |-> site]
    BY <1>8, <1>c
  <2>4. body \in Seq(Code(c, caller.slotCount)) /\ n = Len(body) /\ body = caller.body
    BY <1>a DEF n
  <2>5. n \in Nat /\ caller \in Versions(c, caller) /\ site \in Nat
    BY <1>1 DEF n
  <2> DEFINE S == Code(c, caller.slotCount)
             V == Versions(c, caller)
  <2>6. /\ caller.body \in Seq(S) /\ Len(caller.body) = n /\ caller \in V
        /\ \A k \in 0 .. n : at[k] \in [fn : V, site : Nat]
    BY <2>1, <2>4, <2>5
  <2> HIDE DEF S, body
  <2>7. \A k \in 1 .. n :
           \/ at[k].site = at[k - 1].site + 1
           \/ at[k] = [fn |-> [at[k - 1].fn EXCEPT !.body = Append(at[k - 1].fn.body, caller.body[k])],
                       site |-> at[k - 1].site]
    BY <2>2 DEF body
  <2>8. Copies(at, caller, n, site, V)
    BY <2>3, <2>6, <2>7 DEF Copies
  <2>9. QED
    BY <2>5, <2>6, <2>8, SameSite DEF V
<1>12. QED
  BY <1>3, <1>10, <1>11 DEF C

=============================================================================
